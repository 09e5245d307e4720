------------------------------ MODULE Tvulive ------------------------------
(* Tvulive frames as items of a variable-item memory                          *)
(* (libshmmedia/src/libshmmedia_tvulive_protocol.cpp).  Every version of the   *)
(* writer has laid out one more head, and every caller of the reader passes a  *)
(* structure of the version it was compiled with.                             *)
(*   writer  whether the writing wrap handle has its memory,                   *)
(*   reader  whether the reading one has, and the structure its caller passes  *)
(*           again and again,                                                  *)
(*   wire    the items of the memory not read yet, at most Slots: the kind and *)
(*           the bytes of their user data,                                     *)
(*   sent    for each of them what was written: the version of the head, the   *)
(*           fields, the data, whether a part is missing,                      *)
(*   got     what the last read returned, of which item, with which structure. *)
EXTENDS BufferCtrl

CONSTANTS Frames,      \* the fields of frames
          Sections,    \* sequences of sections: [here |-> BOOLEAN, s |-> bytes]
          Slots, Uses

VARIABLES writer, reader, wire, sent, got, uses
vars == <<writer, reader, wire, sent, got, uses>>

Names == {"i_type", "u_stream_index", "u_program_index", "u_frame_index",
          "u_frame_timestamp_ms", "u_gop_poc"}
Blank == [i_type |-> Times(0, 4), u_stream_index |-> Times(0, 2), u_program_index |-> Times(0, 2),
          u_frame_index |-> Times(0, 2), u_frame_timestamp_ms |-> Times(0, 8),
          u_gop_poc |-> Times(0, 4)]
Nothing == [ret |-> 0, of |-> <<>>, struct |-> "none", before |-> Blank, after |-> Blank,
            data |-> <<>>]
Init ==
  /\ writer = FALSE /\ reader = [open |-> FALSE, info |-> Blank]
  /\ wire = <<>> /\ sent = <<>> /\ got = Nothing /\ uses = 0

Use == uses < Uses /\ uses' = uses + 1

-----------------------------------------------------------------------------
(* The heads.  Version 1 is in the order of the host.                         *)
HeadSize == [v1 |-> 12, v20 |-> 18, v21 |-> 32, v22 |-> 36, v23 |-> 40]

HeadV1(f, len) ==
  <<1, f.i_type[4], f.u_stream_index[2], 0>> \o Reverse(f.u_frame_index) \o <<0, 0>>
    \o Reverse(Digits(HeadSize.v1 + len, 4))

HeadV20(f, len, offset) ==
  <<2, f.i_type[4]>> \o f.u_stream_index \o f.u_program_index \o f.u_frame_index \o <<0, 0>>
    \o Digits(len, 4) \o Digits(offset, 4)

HeadV21(f, len, size) == HeadV20(f, len, size) \o <<0, 0>> \o Digits(size, 4) \o f.u_frame_timestamp_ms
HeadV22(f, len, size) == HeadV21(f, len, size) \o f.i_type
HeadV23(f, len, size) == HeadV22(f, len, size) \o f.u_gop_poc

LayOut(ver, f, len) ==
  CASE ver = "v1"  -> HeadV1(f, len)
    [] ver = "v20" -> HeadV20(f, len, HeadSize.v20)
    [] ver = "v21" -> HeadV21(f, len, HeadSize.v21)
    [] ver = "v22" -> HeadV22(f, len, HeadSize.v22)
    [] ver = "v23" -> HeadV23(f, len, HeadSize.v23)

EINVAL == -22
ENOMEM == -12

(* LibTvuMediaTvuliveWriteHead, with a structure of a version.  One of the    *)
(* first version is no error and no head.                                     *)
WriteHead(f, len, size, struct) ==
  CASE size < HeadSize.v23                     -> [ret |-> -1, s |-> <<>>]
    [] size >= HeadSize.v23 /\ struct = "none" -> [ret |-> EINVAL, s |-> <<>>]
    [] size >= HeadSize.v23 /\ struct = "v1"   -> [ret |-> 0, s |-> <<>>]
    [] size >= HeadSize.v23 /\ struct = "v2"   -> [ret |-> HeadSize.v23, s |-> LayOut("v23", f, len)]

WriteBuffer(f, data, size, struct) ==
  LET h == WriteHead(f, Len(data), size, struct) IN
  IF size < HeadSize.v23 + Len(data) THEN [ret |-> -1, s |-> <<>>]
  ELSE IF h.ret <= 0 THEN h ELSE [ret |-> h.ret + Len(data), s |-> h.s \o data]

SumSectionLen(secs) == FoldLeft(LAMBDA n, x : n + Len(x.s), 0, secs)

(* A section without bytes, or for which no room is left, is passed over.     *)
WriteSections(secs, room) ==
  FoldLeft(LAMBDA s, x : IF x.here /\ Len(s) + Len(x.s) <= room THEN s \o x.s ELSE s, <<>>, secs)

(* LibTvuMediaTvuliveWriteSectionData, in a room for head and data: `given` is *)
(* the caller's sum of the lengths, 0 to have them added.  A structure that is *)
(* not the latest is handed on as one without a version.                      *)
WriteSectionData(f, secs, given, struct) ==
  LET len == IF given = 0 THEN SumSectionLen(secs) ELSE given
      h   == WriteHead(f, len, HeadSize.v23 + len, IF struct = "v2" THEN "v2" ELSE "none")
      s   == WriteSections(secs, len)
  IN  CASE h.ret <= 0 -> h
        [] h.ret > 0 /\ Len(s) # len -> [ret |-> 0, s |-> <<>>]
        [] h.ret > 0 /\ Len(s) = len -> [ret |-> h.ret + len, s |-> h.s \o s]

-----------------------------------------------------------------------------
(* The memory: what is committed is an item of it.                            *)
Commit(kind, s, ghost) ==
  /\ wire' = Append(wire, [kind |-> kind, s |-> s])
  /\ sent' = Append(sent, ghost)

Ghost(ver, f, data, torn) == [ver |-> ver, fields |-> f, data |-> data, torn |-> torn]

CreateWriter == Use /\ ~writer /\ writer' = TRUE /\ UNCHANGED <<reader, wire, sent, got>>
OpenReader ==
  /\ Use /\ ~reader.open /\ writer
  /\ reader' = [reader EXCEPT !.open = TRUE]
  /\ UNCHANGED <<writer, wire, sent, got>>
Destroy ==
  /\ Use /\ (writer \/ reader.open)
  /\ writer' = FALSE /\ reader' = [reader EXCEPT !.open = FALSE]
  /\ wire' = <<>> /\ sent' = <<>> /\ got' = Nothing

(* CLibShmmediaTvuliveWrapHandle::write; `room` is whether the memory has room *)
(* for so many bytes.  The room that was applied for stays where a failure     *)
(* finds it: what is not committed is applied for again.                      *)
WrapWrite(f, secs, given, struct, room) ==
  LET len == IF given = 0 THEN SumSectionLen(secs) ELSE given
      w   == WriteSectionData(f, secs, given, struct)
      ret == CASE ~writer -> -1
               [] writer /\ Len(wire) = Slots -> 0
               [] writer /\ Len(wire) < Slots /\ len = 0 -> EINVAL
               [] writer /\ Len(wire) < Slots /\ len > 0 /\ ~room -> ENOMEM
               [] OTHER -> w.ret
  IN
  /\ Use
  /\ IF ret > 0
     THEN Commit("tvulive", w.s, Ghost("v23", f, [secs |-> secs, given |-> given], FALSE))
     ELSE UNCHANGED <<wire, sent>>
  /\ got' = [Nothing EXCEPT !.ret = ret]
  /\ UNCHANGED <<writer, reader>>

(* A caller of LibTvuMediaTvuliveWriteData with a buffer of its own sends it as *)
(* the user data of an item.                                                  *)
WriteData(f, data, size, struct) ==
  LET w == WriteBuffer(f, data, size, struct) IN
  /\ Use /\ writer /\ Len(wire) < Slots
  /\ IF w.ret > 0
     THEN Commit("tvulive", w.s, Ghost("v23", f, [secs |-> <<[here |-> TRUE, s |-> data]>>, given |-> 0], FALSE))
     ELSE UNCHANGED <<wire, sent>>
  /\ got' = [Nothing EXCEPT !.ret = w.ret]
  /\ UNCHANGED <<writer, reader>>

(* A writer of another version, or of other items, or one whose user data are  *)
(* shorter than its head says.                                                *)
PeerWrites(ver, f, data, torn) ==
  LET s == LayOut(ver, f, Len(data)) \o data IN
  /\ Use /\ Len(wire) < Slots /\ writer
  /\ Commit("tvulive", SubSeq(s, 1, Len(s) - torn),
            Ghost(ver, f, [secs |-> <<[here |-> TRUE, s |-> data]>>, given |-> 0], torn > 0))
  /\ UNCHANGED <<writer, reader, got>>

OtherWrites ==
  /\ Use /\ Len(wire) < Slots /\ writer
  /\ Commit("other", <<2>>, Ghost("none", Blank, [secs |-> <<>>, given |-> 0], FALSE))
  /\ UNCHANGED <<writer, reader, got>>

-----------------------------------------------------------------------------
(* Reading s into a structure that holds `info`: [ret, info, data], data being *)
(* a place in s.                                                              *)
At(s, from, width) == BytesAt([mem |-> s], from, width)

ReadV20(info, s) ==
  LET len    == Number(At(s, 10, 4))
      offset == Number(At(s, 14, 4))
      ok     == offset >= HeadSize.v20 /\ offset + len <= Len(s)
  IN  [ret |-> IF ok THEN offset + len ELSE -1,
       info |-> [info EXCEPT !.i_type = <<0, 0, 0>> \o At(s, 1, 1), !.u_stream_index = At(s, 2, 2),
                             !.u_program_index = At(s, 4, 2), !.u_frame_index = At(s, 6, 2)],
       data |-> IF ok THEN At(s, offset, len) ELSE <<>>]

Further(r, fields) == IF r.ret < 0 THEN r ELSE [r EXCEPT !.info = fields @@ @]
ReadV21(info, s) == Further(ReadV20(info, s), "u_frame_timestamp_ms" :> At(s, 24, 8))
ReadV22(info, s) == Further(ReadV21(info, s), "i_type" :> At(s, 32, 4))
ReadV23(info, s) == Further(ReadV22(info, s), "u_gop_poc" :> At(s, 36, 4))

(* A structure without the last field is filled to the end: mutant of          *)
(* ReadV23WithStructSize.                                                     *)
ReadV23Whole(info, s, struct) == IF struct = "none" THEN ReadV20(info, s) ELSE ReadV23(info, s)

(* The caller's structure decides only where the head is the latest.          *)
ReadV23WithStructSize(info, s, struct) ==
  CASE struct = "v2"   -> ReadV23(info, s)
    [] struct = "v1"   -> ReadV22(info, s)
    [] struct = "none" -> ReadV20(info, s)

(* Version 1 is not compared with the length of the buffer.                   *)
ReadV1(info, s) ==
  LET total == Number(Reverse(At(s, 8, 4))) IN
  [ret |-> IF total > HeadSize.v1 THEN total ELSE -1,
   info |-> [info EXCEPT !.i_type = <<0, 0, 0>> \o At(s, 1, 1), !.u_stream_index = <<0>> \o At(s, 2, 1),
                         !.u_frame_index = Reverse(At(s, 4, 2))],
   data |-> IF total > HeadSize.v1 THEN At(s, HeadSize.v1, total - HeadSize.v1) ELSE <<>>]

ReadBuffer(info, s, struct) ==
  LET offset == Number(At(s, 14, 4))
      size   == Number(At(s, 20, 4))
  IN  CASE At(s, 0, 1) = <<1>> -> ReadV1(info, s)
        [] At(s, 0, 1) = <<2>> /\ offset < HeadSize.v21 -> ReadV20(info, s)
        [] At(s, 0, 1) = <<2>> /\ offset >= HeadSize.v21 /\ size >= HeadSize.v23 ->
             ReadV23WithStructSize(info, s, struct)
        [] At(s, 0, 1) = <<2>> /\ offset >= HeadSize.v21 /\ size \in HeadSize.v22..HeadSize.v23 - 1 ->
             ReadV22(info, s)
        [] At(s, 0, 1) = <<2>> /\ offset >= HeadSize.v21 /\ size \in HeadSize.v21..HeadSize.v22 - 1 ->
             ReadV21(info, s)
        [] OTHER -> [ret |-> -1, info |-> info, data |-> <<>>]

(* CLibShmmediaTvuliveWrapHandle::read: an item is taken before it is looked  *)
(* at.                                                                        *)
WrapRead(struct) ==
  /\ Use /\ reader.open /\ wire # <<>>
  /\ LET item == wire[1]
         r == IF item.kind # "tvulive" THEN [ret |-> 0, info |-> reader.info, data |-> <<>>]
              ELSE ReadBuffer(reader.info, item.s, struct)
     IN  /\ reader' = [reader EXCEPT !.info = r.info]
         /\ got' = [ret |-> r.ret, of |-> <<sent[1]>>, struct |-> struct, before |-> reader.info,
                    after |-> r.info, data |-> r.data]
  /\ wire' = SubSeq(wire, 2, Len(wire)) /\ sent' = SubSeq(sent, 2, Len(sent))
  /\ UNCHANGED writer

(* _search_items_callback of the last item: the structure is cleared, and its  *)
(* version with it.                                                           *)
SearchItems ==
  /\ Use /\ reader.open /\ wire # <<>> /\ wire[Len(wire)].kind = "tvulive"
  /\ LET r == ReadBuffer(Blank, wire[Len(wire)].s, "none") IN
     got' = [ret |-> r.ret, of |-> <<sent[Len(sent)]>>, struct |-> "none", before |-> Blank,
             after |-> r.info, data |-> r.data]
  /\ UNCHANGED <<writer, reader, wire, sent>>

SeekReadIndex(toWrite) ==
  /\ Use /\ reader.open /\ wire # <<>>
  /\ LET n == IF toWrite THEN Len(wire) ELSE 1 IN
     wire' = SubSeq(wire, n + 1, Len(wire)) /\ sent' = SubSeq(sent, n + 1, Len(sent))
  /\ got' = Nothing
  /\ UNCHANGED <<writer, reader>>

Structs == {"none", "v1", "v2"}
Data == {<<>>, <<5, 6>>}
Next == \/ CreateWriter \/ OpenReader \/ Destroy
        \/ \E f \in Frames, struct \in Structs :
             \/ \E secs \in Sections, given \in {0, 2}, room \in BOOLEAN :
                  WrapWrite(f, secs, given, struct, room)
             \/ \E d \in Data, short \in {0, 1} : WriteData(f, d, HeadSize.v23 + Len(d) - short, struct)
        \/ \E f \in Frames, ver \in DOMAIN HeadSize, d \in Data, torn \in {0, 1, 14} :
             (ver = "v1" => torn <= Len(d)) /\ PeerWrites(ver, f, d, torn)
        \/ OtherWrites
        \/ \E struct \in Structs : WrapRead(struct)
        \/ SearchItems
        \/ \E toWrite \in BOOLEAN : SeekReadIndex(toWrite)
Spec == Init /\ [][Next]_vars

-----------------------------------------------------------------------------
(* The fields a head of that version gives a caller with such a structure; of  *)
(* the type, only the last byte where it is not among them.                   *)
Carried(ver, struct) ==
  LET some == {"u_stream_index", "u_program_index", "u_frame_index"} IN
  CASE ver = "v1" -> {"u_frame_index"}
    [] ver = "v20" \/ (ver = "v23" /\ struct = "none") -> some
    [] ver = "v21" -> some \cup {"u_frame_timestamp_ms"}
    [] ver = "v22" \/ (ver = "v23" /\ struct = "v1") ->
         some \cup {"u_frame_timestamp_ms", "i_type"}
    [] ver = "v23" /\ struct = "v2" -> Names

(* Some of the sections, in their order, that add up to the sum given.        *)
Agrees(data, d) ==
  LET all == SelectSeq(d.secs, LAMBDA x : x.here) IN
  IF d.given = 0 THEN data = FlattenSeq([i \in DOMAIN all |-> all[i].s])
  ELSE /\ Len(data) = d.given
       /\ \E part \in SUBSET DOMAIN all :
            data = FlattenSeq([i \in DOMAIN all |-> IF i \in part THEN all[i].s ELSE <<>>])

(* Between any two versions of the writer, the reader and its caller, a frame  *)
(* that is taken has the data that were written, the fields its head carries   *)
(* and the low byte of the type; every other field of the caller's structure   *)
(* is left as it was.  Only the first version cannot carry a frame without      *)
(* data.                                                                      *)
FrameIsCarried ==
  got.of # <<>> /\ got.of[1].ver # "none" /\ ~got.of[1].torn =>
    LET of == got.of[1]
        carried == Carried(of.ver, got.struct)
    IN  IF of.ver = "v1" /\ SumSectionLen(of.data.secs) = 0 THEN got.ret < 0
        ELSE
        /\ got.ret > 0 /\ Agrees(got.data, of.data)
        /\ got.after.i_type[4] = of.fields.i_type[4]
        /\ \A n \in carried : got.after[n] = of.fields[n]
        /\ \A n \in {"u_frame_timestamp_ms", "u_gop_poc"} \ carried : got.after[n] = got.before[n]

(* User data that end before the head says are refused, whatever the version   *)
(* of the head but the first.                                                 *)
TornIsRefused ==
  got.of # <<>> /\ got.of[1].torn /\ got.of[1].ver # "v1" => got.ret < 0
=============================================================================
