----------------------------- MODULE ItemLayout -----------------------------
(* The item in its slot: how SendData of fixed and of variable items and      *)
(* LibShmMediaProtoWriteItemBuffer lay it out in a memory of version 2, 3 or  *)
(* 4, and how each reader finds it again                                      *)
(* (libshmmediaProto/src/libshm_media_protocol_internal.cpp, called from       *)
(* libshm_media.cpp and libshm_media_variable_item.cpp).                       *)
(* A slot is a sequence of cells; an integer of the head is one cell and so    *)
(* is a byte of data.  A field of the head stands for those treated alike:     *)
(* dst for width and height, src for four, a pts for its dts, a data_type for  *)
(* its kind.                                                                  *)
(*   writer  the memory: its version, and whether its items are of one size,  *)
(*   wire    the slot, over what earlier items left there: cells, the place    *)
(*           of its address between two multiples of Align, what was applied,  *)
(*   sent    what was sent last, as what, and what became of it,               *)
(*   reader  the layout that the reader's channel object holds,                *)
(*   got     what the last read answered.                                     *)
(* The copy of the media head in the header of the memory is MemoryHead's.     *)
EXTENDS KeyValueMap

CONSTANTS Align,      \* 16
          AlignRoom,  \* V4_ITEM_ALIGN_SIZE
          SlotLength, \* item_length of a memory of items of one size
          Bases,      \* a subset of 0..Align - 1
          Messages,   \* records of a head mh, an item mi and a layout
          Uses

VARIABLES writer, reader, wire, sent, got, uses
vars == <<writer, reader, wire, sent, got, uses>>

Use == uses < Uses /\ uses' = uses + 1

-----------------------------------------------------------------------------
(* Heads.  The fields of V12 that V3 has too have its names.                  *)
V12Fields == <<"ver", "length", "videolen", "audiolen", "cclen", "vfourcc", "frametype", "vpts",
               "dst", "duration", "scale", "afourcc", "apts", "channels", "depth", "samplerate">>
V3Fields == <<"length", "videolen", "audiolen", "subtlen", "cclen", "timecodelen", "datalen",
              "frametype", "vpts", "dst", "vfourcc", "duration", "scale", "pic_flag", "apts",
              "afourcc", "channels", "depth", "samplerate", "spts", "data_ct", "data_type">>
V40Fields == V3Fields \o
             <<"head_len", "v_data_offset", "a_data_offset", "s_data_offset", "cc_data_offset",
               "timecode_data_offset", "user_data_offset", "item_version", "extension">>
V4Fields == V40Fields \o <<"src", "key_value_area_offset", "key_value_area_len">>
Fields == (2 :> V12Fields) @@ (3 :> V3Fields) @@ (4 :> V4Fields)

Parts == <<"video", "audio", "subt", "cc", "timecode", "data">>
PartsOf(ver) == IF ver = 2 THEN <<"video", "audio", "cc">> ELSE Parts
LengthOf == [video |-> "videolen", audio |-> "audiolen", subt |-> "subtlen", cc |-> "cclen",
             timecode |-> "timecodelen", data |-> "datalen"]
OffsetOf == [video |-> "v_data_offset", audio |-> "a_data_offset", subt |-> "s_data_offset",
             cc |-> "cc_data_offset", timecode |-> "timecode_data_offset",
             data |-> "user_data_offset"]

Place(fields) == [f \in Range(fields) |-> CHOOSE i \in DOMAIN fields : fields[i] = f]
PlaceIn == [ver \in DOMAIN Fields |-> Place(Fields[ver])]
Get(mem, ver, f) == mem[PlaceIn[ver][f]]

(* The head is not cleared: mutant of Lay.                                    *)
LayOver(mem, fields, rec) ==
  Overlay(mem, 0, [i \in DOMAIN fields |-> IF fields[i] \in DOMAIN rec THEN rec[fields[i]]
                                           ELSE IF i \in DOMAIN mem THEN mem[i] ELSE 0])

(* A head that is cleared and given the fields of rec that it has.            *)
Lay(mem, fields, rec) ==
  Overlay(mem, 0, [i \in DOMAIN fields |-> IF fields[i] \in DOMAIN rec THEN rec[fields[i]] ELSE 0])

-----------------------------------------------------------------------------
(* Offsets: [at, next], the place of each part and that after the last.       *)
Lengths(parts) == [p \in DOMAIN parts |-> Len(parts[p])]
Sum(len, names) == FoldLeft(LAMBDA n, p : n + len[p], 0, names)

Consecutive(start, len, names) ==
  FoldLeft(LAMBDA r, p : [at |-> (p :> r.next) @@ r.at, next |-> r.next + len[p]],
           [at |-> <<>>, next |-> start], names)

AlignOffset(base, offset) == ((base + offset + Align - 1) \div Align) * Align - base

(* getWriteItemBufferLayoutV4: video and audio at aligned addresses.          *)
OffsetsV4(base, len) ==
  With(AlignOffset(base, Len(V4Fields)), LAMBDA v :
    With(Consecutive(AlignOffset(base, v + len.video), len, Tail(Parts)), LAMBDA rest :
      [at |-> ("video" :> v) @@ rest.at, next |-> rest.next]))

Offsets(ver, base, len) ==
  IF ver = 4 THEN OffsetsV4(base, len) ELSE Consecutive(Len(Fields[ver]), len, PartsOf(ver))

(* preRequireItemHeadLength.                                                  *)
HeadRoom(ver) == Len(Fields[ver]) + IF ver = 4 THEN AlignRoom ELSE 0

-----------------------------------------------------------------------------
(* Writing.                                                                   *)
Positive(n) == IF n > 0 THEN n ELSE 0

VideoRefused(mh, mi) ==
  /\ mi.parts.video # <<>>
  /\ mh.dst <= 0 \/ mh.duration <= 0 \/ mh.scale <= 0 \/ mh.duration > mh.scale
AudioRefused(mh, mi) ==
  mi.parts.audio # <<>> /\ (mh.channels = 0 \/ mh.depth <= 0 \/ mh.samplerate < 8000)

OnlyIf(c, rec) == IF c THEN rec ELSE <<>>

CommonHead(mi) ==
  [data_ct |-> mi.times.data_ct, data_type |-> mi.times.data_type, pic_flag |-> mi.times.pic_flag]
VideoHead(mh, mi) == OnlyIf(mi.parts.video # <<>>,
  [frametype |-> mi.times.frametype, vpts |-> mi.times.vpts, vfourcc |-> mh.vfourcc,
   dst |-> Positive(mh.dst), duration |-> Positive(mh.duration), scale |-> Positive(mh.scale),
   src |-> Positive(mh.src), videolen |-> Len(mi.parts.video)])
AudioHead(mh, mi) == OnlyIf(mi.parts.audio # <<>>,
  [apts |-> mi.times.apts, afourcc |-> mh.afourcc, channels |-> mh.channels, depth |-> mh.depth,
   samplerate |-> mh.samplerate, audiolen |-> Len(mi.parts.audio)])
OtherHead(mi) ==
  [subtlen |-> Len(mi.parts.subt), cclen |-> Len(mi.parts.cc),
   timecodelen |-> Len(mi.parts.timecode), datalen |-> Len(mi.parts.data)]
    @@ OnlyIf(mi.parts.subt # <<>>, [spts |-> mi.times.spts])

(* What of the V4 head is written before the video, before the audio, after.  *)
BeginV4(off) == [head_len |-> Len(V4Fields), item_version |-> 4, v_data_offset |-> off.at.video]
AudioV4(off) == [a_data_offset |-> off.at.audio]
OtherV4(off, kv) ==
  [s_data_offset |-> off.at.subt, cc_data_offset |-> off.at.cc,
   timecode_data_offset |-> off.at.timecode, user_data_offset |-> off.at.data]
    @@ OnlyIf(kv # <<>>, [extension |-> 1, key_value_area_offset |-> off.next,
                          key_value_area_len |-> Len(kv)])

Put(mem, off, parts, names) ==
  FoldLeft(LAMBDA m, p : IF parts[p] = <<>> THEN m ELSE Overlay(m, off.at[p], parts[p]), mem, names)

(* writeItemBufferV4, and SendData of version 2 and 3.  The parts in copied    *)
(* lie in their places; the length is written last, so it is 0 if refused.    *)
WriteItem(ver, mem, base, mh, mi, kv, copied) ==
  With(Offsets(ver, base, Lengths(mi.parts)), LAMBDA off :
    LET begin == OnlyIf(ver = 4, BeginV4(off)) @@ CommonHead(mi)
        audio == OnlyIf(ver = 4, AudioV4(off)) @@ VideoHead(mh, mi) @@ begin
        whole == [length |-> off.next + Len(kv)] @@ AudioHead(mh, mi) @@ OtherHead(mi)
                   @@ OnlyIf(ver = 4, OtherV4(off, kv)) @@ audio
        Copy(m, names) == Put(m, off, mi.parts, SelectSeq(names, LAMBDA p : p \notin copied))
    IN  IF VideoRefused(mh, mi) THEN [ret |-> -22, mem |-> Lay(mem, Fields[ver], begin)]
        ELSE IF AudioRefused(mh, mi)
        THEN [ret |-> -22, mem |-> Copy(Lay(mem, Fields[ver], audio), <<"video">>)]
        ELSE [ret |-> off.next + Len(kv),
              mem |-> Overlay(Copy(Lay(mem, Fields[ver], whole), PartsOf(ver)),
                              off.next, kv)])

-----------------------------------------------------------------------------
(* Reading.                                                                   *)
Cell(mem, f) == Get(mem, 4, f)       \* a field of version 3 or 4
SumV3(mem) == FoldLeft(LAMBDA n, p : n + Cell(mem, LengthOf[p]), 0, Parts)
SumV12(mem) == FoldLeft(LAMBDA n, p : n + Get(mem, 2, LengthOf[p]), 0, PartsOf(2))

(* getBufferLenFromItemBuffer.                                                *)
BufferLen(mem, ver) == IF ver >= 3 THEN Cell(mem, "length") ELSE Get(mem, 2, "length")

(* getItemVerFromReadBuffer: 0 is kLibShmMediaItemVerInvalid.  The first cell  *)
(* is the length from version 3 on, and before that the constant 0.           *)
IsV4Item(mem, n) == Cell(mem, "length") = n /\ n >= SumV3(mem) + Len(V40Fields)
IsV3Item(mem, n) == Cell(mem, "length") = n /\ n = SumV3(mem) + Len(V3Fields)
IsV2Item(mem, n) == Get(mem, 2, "length") = n /\ n = SumV12(mem) + Len(V12Fields)
ItemVersion(mem, n) ==
  IF mem[1] = 0 THEN IF IsV2Item(mem, n) THEN 2 ELSE 0
  ELSE IF IsV4Item(mem, n)
  THEN IF Cell(mem, "item_version") > 0 THEN Cell(mem, "item_version") ELSE 4
  ELSE IF IsV3Item(mem, n) THEN 3 ELSE 0

Subv1(mem) == Cell(mem, "head_len") >= Len(V4Fields)

(* _read_param_head_from_item_buffer: what no item has is zero.               *)
HeadFields == {"dst", "vfourcc", "duration", "scale", "src", "afourcc", "channels", "depth",
               "samplerate"}
HeadOf(mem, ver) ==
  [f \in HeadFields |->
     IF f \in DOMAIN PlaceIn[ver] /\ (f = "src" => Subv1(mem)) THEN Get(mem, ver, f) ELSE 0]

(* getReadItemBufferLayoutV12, V3 and V4.                                     *)
TimeFields == {"vpts", "apts", "spts", "frametype", "pic_flag", "data_ct", "data_type"}
LengthsOf(mem, ver) ==
  [p \in Range(Parts) |-> IF p \in Range(PartsOf(ver)) THEN Get(mem, ver, LengthOf[p]) ELSE 0]
PlacesV4(mem) == [p \in Range(Parts) |-> Cell(mem, OffsetOf[p])]
PlacesOf(mem, ver, len) ==
  IF ver = 4 THEN PlacesV4(mem)
  ELSE Consecutive(Len(Fields[ver]), len, PartsOf(ver)).at @@ [p \in Range(Parts) |-> 0]
ItemOf(mem, ver) ==
  With(LengthsOf(mem, ver), LAMBDA len : With(PlacesOf(mem, ver, len), LAMBDA at :
    [times |-> [f \in TimeFields |-> IF f \in DOMAIN PlaceIn[ver] THEN Get(mem, ver, f) ELSE 0],
     parts |-> [p \in Range(Parts) |-> SubSeq(mem, at[p] + 1, at[p] + len[p])],
     len   |-> Sum(len, Parts)]))

KeyValueArea(mem, ver) ==
  IF ver = 4 /\ Cell(mem, "extension") = 1 /\ Subv1(mem)
  THEN SubSeq(mem, Cell(mem, "key_value_area_offset") + 1,
              Cell(mem, "key_value_area_offset") + Cell(mem, "key_value_area_len"))
  ELSE <<>>

(* readDataFromItemBuffer.                                                    *)
Parsed(mem, ver) == [ver |-> ver, head |-> HeadOf(mem, ver), item |-> ItemOf(mem, ver)]
ReadData(mem, n) ==
  With(ItemVersion(mem, n), LAMBDA ver : IF ver = 0 THEN [ver |-> 0] ELSE Parsed(mem, ver))

-----------------------------------------------------------------------------
(* The calls.                                                                 *)
Unsent == [ver |-> 0, ret |-> 0, applied |-> 0, published |-> FALSE]
Nothing == [call |-> "none", ret |-> 0]
Init ==
  /\ writer \in [ver : {2, 3, 4}, fixed : {TRUE}] \cup [ver : {3, 4}, fixed : {FALSE}]
  /\ wire = [mem |-> Times(Junk, SlotLength), base |-> 0, room |-> SlotLength]
  /\ sent = Unsent /\ reader = <<>> /\ got = Nothing /\ uses = 0

(* keyValueProtoAppendToBuffer of the layout the head refers to, if any.      *)
KeyValues(layout) == IF layout = <<>> THEN <<>> ELSE Bytes(AppendLayout(New, layout))

DataLength(ver, mi) == Sum(Lengths(mi.parts), PartsOf(ver))

Sends(ver, m, w, room, base, published) ==
  /\ wire' = [mem |-> w.mem, base |-> base, room |-> room]
  /\ sent' = [ver |-> ver, ret |-> w.ret, applied |-> 0, published |-> published, m |-> m]
  /\ got' = Nothing
  /\ UNCHANGED <<writer, reader>>

(* GetItemDataAddr: where a caller may put the video before SendData, with     *)
(* LIBSHM_MEDIA_VIDEO_COPIED_FLAG.                                            *)
GetItemDataAddr(ver, base) ==
  IF ver = 4 THEN AlignOffset(base, Len(V4Fields)) ELSE Len(Fields[ver])
InPlace(mem, ver, base, m, copied) ==
  IF "video" \in copied THEN Overlay(mem, GetItemDataAddr(ver, base), m.mi.parts.video) ELSE mem

(* CLibShmMediaCtx::SendData before version 4.  Too long or empty an item is   *)
(* refused with the head cleared, one with invalid parameters later; neither   *)
(* is published.                                                              *)
SendFixed(m, base, copied) ==
  LET ver == writer.ver
      n == DataLength(ver, m.mi)
      mem == InPlace(wire.mem, ver, base, m, copied)
  IN  /\ Use /\ writer.fixed /\ ver < 4
      /\ IF n = 0 \/ n + HeadRoom(ver) > SlotLength
         THEN Sends(ver, m, [ret |-> IF n = 0 THEN 0 ELSE -1, mem |-> Lay(mem, Fields[ver], <<>>)],
                    SlotLength, base, FALSE)
         ELSE With(WriteItem(ver, mem, base, m.mh, m.mi, <<>>, copied), LAMBDA w :
                Sends(ver, m, w, SlotLength, base, w.ret > 0))

(* _sendV4Data of it.  Too long or empty an item leaves the slot alone; one    *)
(* with invalid parameters is published.                                      *)
SendFixedV4(m, base, copied) ==
  LET kv == KeyValues(m.layout)
      n == DataLength(4, m.mi) + Len(kv)
      mem == InPlace(wire.mem, 4, base, m, copied)
  IN  /\ Use /\ writer.fixed /\ writer.ver = 4
      /\ IF n = 0 \/ n + HeadRoom(4) > SlotLength
         THEN Sends(4, m, [ret |-> 0, mem |-> mem], SlotLength, base, FALSE)
         ELSE With(WriteItem(4, mem, base, m.mh, m.mi, kv, copied), LAMBDA w :
                Sends(4, m, w, SlotLength, base, TRUE))

(* _sendV3Data of variable items, in what Apply gives.                         *)
SendVariable(m, base) ==
  /\ Use /\ ~writer.fixed /\ writer.ver = 3
  /\ With(WriteItem(3, wire.mem, base, m.mh, m.mi, <<>>, {}), LAMBDA w :
       Sends(3, m, w, DataLength(3, m.mi) + HeadRoom(3), base, w.ret > 0))

(* _sendV4Data of variable items: committed whatever the writing answered.     *)
SendVariableV4(m, base) ==
  LET kv == KeyValues(m.layout)
      n == DataLength(4, m.mi) + Len(kv)
  IN  /\ Use /\ ~writer.fixed /\ writer.ver = 4
      /\ IF n = 0
         THEN Sends(4, m, [ret |-> 0, mem |-> wire.mem], wire.room, wire.base, FALSE)
         ELSE With(WriteItem(4, wire.mem, base, m.mh, m.mi, kv, {}), LAMBDA w :
                Sends(4, m, w, n + HeadRoom(4), base, TRUE))

(* Callers that put the data where it belongs and have the head written: the   *)
(* data lie in the places that getWriteItemBufferLayoutV4 gives.               *)
Filled(mem, base, m) == Put(mem, OffsetsV4(base, Lengths(m.mi.parts)), m.mi.parts, Parts)
WriteHead(mem, base, m) ==
  WriteItem(4, Filled(mem, base, m), base, m.mh, m.mi, KeyValues(m.layout), Range(Parts))

(* ApplyItemBuffer, which does not know of the layout to come, and             *)
(* CommitItemBuffer.                                                          *)
ApplyItem(base, m) ==
  With(OffsetsV4(base, Lengths(m.mi.parts)), LAMBDA off :
    IF off.next > SlotLength THEN -12 ELSE off.next)
CommitItem(m, base) ==
  /\ Use /\ writer = [ver |-> 4, fixed |-> TRUE] /\ ApplyItem(base, m) > 0
  /\ With(WriteHead(wire.mem, base, m), LAMBDA w :
       /\ wire' = [mem |-> w.mem, base |-> base, room |-> SlotLength]
       /\ sent' = [ver |-> 4, ret |-> w.ret, applied |-> ApplyItem(base, m),
                   published |-> w.ret > 0, m |-> m])
  /\ got' = Nothing
  /\ UNCHANGED <<writer, reader>>

(* LibViShmMediaItemApplyBuffer, WriteBuffer and CommitBuffer, and likewise    *)
(* LibShmMediaProtoWriteItemBuffer: the caller gives the length of the data,   *)
(* with that of a layout if there is one, and may commit what was refused.     *)
WriteBuffer(m, base) ==
  /\ Use /\ ~writer.fixed /\ writer.ver = 4
  /\ With(WriteHead(wire.mem, base, m), LAMBDA w :
       Sends(4, m, w, HeadRoom(4) + DataLength(4, m.mi) + Len(KeyValues(m.layout)), base, TRUE))

(* LibShmMediaItemGetWriteBufferLayout, for a caller that says how much room   *)
(* it has, and LibShmMediaItemWriteBuffer in the place of ApplyRawData; the    *)
(* caller may commit what was refused.  The layout is not counted here either. *)
LayoutWithin(base, m, room) ==
  With(OffsetsV4(base, Lengths(m.mi.parts)), LAMBDA off :
    IF off.next > room THEN 0 ELSE off.next)
FillItem(m, base) ==
  /\ Use /\ writer = [ver |-> 4, fixed |-> TRUE] /\ LayoutWithin(base, m, SlotLength) > 0
  /\ With(WriteHead(wire.mem, base, m), LAMBDA w :
       /\ wire' = [mem |-> w.mem, base |-> base, room |-> SlotLength]
       /\ sent' = [ver |-> 4, ret |-> w.ret, applied |-> LayoutWithin(base, m, SlotLength),
                   published |-> TRUE, m |-> m])
  /\ got' = Nothing
  /\ UNCHANGED <<writer, reader>>

(* A process that reads raw data and commits them, as they are, in a memory    *)
(* of the same kind: PollReadRawData, ApplyRawData, CommitRawData.  Of fixed   *)
(* items it is given the length that the item says, of variable ones the room  *)
(* of the item.                                                               *)
RawOfFixed == [len |-> BufferLen(wire.mem, writer.ver), room |-> SlotLength]
RawOfVariable == [len |-> wire.room, room |-> wire.room]
Relay(base) ==
  LET raw == IF writer.fixed THEN RawOfFixed ELSE RawOfVariable
  IN  /\ Use /\ sent.published /\ raw.len > 0 /\ raw.len <= raw.room
      /\ wire' = [mem  |-> Overlay(Times(Junk, raw.room), 0,
                                    SubSeq(wire.mem \o Times(Junk, raw.len), 1, raw.len)),
                  base |-> base, room |-> raw.room]
      /\ got' = Nothing
      /\ UNCHANGED <<writer, reader, sent>>

(* A peer of the first version 4: its head ends before src, and the byte of    *)
(* the version, a reserved one then, is 0.                                    *)
PeerWrites(m) ==
  /\ Use /\ writer = [ver |-> 4, fixed |-> TRUE] /\ DataLength(4, m.mi) > 0
  /\ ~VideoRefused(m.mh, m.mi) /\ ~AudioRefused(m.mh, m.mi)
  /\ LET off == Consecutive(Len(V40Fields), Lengths(m.mi.parts), Parts)
         rec == [length |-> off.next, head_len |-> Len(V40Fields), v_data_offset |-> off.at.video]
                  @@ AudioV4(off) @@ OtherV4(off, <<>>) @@ CommonHead(m.mi) @@ VideoHead(m.mh, m.mi)
                  @@ AudioHead(m.mh, m.mi) @@ OtherHead(m.mi)
     IN  /\ off.next <= SlotLength
         /\ Sends(40, m, [ret |-> off.next,
                          mem |-> Put(Lay(wire.mem, V40Fields, rec), off, m.mi.parts, Parts)],
                  SlotLength, 0, TRUE)

-----------------------------------------------------------------------------
(* A reader that was told of an item reads it, with a head structure that it   *)
(* has initialised before: a shorter one says afterwards that it is the        *)
(* longer.  channel: the structure has room for a channel object and the       *)
(* caller gave one.                                                           *)
Extracted(layout, area) ==
  With(ExtractLayout(area), LAMBDA x : IF x.ret > 0 THEN x.layout ELSE layout)

(* Only ReadItemData and LibShmMediaProtoReadItemBufferLayout can take the     *)
(* layout: the reads of variable items have a head structure of their own,     *)
(* without a channel object, and leave it to the caller in place of his.       *)
Read(call, channel) ==
  LET mem == wire.mem
      n == BufferLen(mem, writer.ver)
  IN  /\ Use /\ sent.published
      /\ call = "fixed" => writer.fixed
      /\ call \in {"variable", "search"} => ~writer.fixed /\ ~channel
      /\ UNCHANGED <<writer, wire, sent>>
      /\ \E data \in {ReadData(mem, n)} :
           IF data.ver = 0 \/ (call = "search" /\ n > wire.room)
           THEN /\ got' = [Nothing EXCEPT !.call = call, !.ret = IF data.ver = 0 THEN -22 ELSE -1]
                /\ UNCHANGED reader
           ELSE \E area \in {IF channel THEN KeyValueArea(mem, data.ver) ELSE <<>>} :
                  /\ reader' = IF area = <<>> THEN reader ELSE Extracted(reader, area)
                  /\ got' = [call |-> call, ret |-> data.item.len + Len(area),
                             channel |-> channel, head |-> data.head, item |-> data.item]

(* PollReadHead.                                                              *)
ReadHead ==
  LET mem == wire.mem
      ver == ItemVersion(mem, BufferLen(mem, writer.ver))
  IN  /\ Use /\ sent.published
      /\ got' = IF ver = 0 THEN [Nothing EXCEPT !.call = "head", !.ret = -1]
                ELSE [call |-> "head", ret |-> 1, head |-> HeadOf(mem, ver)]
      /\ UNCHANGED <<writer, wire, sent, reader>>

Next ==
  \/ \E m \in Messages, base \in Bases, copied \in SUBSET {"video"} :
       SendFixed(m, base, copied) \/ SendFixedV4(m, base, copied)
  \/ \E m \in Messages, base \in Bases :
       \/ SendVariable(m, base) \/ SendVariableV4(m, base)
       \/ CommitItem(m, base) \/ FillItem(m, base) \/ WriteBuffer(m, base)
  \/ \E base \in Bases : Relay(base)
  \/ \E m \in Messages : PeerWrites(m)
  \/ \E call \in {"fixed", "variable", "search", "proto"}, channel \in BOOLEAN : Read(call, channel)
  \/ ReadHead
Spec == Init /\ [][Next]_vars

-----------------------------------------------------------------------------
(* What was sent, as far as an item of its version has it.                    *)
Carries(ver, f) == IF ver = 40 THEN f \in Range(V40Fields) ELSE f \in Range(Fields[ver])
BelongsTo(f) ==
  CASE f \in {"vpts", "frametype", "dst", "vfourcc", "duration", "scale", "src"} -> "video"
    [] f \in {"apts", "afourcc", "channels", "depth", "samplerate"} -> "audio"
    [] f = "spts" -> "subt"
    [] OTHER -> "item"
Present(f) == BelongsTo(f) = "item" \/ sent.m.mi.parts[BelongsTo(f)] # <<>>
Sent(rec, fields) ==
  [f \in fields |-> IF Carries(sent.ver, f) /\ Present(f) THEN Positive(rec[f]) ELSE 0]
PartsSent ==
  [p \in Range(Parts) |->
     IF p \in Range(PartsOf(sent.ver)) THEN sent.m.mi.parts[p] ELSE <<>>]

LayoutIsSet == sent.ver = 4 /\ sent.m.layout # <<>> => reader = sent.m.layout

(* Whatever items the slot held before, an item that was sent lies within the  *)
(* room given to it, and every reader finds its head, its parts and its times  *)
(* as they were sent, with what was in place before the send; one that was     *)
(* refused is found by none, also where it is published.  The room is left out *)
(* where the caller was told a length: AppliedIsReal.                          *)
SentIsFound ==
  /\ sent.applied = 0 => sent.ret <= wire.room
  /\ got.call # "none" =>
       IF sent.ret <= 0 THEN got.ret < 0
       ELSE /\ got.ret >= 0
            /\ got.head = Sent(sent.m.mh, HeadFields)
            /\ got.call # "head" =>
                 /\ got.item.parts = PartsSent
                 /\ got.item.times = Sent(sent.m.mi.times, TimeFields)
            /\ got.call # "head" /\ got.channel => LayoutIsSet

(* libshm_media_raw_data_opt.h:117, of what LibShmMediaItemApplyBuffer answers: *)
(* "the real writing total length".  What is committed then is no longer.      *)
AppliedIsReal == sent.applied > 0 => sent.ret <= sent.applied
=============================================================================
