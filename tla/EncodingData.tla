---------------------------- MODULE EncodingData ----------------------------
(* Encoded frames (libshmmedia/src/libshmmedia_encoding_protocol.cpp): a head  *)
(* in the order of the host, and the data.  There is one version of it; a      *)
(* later one may put more before the data.                                     *)
(*   wire    the bytes in the buffer of a caller who writes one after another, *)
(*   reader  the structure its reader passes again and again,                  *)
(*   sent    the frame, whether a part is missing,   got  what a read returned. *)
(* writer is not used.                                                         *)
EXTENDS BufferCtrl

CONSTANTS Frames,    \* [fields |-> the bytes of the fields in order, data |-> bytes]
          Uses

VARIABLES writer, reader, wire, sent, got, uses
vars == <<writer, reader, wire, sent, got, uses>>

Nothing == [read |-> FALSE, ret |-> -1, data |-> <<>>]
Unsent == [fields |-> <<>>, data |-> <<>>]
Init ==
  /\ writer = 0 /\ reader = <<>> /\ wire = <<>>
  /\ sent = [frame |-> Unsent, short |-> FALSE] /\ got = Nothing /\ uses = 0

Use == uses < Uses /\ uses' = uses + 1

(* Codec tag, stream index, frame index, the two time stamps: 26 bytes.       *)
FieldsSize == 26
HeadSize == 1 + FieldsSize + 10
Le(n) == Reverse(Digits(n, 4))

Message(frame, gap) ==
  <<1>> \o frame.fields \o <<0, 0>> \o Le(Len(frame.data)) \o Le(HeadSize + gap)
    \o Times(7, gap) \o frame.data

(* LibShmmediaEncodingDataWrite, over what the buffer held.                   *)
Write(frame, size) ==
  /\ Use
  /\ IF size < HeadSize + Len(frame.data)
     THEN UNCHANGED <<wire, sent>> /\ got' = Nothing
     ELSE /\ wire' = SubSeq(Overlay(wire, 0, Message(frame, 0)), 1, HeadSize + Len(frame.data))
          /\ sent' = [frame |-> frame, short |-> FALSE]
          /\ got' = Nothing
  /\ UNCHANGED <<writer, reader>>

PeerWrites(frame, gap, short) ==
  /\ Use
  /\ wire' = SubSeq(Message(frame, gap), 1, HeadSize + gap + Len(frame.data) - short)
  /\ sent' = [frame |-> frame, short |-> short > 0]
  /\ got' = Nothing
  /\ UNCHANGED <<writer, reader>>

At(s, from, width) == BytesAt([mem |-> s], from, width)

(* The data are expected right after this version's head: mutant of DataOf.    *)
DataInPlace(s) ==
  LET len == Number(Reverse(At(s, 3 + FieldsSize, 4)))
      ok  == HeadSize + len <= Len(s)
  IN  [ret |-> IF ok THEN HeadSize + len ELSE -1, data |-> IF ok THEN At(s, HeadSize, len) ELSE <<>>]

DataOf(s) ==
  LET len == Number(Reverse(At(s, 3 + FieldsSize, 4)))
      off == Number(Reverse(At(s, 7 + FieldsSize, 4)))
      ok  == off >= HeadSize /\ off + len <= Len(s)
  IN  [ret |-> IF ok THEN off + len ELSE -1, data |-> IF ok THEN At(s, off, len) ELSE <<>>]

(* LibShmmediaEncodingDataRead: what is refused has changed the fields.       *)
Read ==
  LET d == DataOf(wire) IN
  /\ Use /\ wire # <<>>
  /\ reader' = At(wire, 1, FieldsSize)
  /\ got' = [read |-> TRUE, ret |-> d.ret, data |-> d.data]
  /\ UNCHANGED <<writer, wire, sent>>

Next == \/ \E frame \in Frames : \/ \E d \in {-1, 0, 3} : Write(frame, HeadSize + Len(frame.data) + d)
                                 \/ \E gap \in {0, 4}, short \in {0, 1, 13, 40} :
                                      short < HeadSize + Len(frame.data) /\ PeerWrites(frame, gap, short)
        \/ Read
Spec == Init /\ [][Next]_vars

-----------------------------------------------------------------------------
(* What is read of a whole frame, of this version or of a later one, into a     *)
(* structure that held another, are its fields and its data; of a frame that    *)
(* lacks any of its bytes, nothing.                                            *)
FrameIsRead ==
  got.read => IF sent.short THEN got.ret < 0
              ELSE /\ got.ret = Len(wire)
                   /\ reader = sent.frame.fields /\ got.data = sent.frame.data
=============================================================================
