----------------------------- MODULE BinConcat -----------------------------
(* Segments of bytes concatenated in one binary and split again               *)
(* (libshmmediaProto/src/libshm_media_bin_concat_protocol.cpp).               *)
(* writer, reader  a BinConcatProto each: its buffer b, the offsets and       *)
(*   lengths info, their number count; and what its caller knows: the         *)
(*   segments taken, whether one was refused, whether it was reset since its   *)
(*   last split (fresh), whether the assertion on count stopped it (dead),     *)
(* wire  the flushed binary or its beginning,   sent  the segments in it,      *)
(* got   what the last split answered.                                        *)
EXTENDS CompactInteger

CONSTANTS Segments, Uses

VARIABLES writer, reader, wire, sent, got, uses
vars == <<writer, reader, wire, sent, got, uses>>

Handle == [b |-> New, info |-> <<>>, count |-> 0,
           taken |-> <<>>, refused |-> FALSE, fresh |-> TRUE, dead |-> FALSE]
Nothing == [ok |-> FALSE, segs |-> <<>>, fresh |-> FALSE]
Init ==
  /\ writer = Handle /\ reader = Handle
  /\ wire = <<>> /\ sent = [segs |-> <<>>, refused |-> FALSE, cut |-> FALSE]
  /\ got = Nothing /\ uses = 0

Use == uses < Uses /\ uses' = uses + 1

(* The segment without its length: mutant of Concat.                          *)
ConcatBare(h, s) ==
  LET w == PushData(h.b, s) IN
  IF s = <<>> \/ ~w.ok THEN [ok |-> FALSE, h |-> h]
  ELSE [ok |-> TRUE, h |-> [h EXCEPT !.b = w.b, !.count = @ + 1,
                              !.info = Append(@, [off |-> h.b.cur, len |-> Len(s)])]]

(* ConcatSegment.  The length may go in and the segment not.                  *)
Concat(h, s) ==
  IF s = <<>> THEN [ok |-> FALSE, h |-> h]
  ELSE With(EncodeCompact(h.b, Len(s), WordBits), LAMBDA n :
    With(Then(n, LAMBDA b : PushData(b, s)), LAMBDA w :
      IF ~w.ok THEN [ok |-> FALSE, h |-> [h EXCEPT !.b = w.b]]
      ELSE [ok |-> TRUE, h |-> [h EXCEPT !.b = w.b, !.count = @ + 1,
                                  !.info = Append(@, [off |-> n.b.cur, len |-> Len(s)])]]))

ConcatSegment(s) ==
  LET r == Concat(writer, s) IN
  /\ Use
  /\ writer' = IF r.ok THEN [r.h EXCEPT !.taken = Append(@, s)]
               ELSE [r.h EXCEPT !.refused = TRUE]
  /\ UNCHANGED <<reader, wire, sent, got>>

(* FlushSegInfo: the segments, as the table of offsets places them in the     *)
(* buffer.                                                                    *)
FlushSegInfo(h) ==
  [i \in 1..h.count |-> BytesAt(h.b, h.info[i].off, h.info[i].len)]

FlushBinary ==
  /\ Use
  /\ writer.count = Len(writer.info)
  /\ wire' = Bytes(writer)
  /\ sent' = [segs |-> writer.taken, refused |-> writer.refused, cut |-> FALSE]
  /\ got' = Nothing
  /\ UNCHANGED <<writer, reader>>

(* Only a beginning of the binary reaches the reader.                         *)
Cut(n) ==
  /\ n < Len(wire) /\ ~sent.cut
  /\ wire' = SubSeq(wire, 1, n)
  /\ sent' = [sent EXCEPT !.cut = TRUE]
  /\ got' = Nothing
  /\ UNCHANGED <<writer, reader, uses>>

(* n: the length that was read, left: what there was before it.              *)
SplitSegment(r, n, left) ==
  IF n.ret <= 0 \/ n.v > left THEN [r EXCEPT !.ok = FALSE, !.end = TRUE, !.h.b = n.b]
  ELSE [r EXCEPT !.n = @ + 1, !.h.b = ReadSkip(n.b, n.v),
                 !.h.info = Append(@, [off |-> n.b.cur, len |-> n.v])]

SplitSegments(h, in) ==
  LET step(r, i) ==
        IF r.end \/ LeftLen(r.h.b) = 0 THEN [r EXCEPT !.end = TRUE]
        ELSE SplitSegment(r, DecodeCompact(r.h.b, WordBits), LeftLen(r.h.b))
  IN  FoldLeft(step, [ok |-> in.ok, end |-> ~in.ok, n |-> 0, h |-> [h EXCEPT !.b = in.b]],
               [i \in 1..Len(in.b.mem) |-> i])

(* SplitBinary.  The position of an attached buffer is the one the handle     *)
(* had, the table goes on where the last split left it, and what is left is   *)
(* measured before the length is read.                                        *)
Split(h, s, create) ==
  With(SplitSegments(h, IF create THEN Then(PushData(h.b, s), LAMBDA p : [ok |-> TRUE, b |-> Seek(p, 0)])
                        ELSE [ok |-> TRUE, b |-> AttachExternal(h.b, s)]),
       LAMBDA end : [ok |-> end.ok, h |-> IF end.ok THEN [end.h EXCEPT !.count = end.n] ELSE end.h])

(* FlushSegInfo asserts that the count is the length of the table.            *)
SplitBinary(create) ==
  \E r \in {Split(reader, wire, create)} : \E dead \in {r.ok /\ r.h.count # Len(r.h.info)} :
    /\ Use
    /\ wire # <<>> /\ ~reader.dead
    /\ reader' = [r.h EXCEPT !.fresh = FALSE, !.dead = dead]
    /\ got' = IF r.ok /\ ~dead
              THEN [ok |-> TRUE, segs |-> FlushSegInfo(r.h), fresh |-> reader.fresh]
              ELSE [Nothing EXCEPT !.fresh = reader.fresh]
    /\ UNCHANGED <<writer, wire, sent>>

(* LibshmmediaBinConcatProtoReset of each handle.                             *)
ResetWriter ==
  /\ Use /\ writer # Handle
  /\ writer' = [Handle EXCEPT !.b = Release(writer.b)]
  /\ UNCHANGED <<reader, wire, sent, got>>

ResetReader ==
  /\ Use /\ ~reader.dead /\ reader # Handle
  /\ reader' = [Handle EXCEPT !.b = Release(reader.b)]
  /\ got' = Nothing
  /\ UNCHANGED <<writer, wire, sent>>

Next == \/ \E s \in Segments : ConcatSegment(s)
        \/ FlushBinary
        \/ \E n \in 1..Len(wire) : Cut(n)
        \/ \E create \in BOOLEAN : SplitBinary(create)
        \/ ResetWriter \/ ResetReader
Spec == Init /\ [][Next]_vars

-----------------------------------------------------------------------------
(* What a fresh handle splits are the segments its peer concatenated, in      *)
(* order, provided none was refused on the way and there is memory for a copy. *)
SegmentsAreCarried ==
  got.fresh /\ ~sent.cut /\ ~sent.refused
    => (got.ok /\ got.segs = sent.segs) \/ IsNull(reader.b)

(* The segments a fresh handle finds in a beginning of a binary are segments   *)
(* of the whole, and reach beyond the part it was given by no more than the    *)
(* length of the last of them takes.                                           *)
ShortIsNoticed ==
  got.fresh /\ sent.cut /\ got.ok =>
    LET n == Len(got.segs)
        last == BytesCount(Len(got.segs[n]), WordBits)
        end == reader.info[n].off + reader.info[n].len
    IN  n <= Len(sent.segs) /\ end <= Len(wire) + last
        /\ \A i \in 1..n - 1 : got.segs[i] = sent.segs[i]
=============================================================================
