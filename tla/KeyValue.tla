------------------------------ MODULE KeyValue ------------------------------
(* The callers of key-value parameters: one sets, clears and appends them, the *)
(* other extracts them, all of them or a beginning.                           *)
(* writer, reader  a handle each: its map of parameters and its buffer,       *)
(* sent            the values the caller set last, at the time of the append,  *)
(*                 or the layout that went into a media head,                  *)
(* wire            the bytes appended,    got  what an extraction answered.    *)
EXTENDS KeyValueMap

CONSTANTS Keys, Values, Layouts,   \* what callers set
          Uses                     \* bound of the calls

VARIABLES writer, reader, wire, sent, got, uses
vars == <<writer, reader, wire, sent, got, uses>>

-----------------------------------------------------------------------------
Handle == [map |-> <<>>, asked |-> <<>>, b |-> New]
Nothing == [ret |-> 0, map |-> <<>>, layout |-> <<>>, at |-> 0, fed |-> 0]
Unsent == [map |-> <<>>, layout |-> <<>>]
Init ==
  /\ writer = Handle /\ reader = Handle
  /\ wire = <<>> /\ sent = Unsent /\ got = Nothing /\ uses = 0

Use == uses < Uses /\ uses' = uses + 1

(* A setter of KeyValParam.                                                   *)
SetParam(k, value) ==
  /\ Use
  /\ LET old == IF k \in DOMAIN writer.map THEN writer.map[k] ELSE Null IN
     writer' = [writer EXCEPT
       !.map = (k :> IF value.type = "Bytes" THEN SetAsBytes(old, value.v)
                     ELSE SetValue(value)) @@ @,
       !.asked = (k :> value) @@ @]
  /\ UNCHANGED <<reader, wire, sent, got>>

Clear ==
  /\ Use /\ writer.map # <<>>
  /\ writer' = [writer EXCEPT !.map = <<>>, !.asked = <<>>]
  /\ UNCHANGED <<reader, wire, sent, got>>

(* The caller may append to a buffer that already holds something.            *)
Append2Buffer ==
  LET r == AppendToBuffer(writer.b, writer.map) IN
  /\ Use
  /\ writer' = [writer EXCEPT !.b = r.b]
  /\ wire' = IF r.ok THEN SubSeq(r.b.mem, writer.b.cur + 1, r.b.cur) ELSE <<>>
  /\ sent' = [Unsent EXCEPT !.map = IF r.ok THEN writer.asked ELSE <<>>]
  /\ got' = Nothing
  /\ UNCHANGED reader

(* The reader is given the first n bytes.                                     *)
Extract(n) ==
  LET r == ExtractFromBuffer(Attached(SubSeq(wire, 1, n)), reader.map) IN
  /\ Use
  /\ sent.layout = <<>>
  /\ reader' = [reader EXCEPT !.map = r.map, !.b = r.b]
  /\ got' = [Nothing EXCEPT !.ret = r.ret, !.map = r.map, !.at = r.b.cur, !.fed = n]
  /\ UNCHANGED <<writer, wire, sent>>

(* A layout goes into the media head, and comes out of it.                    *)
SetMediaHead(layout) ==
  LET r == AppendLayout(New, layout) IN
  /\ Use
  /\ wire' = IF r.ok THEN SubSeq(r.b.mem, 1, r.b.cur) ELSE <<>>
  /\ sent' = [Unsent EXCEPT !.layout = IF r.ok THEN layout ELSE <<>>]
  /\ got' = Nothing
  /\ UNCHANGED <<writer, reader>>

GetMediaHead(n) ==
  LET r == ExtractLayout(SubSeq(wire, 1, n)) IN
  /\ Use
  /\ sent.layout # <<>>
  /\ got' = [Nothing EXCEPT !.ret = r.ret, !.layout = r.layout, !.fed = n]
  /\ UNCHANGED <<writer, reader, wire, sent>>

Next == \/ \E k \in Keys, v \in Values : SetParam(k, v)
        \/ Clear
        \/ Append2Buffer
        \/ \E s \in Layouts : SetMediaHead(s)
        \/ \E n \in 1..Len(wire) : Extract(n) \/ GetMediaHead(n)
Spec == Init /\ [][Next]_vars

-----------------------------------------------------------------------------
(* What the wire does not say: the fraction of a floating value, and that no  *)
(* bytes were set over bytes.                                                 *)
Lossy(value) ==
  value.type \in {"Float", "Double"} \/ value = [type |-> "Bytes", v |-> <<>>]

(* A reader that was given everything has, key by key, the values the caller  *)
(* set last, but for the lossy ones.                                          *)
LastSetIsRead ==
  got.fed > 0 /\ got.fed = Len(wire) /\ sent.layout = <<>>
    => /\ got.ret = Len(wire) /\ got.at = Len(wire)
       /\ DOMAIN got.map = DOMAIN sent.map
       /\ \A k \in DOMAIN sent.map : Lossy(sent.map[k]) \/ got.map[k] = sent.map[k]

(* The last value is a 128-bit one, of which any byte will do.                *)
EndsShort == \E k \in DOMAIN sent.map :
  sent.map[k].type = "Uint128" /\ \A j \in DOMAIN sent.map : j <= k

(* A reader that was given only the beginning is told that more is expected,  *)
(* and stands where it stood.                                                 *)
MoreIsExpected ==
  got.fed > 0 /\ got.fed < Len(wire) /\ ~EndsShort => got.ret = 0 /\ got.at = 0

(* A channel layout comes out of a whole media head as it went in, and out of *)
(* a part of one not at all.                                                  *)
LayoutIsCarried ==
  got.fed > 0 /\ sent.layout # <<>>
    => IF got.fed = Len(wire) THEN got.ret = Len(sent.layout) /\ got.layout = sent.layout
       ELSE got.ret <= 0 /\ got.layout = <<>>

(* Every value of each width is decoded from what it is encoded to, in as     *)
(* many bytes as were counted for it.                                         *)
CompactRoundTrip ==
  uses = 0 =>
    \A bits \in {WordBits, LongBits} : \A n \in 0..2^bits - 1 :
      LET e == EncodeCompact(New, n, bits)
          d == DecodeCompact(Attached(Bytes(e)), bits)
      IN  d.ret = BytesCount(n, bits) /\ d.v = n /\ d.b.cur = e.b.cur
=============================================================================
