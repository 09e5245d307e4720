------------------------------ MODULE Subtitle ------------------------------
(* Subtitle entries in one binary, and the shift of their time stamps in      *)
(* place                                                                      *)
(* (libshm_media_subtitle_private_protocol_internal.cpp).                     *)
(*   wire  the caller's buffer,                                               *)
(*   sent  the entries written to it; how: "same", or "later" as a later      *)
(*         version extends its head; whether it was cut; the sum of the        *)
(*         offsets its time stamps were tuned by, and whether a tuning failed, *)
(*   got   what the last call answered.                                       *)
(* The functions keep nothing between calls: writer and reader stay New.      *)
EXTENDS BufferCtrl

CONSTANTS Entries,    \* sequences of entries that are written
          Offsets,    \* offsets of time
          Uses

VARIABLES writer, reader, wire, sent, got, uses
vars == <<writer, reader, wire, sent, got, uses>>

Nothing == [call |-> "none", ret |-> -1, entries |-> <<>>]
Unsent == [entries |-> <<>>, way |-> "same", shift |-> 0, failed |-> FALSE]
Init ==
  /\ writer = New /\ reader = New
  /\ wire = <<>> /\ sent = Unsent /\ got = Nothing /\ uses = 0

Use == uses < Uses /\ uses' = uses + 1

InfoSize == 26         \* sizeof(libshmmedia_subtitle_data_info_v1_t)
HeadSize == 6
MaxCounts == 8         \* LIBSHMMEDIA_SUBTITLE_MAX_ENTRY_COUNTS

-----------------------------------------------------------------------------
PreEstimateBufferSize(es) ==
  HeadSize + Len(es) * InfoSize + FoldLeft(LAMBDA n, e : n + Len(e.data), 0, es)

Le(n, width) == Reverse(Digits(n, width))

(* Where the data of entry i begins.                                          *)
DataOffset(es, i, gap) ==
  HeadSize + gap + Len(es) * InfoSize
    + FoldLeft(LAMBDA n, e : n + Len(e.data), 0, SubSeq(es, 1, i - 1))

Info(es, i, gap) ==
  Le(InfoSize, 2) \o Le(DataOffset(es, i, gap), 4) \o Le(Len(es[i].data), 4)
    \o Reverse(es[i].type) \o Reverse(es[i].timestamp) \o Reverse(es[i].duration)

(* A later version has `gap` more bytes in its head.                          *)
Message(es, gap) ==
  <<1, Len(es)>> \o Le(0, 2) \o Le(HeadSize + gap, 2) \o Times(7, gap)
    \o FlattenSeq([i \in DOMAIN es |-> Info(es, i, gap)])
    \o FlattenSeq([i \in DOMAIN es |-> es[i].data])

(* WriteBufferSize: into a buffer of its own, then to the caller's.           *)
Write(es, size) ==
  LET w  == PushData(New, Message(es, 0))
      ok == size >= PreEstimateBufferSize(es) /\ w.ok
               /\ w.b.cur = PreEstimateBufferSize(es)
  IN
  /\ Use
  /\ wire' = IF ok THEN w.b.mem ELSE <<>>
  /\ sent' = IF ok THEN [Unsent EXCEPT !.entries = es] ELSE Unsent
  /\ got' = [Nothing EXCEPT !.call = "write", !.ret = IF ok THEN w.b.cur ELSE -1]
  /\ UNCHANGED <<writer, reader>>

PeerWrites(es) ==
  /\ Use
  /\ wire' = Message(es, 3)
  /\ sent' = [Unsent EXCEPT !.entries = es, !.way = "later"]
  /\ got' = Nothing
  /\ UNCHANGED <<writer, reader>>

Cut(n) ==
  /\ n < Len(wire) /\ sent.way = "same" /\ sent.shift = 0
  /\ wire' = SubSeq(wire, 1, n)
  /\ sent' = [sent EXCEPT !.way = "cut"]
  /\ got' = Nothing
  /\ UNCHANGED <<writer, reader, uses>>

-----------------------------------------------------------------------------
EntryFields == <<<<"size", 2>>, <<"at", 4>>, <<"len", 4>>, <<"type", 4>>, <<"timestamp", 8>>,
                 <<"duration", 4>>>>
ReadFields(b) ==
  FoldLeft(LAMBDA r, f : With(RLe(r.b, f[2]), LAMBDA x :
             [b |-> x.b, e |-> (f[1] :> [v |-> x.v, pos |-> r.b.cur]) @@ r.e]),
           [b |-> b, e |-> <<>>], EntryFields)

(* An entry keeps the place of its time stamp.                                *)
EntryOf(e) ==
  [size |-> Number(e.size.v), at |-> Number(e.at.v), len |-> Number(e.len.v), type |-> e.type.v,
   timestamp |-> e.timestamp.v, timePos |-> e.timestamp.pos, duration |-> e.duration.v]

(* The data must follow the information and the data before.                  *)
AddEntry(r, b, e, first) ==
  IF e.size < InfoSize \/ e.at < first \/ e.at < r.end THEN [r EXCEPT !.ok = FALSE]
  ELSE [ok |-> TRUE, b |-> b, end |-> e.at + e.len, entries |-> Append(r.entries, e)]

ParseEntries(b, count, first) ==
  FoldLeft(LAMBDA r, i :
             IF ~r.ok THEN r
             ELSE With(ReadFields(r.b), LAMBDA x : AddEntry(r, x.b, EntryOf(x.e), first)),
           [ok |-> TRUE, b |-> b, end |-> 0, entries |-> <<>>], [i \in 1..count |-> i])

(* The table is expected right after this version's head: mutant of TableAt.   *)
TableInPlace(b, offset) == b

TableAt(b, offset) == Seek(b, offset)

(* _parseV1 answers [ok, entries]: each with the position of its time stamp,  *)
(* and its data as a place of the caller's buffer.  Every information but its  *)
(* size must not be shorter than this version's; the end of the data is not    *)
(* compared with the buffer's.                                                *)
ParseV1(b0) ==
  With(R8(b0), LAMBDA counts :
    With(RLe(RLe(counts.b, 2).b, 2), LAMBDA offset :
      IF counts.v > MaxCounts THEN [ok |-> FALSE, entries |-> <<>>]
      ELSE ParseEntries(TableAt(offset.b, Number(offset.v)), counts.v,
                        Number(offset.v) + counts.v * InfoSize)))

ParseBuffer(s) ==
  With(PushData(New, s), LAMBDA in :
    With(R8(Seek(in.b, 0)), LAMBDA version :
      IF in.ok /\ version.v = 1 THEN ParseV1(version.b) ELSE [ok |-> FALSE, entries |-> <<>>]))

Parse ==
  LET r == ParseBuffer(wire) IN
  /\ Use /\ wire # <<>>
  /\ got' = [call |-> "parse", ret |-> IF r.ok THEN 0 ELSE -1,
             entries |-> IF r.ok THEN r.entries ELSE <<>>]
  /\ UNCHANGED <<writer, reader, wire, sent>>

(* n added to a number of so many bytes, modulo its width.                    *)
AddTo(s, n) ==
  LET carry[i \in 0..Len(s)] ==
        IF i = Len(s) THEN n ELSE (s[i + 1] + carry[i + 1]) \div 256
  IN  [i \in DOMAIN s |-> (s[i] + carry[i]) % 256]

(* An entry that lies outside is passed over: mutant of Tuned.                *)
TunedInPart(s, entries, n) ==
  FoldLeft(LAMBDA r, e :
             IF e.timePos + 8 > Len(r.s) THEN r
             ELSE [r EXCEPT !.s = Overlay(@, e.timePos, Reverse(AddTo(e.timestamp, n)))],
           [ok |-> TRUE, s |-> s], entries)

(* The time stamps are changed one by one, until one lies outside.            *)
Tuned(s, entries, n) ==
  FoldLeft(LAMBDA r, e :
             IF ~r.ok \/ e.timePos + 8 > Len(r.s) THEN [r EXCEPT !.ok = FALSE]
             ELSE [r EXCEPT !.s = Overlay(@, e.timePos, Reverse(AddTo(e.timestamp, n)))],
           [ok |-> TRUE, s |-> s], entries)

TuneTimestampOffSet(n) ==
  LET p == ParseBuffer(wire)
      t == Tuned(wire, p.entries, n)
  IN
  /\ Use /\ wire # <<>>
  /\ wire' = IF p.ok THEN t.s ELSE wire
  /\ sent' = IF p.ok /\ t.ok THEN [sent EXCEPT !.shift = @ + n]
             ELSE [sent EXCEPT !.failed = TRUE]
  /\ got' = [Nothing EXCEPT !.call = "tune", !.ret = IF p.ok /\ t.ok THEN 0 ELSE -1]
  /\ UNCHANGED <<writer, reader>>

Next == \/ \E es \in Entries : \/ \E d \in {-1, 0} : Write(es, PreEstimateBufferSize(es) + d)
                               \/ PeerWrites(es)
        \/ \E n \in 1..Len(wire) : Cut(n)
        \/ Parse
        \/ \E n \in Offsets : TuneTimestampOffSet(n)
Spec == Init /\ [][Next]_vars

-----------------------------------------------------------------------------
Shifted(e) == [e EXCEPT !.timestamp = AddTo(@, sent.shift)]
Seen(e) == [type |-> e.type, timestamp |-> e.timestamp, duration |-> e.duration,
            data |-> SubSeq(wire, e.at + 1, e.at + e.len)]

(* Whatever it was tuned by, also a message with a longer head is read as the  *)
(* entries written, each shifted by the sum of the offsets, data untouched.    *)
EntriesAreRead ==
  got.call = "parse" /\ sent.way # "cut"
    => got.ret = 0 /\ [i \in DOMAIN got.entries |-> Seen(got.entries[i])]
                        = [i \in DOMAIN sent.entries |-> Shifted(sent.entries[i])]

(* A message of which only the version arrived reads as one of no entries; one *)
(* that lacks a part of its information is never tuned with success; one that  *)
(* lacks only data is, and every entry of it is shifted.                       *)
TuningIsWhole ==
  LET table == HeadSize + Len(sent.entries) * InfoSize IN
  sent.way = "cut" /\ sent.entries # <<>> =>
    IF Len(wire) < table - 4 THEN Len(wire) = 1 \/ sent.shift = 0
    ELSE /\ ~sent.failed
         /\ \A i \in DOMAIN sent.entries :
              LET at == HeadSize + (i - 1) * InfoSize + 14 IN
              SubSeq(wire, at + 1, at + 8)
                = Reverse(AddTo(sent.entries[i].timestamp, sent.shift))
=============================================================================
