------------------------------ MODULE ExtData ------------------------------
(* The extended data of an item                                               *)
(* (libshmmediaProto/src/libshm_media_extension_protocol.cpp): a table of      *)
(* typed entries, the last of them key-value parameters.                      *)
(*   writer  the bytes of the caller's buffer, written again and again,        *)
(*   wire    what is handed to the reader,                                     *)
(*   sent    the information written, its user data type, the room it had,     *)
(*           whether the reader gets only a part,                              *)
(*   reader  the context of the reads: its copy of the data, the entries       *)
(*           found, m_bEntryNotDone,                                           *)
(*   got     what the last read returned, and the caller's information: places *)
(*           in the copy or in the user data.                                  *)
EXTENDS KeyValueMap

CONSTANTS Infos, Uses

VARIABLES writer, reader, wire, sent, got, uses
vars == <<writer, reader, wire, sent, got, uses>>

Context == [mem |-> <<>>, entries |-> <<>>, notDone |-> FALSE]
Empty == [fields |-> <<>>, params |-> <<>>]
Nothing == [read |-> FALSE, ret |-> -1, info |-> Empty, at |-> "none"]
Unsent == [info |-> Empty, kind |-> "none", size |-> 0, cut |-> FALSE]
Init ==
  /\ writer = <<>> /\ reader = Context
  /\ wire = <<>> /\ sent = Unsent /\ got = Nothing /\ uses = 0

Use == uses < Uses /\ uses' = uses + 1

(* The fields in the order they are written, and the type of each; the type   *)
(* of a subtitle is the caller's.  An information is the bytes of the fields   *)
(* that are there, and its parameters.                                        *)
Fields == <<"uuid_data", "cc608_cdp", "caption_text", "producer_stream_info",
            "receiver_info", "scte104_data", "scte35_data", "timecode_index",
            "start_timecode", "hdr_metadata", "timecode_fps_index", "pic_struct",
            "source_timestamp", "timecode", "metaDataPts", "source_timebase",
            "smpte_afd_data", "source_action_timestamp", "vanc_smpte2038", "gop_poc",
            "smpte336m", "subtitle">>
TypeNumbers == <<1, 2, 3, 4, 5, 6, 10, 7, 8, 9, 11, 12, 13, 14, 15, 16, 17, 18, 19, 20,
                 22, 65541>>
TypeKeyValue == 23

Le(n, width) == Reverse(Digits(n, width))
LeNumber(s, at, width) == Number(Reverse(BytesAt([mem |-> s], at, width)))

-----------------------------------------------------------------------------
(* createKeyValue: nothing where no parameter is set.                         *)
KeyValueBytes(params) == IF params = <<>> THEN <<>> ELSE Bytes(AppendToBuffer(New, params))

FieldEntries(info) ==
  LET present == SelectSeq([i \in DOMAIN Fields |-> i], LAMBDA i : Fields[i] \in DOMAIN info.fields)
  IN  [i \in DOMAIN present |->
         [type |-> TypeNumbers[present[i]], data |-> info.fields[Fields[present[i]]]]]

EntriesOf(info) ==
  FieldEntries(info) \o
    (IF info.params = <<>> THEN <<>>
     ELSE <<[type |-> TypeKeyValue, data |-> KeyValueBytes(info.params)]>>)

EntryHead == 8
ExtHead == 16
Tag == <<101, 109, 104, 115>>
SizeOf(entries) == FoldLeft(LAMBDA n, e : n + EntryHead + Len(e.data), 0, entries)

(* LibShmMediaEstimateExtendDataSize counts every field but smpte336m.        *)
EstimateExtendDataSize(info) ==
  LET counted == [info EXCEPT !.fields = [f \in DOMAIN info.fields \ {"smpte336m"} |-> info.fields[f]]]
      n == SizeOf(FieldEntries(counted))
             + (IF info.params = <<>> THEN 0 ELSE EntryHead + BytesNeeded(info.params))
  IN  IF n > 0 THEN n + ExtHead ELSE 0

(* The head counts the entry although it is left out: mutant of               *)
(* AddEntryToBuff.                                                            *)
AddEntryAlways(h, size, e) ==
  LET off == IF h.counts = 0 \/ h.off = 0 THEN ExtHead ELSE h.off
      end == off + EntryHead + Len(e.data)
      head == Le(1, 4) \o Tag \o Le(end, 4) \o Le(h.counts + 1, 4)
  IN  [counts |-> h.counts + 1, off |-> end,
       dst |-> IF end > size THEN Overlay(h.dst, 0, head)
               ELSE Overlay(Overlay(h.dst, 0, head), off,
                            Le(e.type, 4) \o Le(Len(e.data), 4) \o e.data)]

(* addEntryToBuff: an entry that does not fit is left out; the place of the    *)
(* first one is taken either way.                                             *)
AddEntryToBuff(h, size, e) ==
  LET off == IF h.counts = 0 \/ h.off = 0 THEN ExtHead ELSE h.off
      end == off + EntryHead + Len(e.data)
      head == Le(1, 4) \o Tag \o Le(end, 4) \o Le(h.counts + 1, 4)
  IN  IF end > size THEN [h EXCEPT !.off = off]
      ELSE [counts |-> h.counts + 1, off |-> end,
            dst |-> Overlay(Overlay(h.dst, 0, head), off,
                            Le(e.type, 4) \o Le(Len(e.data), 4) \o e.data)]

(* libShmWriteExtendData, over what the buffer held before.                   *)
WriteExtendData(info, size) ==
  LET h == FoldLeft(LAMBDA r, e : AddEntryToBuff(r, size, e),
                    [counts |-> 0, off |-> 0, dst |-> writer], EntriesOf(info))
  IN
  /\ Use
  /\ writer' = h.dst
  /\ wire' = BytesAt([mem |-> h.dst], 0, h.off)
  /\ sent' = [info |-> info, kind |-> "V2", size |-> size, cut |-> FALSE]
  /\ got' = Nothing
  /\ UNCHANGED reader

(* What versions before wrote: a flag and a length for each of six fields, or  *)
(* the bytes of the identifier alone.                                         *)
V1Fields == SubSeq(Fields, 1, 6)
V1Message(info) ==
  LET present == SelectSeq(V1Fields, LAMBDA f : f \in DOMAIN info.fields)
      flag == FoldLeft(LAMBDA n, f : n + 2^(SelectInSeq(V1Fields, LAMBDA g : g = f) - 1), 0, present)
  IN  Le(flag, 4) \o FlattenSeq([i \in DOMAIN present |->
        Le(Len(info.fields[present[i]]), 4) \o info.fields[present[i]]])

OlderPeerWrites(info, kind) ==
  /\ Use
  /\ DOMAIN info.fields \subseteq (IF kind = "V1" THEN ToSet(V1Fields) ELSE {"uuid_data"})
  /\ info.params = <<>> /\ info.fields # <<>>
  /\ wire' = IF kind = "V1" THEN V1Message(info) ELSE info.fields.uuid_data
  /\ sent' = [info |-> info, kind |-> kind, size |-> 0, cut |-> FALSE]
  /\ got' = Nothing
  /\ UNCHANGED <<writer, reader>>

(* The user data of an item may be shorter than what was written.             *)
Cut(n) ==
  /\ sent.kind = "V2" /\ ~sent.cut /\ n < Len(wire)
  /\ wire' = SubSeq(wire, 1, n)
  /\ sent' = [sent EXCEPT !.cut = TRUE]
  /\ got' = Nothing
  /\ UNCHANGED <<writer, reader, uses>>

-----------------------------------------------------------------------------
(* _parseBuff of s: the entries with their places, or not ok.                 *)
ParseBuff(s) ==
  LET counts == LeNumber(s, 12, 4)
      step(r, i) ==
        LET len == LeNumber(s, r.at + 4, 4) IN
        [at |-> r.at + EntryHead + len,
         entries |-> Append(r.entries, [type |-> LeNumber(s, r.at, 4),
                                        at |-> r.at + EntryHead, len |-> len])]
      ok == LeNumber(s, 0, 4) = 1 /\ BytesAt([mem |-> s], 4, 4) = Tag
              /\ LeNumber(s, 8, 4) = Len(s)
  IN  [ok |-> ok,
       entries |-> IF ok THEN FoldLeft(step, [at |-> ExtHead, entries |-> <<>>],
                                       [i \in 1..counts |-> i]).entries
                   ELSE <<>>]

(* libShmParserV2UserDataEntry of each entry in turn: a later entry of a type  *)
(* replaces an earlier one, one of an unknown type is skipped, the parameters  *)
(* are decoded at once.                                                       *)
InfoOf(s, entries) ==
  FoldLeft(LAMBDA info, e :
             IF e.type = TypeKeyValue
             THEN [info EXCEPT !.params = ExtractFromBuffer(Attached(SubSeq(s, e.at + 1, e.at + e.len)), <<>>).map @@ @]
             ELSE IF e.type \in ToSet(TypeNumbers)
             THEN [info EXCEPT !.fields =
                     (Fields[SelectInSeq(TypeNumbers, LAMBDA t : t = e.type)] :> [at |-> e.at, len |-> e.len]) @@ @]
             ELSE info,
           Empty, entries)

(* _readExtendDataV1: a place for each flag that is set, in order.            *)
InfoOfV1(s) ==
  LET flag == LeNumber(s, 0, 4)
      step(r, i) ==
        IF (flag \div 2^(i - 1)) % 2 = 0 THEN r
        ELSE LET len == LeNumber(s, r.at, 4) IN
             [at |-> r.at + 4 + len, fields |-> (V1Fields[i] :> [at |-> r.at + 4, len |-> len]) @@ r.fields]
  IN  [Empty EXCEPT !.fields =
         FoldLeft(step, [at |-> 4, fields |-> <<>>], [i \in DOMAIN V1Fields |-> i]).fields]

(* libShmReadExtendDataV2: the data of a V2 message are copied to the context  *)
(* first, and what is refused has replaced the copy; older messages are left   *)
(* where they are.                                                            *)
ReadExtendDataV2 ==
  LET p == ParseBuff(wire) IN
  /\ Use /\ wire # <<>>
  /\ IF sent.kind = "V2"
     THEN /\ reader' = [mem |-> Overlay(reader.mem, 0, wire), entries |-> p.entries,
                        notDone |-> reader.notDone /\ ~p.ok]
          /\ got' = IF p.ok THEN [read |-> TRUE, ret |-> 0, info |-> InfoOf(wire, p.entries),
                                 at |-> "context"]
                    ELSE [Nothing EXCEPT !.read = TRUE]
     ELSE /\ got' = [read |-> TRUE, ret |-> 0, at |-> "user",
                     info |-> IF sent.kind = "V1" THEN InfoOfV1(wire)
                              ELSE [Empty EXCEPT !.fields = "uuid_data" :> [at |-> 0, len |-> Len(wire)]]]
          /\ UNCHANGED reader
  /\ UNCHANGED <<writer, wire, sent>>

(* LibShmMeidaParseExtendData: with a context of its own, that copies nothing. *)
ParseExtendData ==
  LET p == ParseBuff(wire)
      ok == sent.kind = "V2" /\ p.ok
  IN
  /\ Use /\ wire # <<>>
  /\ got' = IF ok THEN [read |-> TRUE, ret |-> 0, info |-> InfoOf(wire, p.entries), at |-> "user"]
            ELSE [Nothing EXCEPT !.read = sent.kind = "V2"]
  /\ UNCHANGED <<writer, reader, wire, sent>>

(* LibshmMediaExtDataResetEntry, of the context of the reads.                 *)
ResetEntry ==
  /\ Use /\ ~reader.notDone
  /\ reader' = [reader EXCEPT !.entries = <<>>, !.notDone = TRUE]
  /\ UNCHANGED <<writer, wire, sent, got>>

Next == \/ \E info \in Infos : \/ \E d \in {-7, 0, 30} : WriteExtendData(info, EstimateExtendDataSize(info) + d)
                               \/ \E kind \in {"V1", "uid"} : OlderPeerWrites(info, kind)
        \/ \E n \in {12, 24, Len(wire) - 1} : Cut(n)
        \/ ReadExtendDataV2 \/ ParseExtendData \/ ResetEntry
Spec == Init /\ [][Next]_vars

-----------------------------------------------------------------------------
(* What the caller sees through the places it has.                            *)
Memory_(at) == IF at = "user" THEN wire ELSE reader.mem
Seen(info) ==
  [info EXCEPT !.fields = [f \in DOMAIN @ |-> SubSeq(Memory_(got.at), @[f].at + 1, @[f].at + @[f].len)]]

AllFit == sent.kind # "V2" \/ sent.size >= ExtHead + SizeOf(EntriesOf(sent.info))
Whole == got.ret = 0

(* What is read of a message of any version are fields that were written,      *)
(* byte for byte, and no others; all of them, with every parameter, if there   *)
(* was room.                                                                  *)
WrittenIsRead ==
  /\ got.read /\ ~sent.cut /\ AllFit /\ EntriesOf(sent.info) # <<>> => Whole
  /\ Whole => LET seen == Seen(got.info) IN
       /\ \A f \in DOMAIN seen.fields :
            f \in DOMAIN sent.info.fields /\ seen.fields[f] = sent.info.fields[f]
       /\ seen.params \in {<<>>, sent.info.params}
       /\ AllFit => seen = sent.info

(* Nothing of a message that is cut, or in which no entry fitted, is read,     *)
(* whatever the buffer it was written to held before.                         *)
PartIsRefused ==
  got.read /\ sent.kind = "V2" /\ (sent.cut \/ Len(wire) = ExtHead) => got.ret < 0
=============================================================================
