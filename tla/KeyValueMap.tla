---------------------------- MODULE KeyValueMap ----------------------------
(* Key-value parameters as bytes: the variants of                             *)
(* libshmUtil/src/buffer_ctrl.cpp, the map of libshm_key_value.cpp over the    *)
(* values of libshm_variant.cpp and libshm_cache_buffer.cpp, and the nested    *)
(* maps that carry a channel layout in the media head.                        *)
EXTENDS CompactInteger

CONSTANT QuadBytes   \* 16: sizeof(uint128_t)

-----------------------------------------------------------------------------
(* Values.  A Bytes value may refer to the caller's memory instead of a copy. *)
Words == {"Char", "Byte", "Short", "Word", "Int32", "Uint32", "Float"}
Longs == {"Int64", "Uint64", "Double"}
TypeNumber == [Null |-> 0, Char |-> 1, Byte |-> 2, Short |-> 3, Word |-> 4, Int32 |-> 5,
               Uint32 |-> 6, Int64 |-> 7, Uint64 |-> 8, Float |-> 9, Double |-> 10,
               Uint128 |-> 11, String |-> 12, Bytes |-> 13]
Null == [type |-> "Null", v |-> 0]

(* Variant::GetAsUint32 and GetAsUint64 truncate a floating value, whose      *)
(* pattern of bits stands here for the number half of it.                     *)
AsInteger(value) ==
  IF value.type \in {"Float", "Double"} THEN value.v \div 2 ELSE value.v

EncodeType(b, value) == EncodeCompact(b, TypeNumber[value.type], WordBits)

(* BufferCtrlCompactEncodeVariant.                                            *)
EncodeVariant(b0, value) ==
  Then(EncodeType(b0, value), LAMBDA b :
    CASE value.type = "Null" -> [ok |-> TRUE, b |-> b]
      [] value.type \in Words -> EncodeCompact(b, AsInteger(value), WordBits)
      [] value.type \in Longs -> EncodeCompact(b, AsInteger(value), LongBits)
      [] value.type = "Uint128" -> WBe(b, value.v)
      [] value.type \in {"String", "Bytes"} ->
           Then(EncodeCompact(b, Len(value.v), WordBits), LAMBDA sized : PushData(sized, value.v)))

(* BufferCtrlCompactDecodeVariant: a truncated value leaves the position      *)
(* after what was read of it, and a 128-bit one may be short.                 *)
NumberOf(t, d, type) ==
  [ret |-> IF d.ret > 0 THEN t.ret + d.ret ELSE d.ret, b |-> d.b,
   value |-> [type |-> type, v |-> d.v]]
QuadOf(t, r) ==
  [ret |-> IF r.b.cur > t.b.cur THEN t.ret + r.b.cur - t.b.cur ELSE 0, b |-> r.b,
   value |-> [type |-> "Uint128", v |-> r.v]]
SizedOf(t, n, type) ==
  IF n.ret <= 0 \/ LeftLen(n.b) < n.v
  THEN [ret |-> IF n.ret < 0 THEN -1 ELSE 0, b |-> n.b, value |-> Null]
  ELSE [ret |-> t.ret + n.ret + n.v, b |-> ReadSkip(n.b, n.v),
        value |-> [type |-> type, v |-> BytesAt(n.b, n.b.cur, n.v)]]
TypesOf(number) == {type \in DOMAIN TypeNumber : TypeNumber[type] = number}

DecodeVariant(b) ==
  With(DecodeCompact(b, WordBits), LAMBDA t :
    IF t.ret <= 0 \/ TypesOf(t.v) = {}
    THEN [ret |-> IF t.ret <= 0 THEN t.ret ELSE -1, b |-> t.b, value |-> Null]
    ELSE With(CHOOSE type \in TypesOf(t.v) : TRUE, LAMBDA type :
      CASE type = "Null" -> [ret |-> t.ret, b |-> t.b, value |-> Null]
        [] type \in Words -> NumberOf(t, DecodeCompact(t.b, WordBits), type)
        [] type \in Longs -> NumberOf(t, DecodeCompact(t.b, LongBits), type)
        [] type = "Uint128" -> QuadOf(t, RBe(t.b, QuadBytes))
        [] type \in {"String", "Bytes"} -> SizedOf(t, DecodeCompact(t.b, WordBits), type)))

(* Bytes once set are kept: mutant of SetAsBytes.                             *)
SetAsBytesOnce(old, s) == IF old.type = "Bytes" THEN old ELSE [type |-> "Bytes", v |-> s]

(* Variant::SetAsBytes, through CacheBuffer::Copy: to copy no bytes over a    *)
(* Bytes value changes nothing.                                               *)
SetAsBytes(old, s) ==
  IF s # <<>> THEN [type |-> "Bytes", v |-> s]
  ELSE IF old.type = "Bytes" THEN old ELSE [type |-> "Bytes", v |-> <<>>]

(* The other setters, and SetAsBytesByReference (CacheBuffer::AttachBuf).     *)
SetValue(value) == value

-----------------------------------------------------------------------------
(* The map.  std::map keeps its keys in order.                                *)
InOrder(map) == SetToSortSeq(DOMAIN map, LAMBDA x, y : x < y)

(* BufferCtrlCompactGetBytesCountVariant.                                     *)
VariantBytes(v) ==
  BytesCount(TypeNumber[v.type], WordBits) +
    CASE v.type \in Words -> BytesCount(AsInteger(v), WordBits)
      [] v.type \in Longs -> BytesCount(AsInteger(v), LongBits)
      [] v.type = "Uint128" -> QuadBytes
      [] v.type \in {"String", "Bytes"} -> BytesCount(Len(v.v), WordBits) + Len(v.v)
      [] v.type = "Null" -> 0

BytesNeeded(map) ==
  FoldLeft(LAMBDA n, k : n + BytesCount(k, WordBits) + VariantBytes(map[k]),
           BytesCount(Cardinality(DOMAIN map), WordBits), InOrder(map))

AppendToBuffer(b, map) ==
  LET entry(r, k) ==
        Then(Then(r, LAMBDA rest : EncodeCompact(rest, k, WordBits)),
             LAMBDA keyed : EncodeVariant(keyed, map[k]))
  IN  FoldLeft(entry,
               EncodeCompact(AllocBuf(b, BytesNeeded(map)).b, Cardinality(DOMAIN map), WordBits),
               InOrder(map))

Counted(n, map) == [ret |-> n.ret, map |-> map, b |-> n.b]

(* r: what is read so far, k: the next key, v: its value.  A value that is    *)
(* cut is entered all the same.                                               *)
ExtractEntry(r, k, v) ==
  IF k.ret <= 0 THEN [r EXCEPT !.ret = k.ret]
  ELSE IF v.ret <= 0 THEN [r EXCEPT !.ret = v.ret, !.map = (k.v :> v.value) @@ @]
  ELSE [ret |-> r.ret + k.ret + v.ret, b |-> v.b, map |-> (k.v :> v.value) @@ r.map]

ExtractEntries(n, map) ==
  LET entry(r, i) ==
        IF r.ret <= 0 THEN r
        ELSE With(DecodeCompact(r.b, WordBits), LAMBDA k : ExtractEntry(r, k, DecodeVariant(k.b)))
  IN  FoldLeft(entry, Counted(n, map), [i \in 1..n.v |-> i])

(* Answers [ret, map, b].  The old parameters go as soon as a count is read.  *)
ExtractFromBuffer(b, map) ==
  With(DecodeCompact(b, WordBits), LAMBDA n :
    IF n.ret <= 0 THEN Counted(n, map) ELSE OnSuccess(ExtractEntries(n, <<>>), b))

-----------------------------------------------------------------------------
(* keyValueProtoAppendToBuffer, _mediaHeadSetChannelLayout: the bytes of a    *)
(* layout in a map, that map in another.                                      *)
TrackChannelLayout == 1
MediaHead == 1
Wrapped(key, s) == (key :> [type |-> "Bytes", v |-> s])

AppendLayout(b, layout) ==
  AppendToBuffer(b, Wrapped(MediaHead, Bytes(AppendToBuffer(New, Wrapped(TrackChannelLayout, layout)))))

(* keyValueProtoExtractFromBuffer, _mediaHeadGetChannelLayout.                *)
BytesOf(map, key) ==
  IF key \in DOMAIN map /\ map[key].type = "Bytes" THEN map[key].v ELSE <<>>

ExtractLayout(s) ==
  With(ExtractFromBuffer(Attached(s), <<>>), LAMBDA outer :
    IF outer.ret <= 0 \/ MediaHead \notin DOMAIN outer.map
    THEN [ret |-> outer.ret, layout |-> <<>>]
    ELSE With(ExtractFromBuffer(Attached(BytesOf(outer.map, MediaHead)), <<>>), LAMBDA inner :
      IF inner.ret <= 0 THEN [ret |-> 0, layout |-> <<>>]
      ELSE With(BytesOf(inner.map, TrackChannelLayout), LAMBDA layout :
        [ret |-> Len(layout), layout |-> layout])))
=============================================================================
