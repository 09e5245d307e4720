---------------------------- MODULE AudioLayout ----------------------------
(* The channel layout of an audio track as an object and as a binary          *)
(* (libshmmediaProto/src/libshm_media_audio_track_channel_protocol.cpp), over  *)
(* the byte buffers of libshm_cache_buffer.cpp.                                *)
(*   writer, reader  an AudioChannelLayoutInternal each: its flag _bPlanar,    *)
(*                   its channels _bufChannel and its binary _bufBin,          *)
(*   wire            the binary that is handed from one to the other,          *)
(*   sent            the channels and the flag serialised in it,               *)
(*   got             what the last call answered, and of what.                 *)
EXTENDS CompactInteger

CONSTANTS Channels,   \* sequences of channels, each of two bytes
          Uses

VARIABLES writer, reader, wire, sent, got, uses
vars == <<writer, reader, wire, sent, got, uses>>

Object == [planar |-> FALSE, chan |-> <<>>, bin |-> <<>>]
Nothing == [call |-> "none", ok |-> FALSE, whole |-> FALSE]
Unsent == [chan |-> <<>>, planar |-> FALSE]
Init ==
  /\ writer = Object /\ reader = Object
  /\ wire = <<>> /\ sent = Unsent /\ got = Nothing /\ uses = 0

Use == uses < Uses /\ uses' = uses + 1

-----------------------------------------------------------------------------
(* zlib: what is deflated is longer by what frames it, and what lacks a part   *)
(* of it, or is too long for the room, cannot be inflated.                    *)
Compress(s) == <<120>> \o s \o <<Len(s)>>
Uncompress(s, room) ==
  IF room = 0 \/ Len(s) < 2 \/ s[Len(s)] # Len(s) - 2 \/ s[1] # 120 \/ Len(s) - 2 > room
  THEN [ok |-> FALSE, s |-> <<>>]
  ELSE [ok |-> TRUE, s |-> SubSeq(s, 2, Len(s) - 1)]

(* Copying no bytes leaves a CacheBuffer as it is.                            *)
CopyBuffer(old, new) == IF new = <<>> THEN old ELSE new

ToBinary(chan, planar) ==
  LET z  == Compress(FlattenSeq(chan))
      n  == EncodeCompact(New, Len(chan), WordBits)
      nz == EncodeCompact(n.b, Len(z), WordBits)
      d  == PushData(nz.b, z)
  IN  Bytes(EncodeCompact(d.b, IF planar THEN 1 ELSE 0, WordBits))

(* SerializeToBinary: nothing is done for what the object holds already.      *)
Serialize(o, chan, planar) ==
  IF chan = <<>> THEN [ok |-> FALSE, o |-> o]
  ELSE IF planar = o.planar /\ chan = o.chan THEN [ok |-> TRUE, o |-> o]
  ELSE [ok |-> TRUE, o |-> [planar |-> planar, chan |-> chan, bin |-> ToBinary(chan, planar)]]

(* The channels of n flat pairs of bytes.                                     *)
Pairs(s, n) == [i \in 1..n |-> SubSeq(s, 2 * i - 1, 2 * i)]

(* ParseFromBinary: the flag is set where the binary has it, before the        *)
(* channels are inflated, and never cleared.  Without room for channels the    *)
(* inflation fails.                                                           *)
Parse(o, s) ==
  LET n    == DecodeCompact(Attached(s), WordBits)
      nz   == DecodeCompact(n.b, WordBits)
      rest == ReadSkip(nz.b, nz.v)
      flag == DecodeCompact(rest, WordBits)
      planar == o.planar \/ (LeftLen(rest) > 0 /\ flag.v = 1)
      z    == Uncompress(BytesAt(nz.b, nz.b.cur, nz.v), 2 * n.v)
  IN  IF s = <<>> THEN [ok |-> FALSE, o |-> o]
      ELSE IF s = o.bin THEN [ok |-> TRUE, o |-> o]
      ELSE IF n.ret <= 0 \/ nz.ret <= 0 \/ nz.v > LeftLen(nz.b)
              \/ (LeftLen(rest) > 0 /\ flag.ret <= 0)
           THEN [ok |-> FALSE, o |-> o]
      ELSE IF ~z.ok \/ Len(z.s) # 2 * n.v THEN [ok |-> FALSE, o |-> [o EXCEPT !.planar = planar]]
      ELSE [ok |-> TRUE, o |-> [planar |-> planar, chan |-> Pairs(z.s, n.v), bin |-> s]]

(* The binary is left out: mutant of CopyObject.                              *)
CopyObjectHalf(o, from) ==
  [planar |-> from.planar, chan |-> CopyBuffer(o.chan, from.chan), bin |-> o.bin]

CopyObject(o, from) ==
  [planar |-> from.planar, chan |-> CopyBuffer(o.chan, from.chan), bin |-> CopyBuffer(o.bin, from.bin)]

GetBinArr(o) == o.bin

(* Objects without a binary are not equal, not even to each other.            *)
Compare(o, p) == o.bin # <<>> /\ o.bin = p.bin

-----------------------------------------------------------------------------
SerializeToBinary(chan, planar) ==
  LET r == Serialize(writer, chan, planar) IN
  /\ Use
  /\ writer' = r.o
  /\ got' = [Nothing EXCEPT !.call = "serialize", !.ok = r.ok]
  /\ UNCHANGED <<reader, wire, sent>>

(* The owner hands over the binary (GetBinArr).  One without the last byte    *)
(* has no flag.                                                               *)
GetBinaryAddr ==
  /\ Use /\ writer.bin # <<>>
  /\ wire' = GetBinArr(writer)
  /\ sent' = [chan |-> writer.chan, planar |-> writer.bin = ToBinary(writer.chan, TRUE)]
  /\ got' = Nothing
  /\ UNCHANGED <<writer, reader>>

ParseFromBinary(n) ==
  LET r == Parse(reader, SubSeq(wire, 1, n)) IN
  /\ Use /\ n <= Len(wire)
  /\ reader' = r.o
  /\ got' = [call |-> "parse", ok |-> r.ok, whole |-> n = Len(wire) /\ n > 0]
  /\ UNCHANGED <<writer, wire, sent>>

Copy ==
  /\ Use
  /\ \/ writer' = CopyObject(writer, reader) /\ UNCHANGED reader
     \/ reader' = CopyObject(reader, writer) /\ UNCHANGED writer
  /\ got' = [Nothing EXCEPT !.call = "copy"]
  /\ UNCHANGED <<wire, sent>>

Release_ ==
  /\ Use
  /\ \/ writer # Object /\ writer' = Object /\ UNCHANGED reader
     \/ reader # Object /\ reader' = Object /\ UNCHANGED writer
  /\ got' = Nothing
  /\ UNCHANGED <<wire, sent>>

Next == \/ \E chan \in Channels, planar \in BOOLEAN : SerializeToBinary(chan, planar)
        \/ GetBinaryAddr
        \/ \E short \in 0..3 : ParseFromBinary(Max({0, Len(wire) - short}))
        \/ Copy \/ Release_
Spec == Init /\ [][Next]_vars

-----------------------------------------------------------------------------
(* Whatever was serialised, parsed in part or in whole, or copied before, the  *)
(* binary of an object is one of the channels the object answers, and objects  *)
(* that compare as equal answer the same channels.                            *)
BinaryIsOfChannels ==
  /\ \A o \in {writer, reader} :
       IF o.bin = <<>> THEN o.chan = <<>>
       ELSE \E planar \in BOOLEAN :
              o.bin \in {SubSeq(ToBinary(o.chan, planar), 1, k) :
                           k \in {Len(ToBinary(o.chan, planar)) - 1, Len(ToBinary(o.chan, planar))}}
  /\ Compare(writer, reader) => writer.chan = reader.chan

(* A whole binary is parsed to the channels that were serialised.             *)
ChannelsAreCarried ==
  got.call = "parse" /\ got.whole => got.ok /\ reader.chan = sent.chan

(* "used to parse the binary to channel-layout": to the flag as well.          *)
FlagIsCarried ==
  got.call = "parse" /\ got.whole => got.ok /\ reader.planar = sent.planar
=============================================================================
