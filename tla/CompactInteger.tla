--------------------------- MODULE CompactInteger ---------------------------
(* The compact integers of libshmUtil/src/buffer_ctrl.cpp: groups of          *)
(* GroupBits, the most significant first, a bit above them in every byte but  *)
(* the last.  The widths are constants, so that every value of a small width  *)
(* goes through the code's groups, its terminal bytes and its overflow test.  *)
EXTENDS BufferCtrl

CONSTANTS GroupBits,   \* 7: bits of a value in one byte
          WordBits,    \* 32
          LongBits     \* 64

ASSUME WidthAssumption ==
  GroupBits \in 1..7 /\ WordBits \in Nat /\ LongBits \in Nat

Group == 2^GroupBits
MaxBytes(bits) == (bits + GroupBits - 1) \div GroupBits

BytesCount(n, bits) ==
  Min({k \in 1..MaxBytes(bits) : n < Group^k} \cup {MaxBytes(bits)})

EncodeCompact(b, n, bits) ==
  With(BytesCount(n, bits), LAMBDA k :
    Then(AllocBuf(b, b.cur + k), LAMBDA room :
      PushData(room, [i \in 1..k |-> ((n \div Group^(k - i)) % Group)
                                      + (IF i < k THEN Group ELSE 0)])))

(* ret: the bytes taken, 0 where more are expected, -1 where the value does   *)
(* not fit.  Only a value that is taken moves the position.                   *)
DecodeByte(r, x, i, bits) ==
  IF i = MaxBytes(bits) /\ (r.v \div 2^(bits - GroupBits) # 0 \/ x.v >= Group)
  THEN [r EXCEPT !.ret = -1]
  ELSE [ret |-> IF x.v < Group THEN i ELSE 0, v |-> r.v * Group + (x.v % Group), b |-> x.b]

OnSuccess(r, b) == IF r.ret > 0 THEN r ELSE [r EXCEPT !.b = b]

DecodeCompact(b, bits) ==
  LET step(r, i) ==
        IF r.ret # 0 \/ i > LeftLen(b) THEN r ELSE DecodeByte(r, R8(r.b), i, bits)
  IN  OnSuccess(FoldLeft(step, [ret |-> 0, v |-> 0, b |-> b], [i \in 1..MaxBytes(bits) |-> i]), b)

Attached(s) == AttachExternal(New, s)
Bytes(r) == BytesAt(r.b, 0, r.b.pos)
=============================================================================
