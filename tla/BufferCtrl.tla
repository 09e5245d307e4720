----------------------------- MODULE BufferCtrl -----------------------------
(* The byte buffer every protocol of the library writes to and reads from:   *)
(* libshmUtil/src/buffer_ctrl.cpp.  A controller is a record                 *)
(*   mem    the bytes written so far (p_buff; beyond them lies Junk),        *)
(*   alloc  i_allocSize, 0 while p_buff is NULL,                             *)
(*   cur    i_current,        pos  i_bufWritePos, an int of IntMax,          *)
(*   ext    b_externalBuffer.                                                *)
(* A function that writes returns [ok, b], one that reads [v, b]: v is what  *)
(* it returns, b the controller it leaves.                                   *)
EXTENDS Integers, Sequences, SequencesExt

CONSTANTS Junk,      \* a byte of memory nobody has written
          Granule,   \* 1 << BUFF_BITS
          Memory,    \* what realloc can provide
          IntMax     \* INT_MAX, the largest value of i_bufWritePos

ASSUME BufferAssumption ==
  /\ Junk \in 0..255
  /\ Granule \in Nat \ {0} /\ Memory \in Nat /\ IntMax \in Nat \ {0}

(* Signed arithmetic that wraps at IntMax.                                   *)
Wrap(n) == ((n + IntMax + 1) % (2 * (IntMax + 1))) - (IntMax + 1)

New == [mem |-> <<>>, alloc |-> 0, cur |-> 0, pos |-> 0, ext |-> FALSE]

(* The current position stays where an earlier use of the controller left it. *)
AttachExternal(b, s) == [b EXCEPT !.mem = s, !.pos = Len(s), !.ext = TRUE]

Release(b) == New

Seek(b, n) == [b EXCEPT !.cur = n]                          \* SEEK_SET

Reset(b) == [b EXCEPT !.pos = 0, !.cur = 0]

IsNull(b) == ~b.ext /\ b.alloc = 0

(* The steps of a function, each on what the one before it left: what is      *)
(* computed once has one name, and after a failure nothing more is done.      *)
With(x, Step(_)) == Step(x)
Then(r, Step(_)) == IF r.ok THEN Step(r.b) ELSE r

(* A reallocation that fails forgets the buffer and its positions.           *)
AllocBuf(b, total) ==
  IF b.ext \/ total <= b.alloc THEN [ok |-> ~b.ext, b |-> b]
  ELSE With((total \div Granule + 1) * Granule, LAMBDA size :
         IF size > Memory THEN [ok |-> FALSE, b |-> New]
         ELSE [ok |-> TRUE, b |-> [b EXCEPT !.alloc = size]])

Times(x, n) == IF n <= 0 THEN <<>> ELSE [i \in 1..n |-> x]

(* s laid over mem from offset at.                                           *)
Overlay(mem, at, s) ==
  [i \in DOMAIN mem \cap 1..at |-> mem[i]] \o Times(Junk, at - Len(mem)) \o s
    \o SubSeq(mem, at + Len(s) + 1, Len(mem))

(* The write position advances by the length even where bytes are replaced.  *)
PushData(b, s) ==
  Then(AllocBuf(b, b.cur + Len(s)), LAMBDA a :
    [ok |-> TRUE,
     b |-> [a EXCEPT !.mem = Overlay(@, b.cur, s),
                     !.cur = b.cur + Len(s), !.pos = Wrap(b.pos + Len(s))]])

W8(b, x) == PushData(b, <<x>>)

(* The bytes of n, most significant first, and a number of at most four      *)
(* bytes; one that does not fit the positive range of TLC is the largest.    *)
Digits(n, width) == [i \in 1..width |-> (n \div 256^(width - i)) % 256]
Largest == 2147483647
Number(s) ==
  IF Len(s) > 4 \/ (Len(s) = 4 /\ s[1] > 127) THEN Largest
  ELSE FoldLeft(LAMBDA n, x : 256 * n + x, 0, s)

(* A value of a fixed width is the tuple of its bytes, most significant first. *)
WBe(b, s) == PushData(b, s)
WLe(b, s) == PushData(b, Reverse(s))

LeftLen(b) == IF b.pos < b.cur THEN 0 ELSE b.pos - b.cur

(* The n bytes of memory from offset at.                                     *)
BytesAt(b, at, n) ==
  [i \in 1..n |-> IF at + i \in DOMAIN b.mem THEN b.mem[at + i] ELSE Junk]

(* Width calls of R8: each one past the write position gives 0 and stays.    *)
R8s(b, width) ==
  With(IF IsNull(b) THEN 0 ELSE Min({width, LeftLen(b)}), LAMBDA k :
    [v |-> BytesAt(b, b.cur, k) \o Times(0, width - k), b |-> [b EXCEPT !.cur = @ + k]])

R8(b) == [R8s(b, 1) EXCEPT !.v = @[1]]

RBe(b, width) == R8s(b, width)
RLe(b, width) == [R8s(b, width) EXCEPT !.v = Reverse(@)]

(* Advances by n whatever is left.                                           *)
ReadSkip(b, n) == IF IsNull(b) THEN b ELSE [b EXCEPT !.cur = @ + n]
=============================================================================
