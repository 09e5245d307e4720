----------------------------- MODULE ModLemmas -----------------------------
(***************************************************************************)
(* Remainders, for the proofs about the rings.  The provers know of % only *)
(* that a number is quotient times divisor plus remainder.                 *)
(***************************************************************************)
EXTENDS Integers, TLAPS

\* Division with remainder is unique: the ring modules take every index modulo
\* something, and what their proofs know about the result comes from here.
LEMMA ModUnique ==
    ASSUME NEW a \in Int, NEW b \in Nat \ {0}, NEW q \in Int, NEW t \in 0 .. b - 1,
           a = b * q + t
    PROVE  a % b = t
<1>1. a = b * (a \div b) + (a % b) /\ a % b \in 0 .. b - 1 /\ a \div b \in Int
  BY Z3
<1> DEFINE p == a \div b
           u == a % b
<1>2. b * (q - p) = u - t
  BY <1>1, Z3
<1>3. q - p = 0
  <2>1. CASE q - p >= 1
    <3>1. b * (q - p) >= b
      BY <1>1, <2>1, Z3
    <3> QED BY <3>1, <1>2, <1>1, Z3
  <2>2. CASE q - p =< -1
    <3>1. b * (p - q) >= b
      BY <1>1, <2>2, Z3
    <3>2. b * (p - q) = t - u
      BY <1>1, Z3
    <3> QED BY <3>1, <3>2, <1>1, Z3
  <2> QED BY <2>1, <2>2, <1>1, Z3
<1> QED BY <1>2, <1>3, <1>1, Z3

\* A whole number of laps does not change an index.
LEMMA ModShift ==
    ASSUME NEW a \in Int, NEW b \in Nat \ {0}, NEW k \in Int
    PROVE  (a + b * k) % b = a % b
<1>1. a = b * (a \div b) + (a % b) /\ a % b \in 0 .. b - 1 /\ a \div b \in Int
  BY Z3
<1>2. a + b * k = b * ((a \div b) + k) + (a % b) /\ (a \div b) + k \in Int /\ a + b * k \in Int
  BY <1>1, Z3
<1> QED BY <1>1, <1>2, ModUnique

\* Two numbers less than a lap apart fall on different slots (the writer and
\* an item it published less than a ring ago).
LEMMA ModClose ==
    ASSUME NEW a \in Int, NEW c \in Int, NEW b \in Nat \ {0},
           a < c, c - a < b
    PROVE  a % b # c % b
<1>1. a = b * (a \div b) + (a % b) /\ a % b \in 0 .. b - 1 /\ a \div b \in Int
  BY Z3
<1>2. c = b * (c \div b) + (c % b) /\ c % b \in 0 .. b - 1 /\ c \div b \in Int
  BY Z3
<1> SUFFICES ASSUME a % b = c % b PROVE FALSE
  OBVIOUS
<1> DEFINE d == (c \div b) - (a \div b)
<1>3. c - a = b * d /\ d \in Int
  BY <1>1, <1>2, Z3
<1>4. d >= 1
  <2>1. CASE d =< 0
    <3>1. b * d =< 0 BY <2>1, <1>3, Z3
    <3> QED BY <3>1, <1>3
  <2> QED BY <2>1, <1>3
<1>5. b * d >= b
  BY <1>3, <1>4, Z3
<1> QED BY <1>3, <1>5

\* An index that wraps at a multiple of the ring size keeps its slot.
LEMMA ModMod ==
    ASSUME NEW a \in Int, NEW m \in Nat \ {0}, NEW b \in Nat \ {0}, m % b = 0
    PROVE  (a % m) % b = a % b
<1>1. a = m * (a \div m) + (a % m) /\ a % m \in 0 .. m - 1 /\ a \div m \in Int
  BY Z3
<1>2. m = b * (m \div b) /\ m \div b \in Int
  BY Z3
<1> DEFINE k == (m \div b) * (a \div m)
<1>3. k \in Int /\ m * (a \div m) = b * k
  BY <1>1, <1>2, Z3
<1>4. a = (a % m) + b * k
  BY <1>1, <1>3
<1> DEFINE x == a % m
<1>5. a = x + b * k /\ x \in Int
  BY <1>1, <1>4
<1> HIDE DEF k, x
<1>6. (x + b * k) % b = x % b
  BY <1>3, <1>5, ModShift
<1>7. a % b = x % b
  BY <1>5, <1>6
<1> QED BY <1>7 DEF x

\* An index that has not wrapped is itself.
LEMMA ModSmall ==
    ASSUME NEW b \in Nat \ {0}, NEW a \in 0 .. b - 1
    PROVE  a % b = a
BY ModUnique, a = b * 0 + a

\* A remainder is a slot number.
LEMMA ModRange ==
    ASSUME NEW b \in Nat \ {0}, NEW a \in Int
    PROVE  a % b \in 0 .. b - 1
BY Z3

\* Stepping a wrapped index is wrapping the stepped one.
LEMMA ModPlus ==
    ASSUME NEW a \in Int, NEW c \in Int, NEW b \in Nat \ {0}
    PROVE  ((a % b) + c) % b = (a + c) % b
<1>1. a = b * (a \div b) + (a % b) /\ a % b \in 0 .. b - 1 /\ a \div b \in Int
  BY Z3
<1> DEFINE x == (a % b) + c
<1>2. a + c = x + b * (a \div b) /\ x \in Int
  BY <1>1
<1> HIDE DEF x
<1>3. (a + c) % b = x % b
  BY <1>1, <1>2, ModShift
<1> QED BY <1>3 DEF x

\* The difference to a wrapped index is the wrapped difference.
LEMMA ModMinus ==
    ASSUME NEW a \in Int, NEW c \in Int, NEW b \in Nat \ {0}
    PROVE  (a - (c % b)) % b = (a - c) % b
<1>1. c = b * (c \div b) + (c % b) /\ c % b \in 0 .. b - 1 /\ c \div b \in Int
  BY Z3
<1> DEFINE x == a - c
<1>2. a - (c % b) = x + b * (c \div b) /\ x \in Int
  BY <1>1
<1> HIDE DEF x
<1>3. (a - (c % b)) % b = x % b
  BY <1>1, <1>2, ModShift
<1> QED BY <1>3 DEF x

\* Quotient and remainder of a natural number.
LEMMA DivMod ==
    ASSUME NEW a \in Nat, NEW b \in Nat \ {0}
    PROVE  /\ a = b * (a \div b) + (a % b)
           /\ a \div b \in Nat
           /\ a % b \in 0 .. b - 1
           /\ b * (a \div b) \in Nat
<1>1. a = b * (a \div b) + (a % b) /\ a % b \in 0 .. b - 1 /\ a \div b \in Int
  BY Z3
<1>2. a \div b >= 0
  <2> SUFFICES ASSUME a \div b =< -1 PROVE FALSE
    BY <1>1
  <2>1. b * (a \div b) =< -b
    BY <1>1, Z3
  <2> QED BY <2>1, <1>1
<1>3. b * (a \div b) >= 0
  BY <1>1, <1>2, Z3
<1> QED BY <1>1, <1>2, <1>3

=============================================================================
