----------------------------- MODULE UnitProofs ------------------------------
(***************************************************************************)
(* What is proved of the components of Units, for every value of their     *)
(* constants: the wrap handles, the header of a memory and the node manager. *)
(***************************************************************************)
EXTENDS Units, ModLemmas, SequenceTheorems, FiniteSetTheorems

(***************************************************************************)
(* The handles that send and receive commands and frames: commands arrive  *)
(* in order and none of them twice, and a search ends at the newest item   *)
(* wanted.                                                                 *)
(***************************************************************************)

Item == [n : Nat, m : Nat]
Shm == [items : Seq(Item), closed : BOOLEAN]
Leave == [shm : Nat, from : Nat, pos : Int, looked : Nat]
Search == [hit : BOOLEAN, i : Int, want : Nat, shm : Nat, looked : Nat, now : Nat]

Memories == [shms : Seq(Shm), name : Nat]
Writers == [shm : Nat, leaving : BOOLEAN, sent : Nat, ends : Nat]
Readers == [kind : {"control", "tvulive"}, made : BOOLEAN, shm : Nat, next : Int, pos : Int, from : Nat]
CallsOfReader == [step : {"idle", "look", "flag", "take", "search"}, looked : Nat, want : Nat,
                  windex : Int, at : Int, count : Int]
Gots == [read : Seq(Nat), left : Leave, search : Search]

WrapTypes ==
  /\ wire \in Memories /\ wire.name <= Len(wire.shms)
  /\ writer \in Writers /\ writer.shm <= Len(wire.shms) /\ writer.sent <= Len(Feed)
  /\ reader \in Readers /\ reader.shm <= Len(wire.shms)
  /\ sent \in CallsOfReader
  /\ got \in Gots
  /\ got.left.shm <= Len(wire.shms) /\ got.search.shm <= Len(wire.shms)

\* Items are numbered in the order they are sent.
Numbered ==
  \A s \in 1..Len(wire.shms) : \A i \in 1..Len(Wrp!Items(s)) :
    /\ Wrp!Items(s)[i].n < writer.sent
    /\ \A j \in 1..i - 1 : Wrp!Items(s)[j].n < Wrp!Items(s)[i].n

\* A call is of a handle that has a memory, and begins with a clean slate; only
\* a reader of frames searches, and it keeps its memory.
ReaderAttached ==
  /\ ~reader.made => reader.shm = 0 /\ sent.step = "idle"
  /\ reader.made /\ reader.kind = "tvulive" => reader.shm # 0
  /\ sent.step # "idle" \/ ~reader.made => got.left.shm = 0 /\ got.search.shm = 0
  /\ sent.step # "idle" => reader.shm # 0
  /\ reader.kind = "control" => sent.step # "search" /\ got.search.shm = 0

\* Where a control reader is, and what it has seen of the write index.
Placed ==
  reader.kind = "control" /\ reader.shm # 0 =>
    /\ reader.from <= reader.pos /\ reader.pos <= Len(Wrp!Items(reader.shm))
    /\ reader.next = Wrp!IndexOf(reader.pos)
    /\ sent.step = "take" => reader.pos < Len(Wrp!Items(reader.shm))
    /\ sent.step = "flag" => reader.pos <= sent.looked /\ Wrp!IndexOf(reader.pos) = Wrp!IndexOf(sent.looked)

\* The commands of memory s from one index up to another have been read.
Arrived(s, from, pos) ==
  \A i \in from..pos - 1 : Wrp!Items(s)[i + 1].m # 0 => Wrp!Items(s)[i + 1].n \in Wrp!Range(got.read)

\* What was read was read in order, and is older than all that is yet to be read.
ReadInOrder ==
  /\ Wrp!Ascending(got.read)
  /\ \A k \in 1..Len(got.read) : got.read[k] < writer.sent
  /\ reader.shm # 0 =>
       \A k \in 1..Len(got.read), i \in reader.pos..Len(Wrp!Items(reader.shm)) - 1 :
         got.read[k] < Wrp!Items(reader.shm)[i + 1].n

\* A memory was left with all read that was seen, or the reader had been lapped.
LeftRead ==
  got.left.shm # 0 =>
    /\ got.left.pos <= Len(Wrp!Items(got.left.shm))
    /\ got.left.looked - got.left.pos < Wrp!MaxItemIndex => got.left.looked = got.left.pos
    /\ Arrived(got.left.shm, got.left.from, got.left.pos)

ControlInv ==
  reader.kind = "control" =>
    /\ ReadInOrder /\ LeftRead
    /\ reader.shm # 0 => Arrived(reader.shm, reader.from, reader.pos)

\* A search has passed none of the items wanted, but for those whose entries were
\* reused meanwhile.
Searching ==
  sent.step = "search" =>
    /\ sent.count \in 0..MaxItemsNum - 1
    /\ sent.looked <= Len(Wrp!Items(reader.shm))
    /\ sent.windex = Wrp!IndexOf(sent.looked)
    /\ sent.at = Wrp!IndexOf(sent.looked - MaxItemsNum + sent.count)
    /\ \A i \in 0..sent.looked - 1 :
         i > sent.looked - MaxItemsNum + sent.count /\ Wrp!Items(reader.shm)[i + 1].m = sent.want
           => Len(Wrp!Items(reader.shm)) - i >= MaxItemsNum

\* What a search answered is of the memory.
Searched ==
  got.search.shm # 0 =>
    /\ got.search.looked <= Len(Wrp!Items(got.search.shm))
    /\ got.search.hit => got.search.i \in 0..Len(Wrp!Items(got.search.shm)) - 1
    /\ reader.shm = got.search.shm

WrapInv ==
  /\ WrapTypes /\ Numbered /\ ReaderAttached /\ Placed /\ ControlInv
  /\ Searching /\ Searched /\ Wrp!SearchEndsAtNewest

-----------------------------------------------------------------------------
(***************************************************************************)
(* The items of a memory, and the entries of the table.                    *)
(***************************************************************************)

LEMMA Bounds ==
  /\ MaxItemsNum \in Nat \ {0} /\ Wrp!MaxItemIndex \in Nat \ {0} /\ Wrp!MaxItemIndex \in Int
  /\ Wrp!MaxItemIndex = 2 * MaxItemsNum /\ Wrp!MaxItemIndex % MaxItemsNum = 0
  /\ Feed \in Seq(Nat)
<1>1. MaxItemsNum \in Nat \ {0} /\ Feed \in Seq(Nat)
  BY WrapAssumption
<1>2. Wrp!MaxItemIndex = 2 * MaxItemsNum
  BY DEF Wrp!MaxItemIndex
<1>3. Wrp!MaxItemIndex = MaxItemsNum * 2 + 0 /\ 0 \in 0..MaxItemsNum - 1
  BY <1>1, <1>2
<1>4. Wrp!MaxItemIndex % MaxItemsNum = 0
  BY <1>1, <1>2, <1>3, ModUnique
<1> QED BY <1>1, <1>2, <1>4

LEMMA Sizes == MaxItemsNum \in Nat \ {0} /\ Wrp!MaxItemIndex \in Nat /\ Wrp!MaxItemIndex = 2 * MaxItemsNum
BY Bounds

LEMMA IndexRange ==
    ASSUME NEW i \in Int
    PROVE  Wrp!IndexOf(i) \in 0..Wrp!MaxItemIndex - 1
BY Bounds, ModRange DEF Wrp!IndexOf

\* Two positions of one index are a round of the index apart.
LEMMA IndexApart ==
    ASSUME NEW i \in Int, NEW j \in Int, i < j, Wrp!IndexOf(i) = Wrp!IndexOf(j)
    PROVE  j - i >= Wrp!MaxItemIndex
<1> SUFFICES ASSUME j - i < Wrp!MaxItemIndex PROVE FALSE
  BY Bounds
<1> QED BY Bounds, ModClose DEF Wrp!IndexOf

\* Stepping an index back.
LEMMA IndexBefore ==
    ASSUME NEW i \in Int
    PROVE  Wrp!PreviousIndexStep(Wrp!IndexOf(i)) = Wrp!IndexOf(i - 1)
<1>1. Wrp!IndexOf(i) \in 0..Wrp!MaxItemIndex - 1 /\ Wrp!IndexOf(i) \in Int
  BY IndexRange
<1>2. (Wrp!IndexOf(i) - 1) % Wrp!MaxItemIndex = Wrp!IndexOf(i - 1)
  <2>1. ((i % Wrp!MaxItemIndex) + (-1)) % Wrp!MaxItemIndex = (i + (-1)) % Wrp!MaxItemIndex
    BY Bounds, ModPlus
  <2> QED BY <1>1, <2>1 DEF Wrp!IndexOf
<1>3. CASE Wrp!IndexOf(i) = 0
  <2>1. Wrp!IndexOf(i) - 1 = Wrp!MaxItemIndex * (-1) + (Wrp!MaxItemIndex - 1)
    BY <1>3, Bounds
  <2>2. (Wrp!IndexOf(i) - 1) % Wrp!MaxItemIndex = Wrp!MaxItemIndex - 1
    BY <1>1, <2>1, Bounds, ModUnique
  <2> QED BY <1>2, <1>3, <2>2 DEF Wrp!PreviousIndexStep
<1>4. CASE Wrp!IndexOf(i) # 0
  <2>1. Wrp!IndexOf(i) - 1 \in 0..Wrp!MaxItemIndex - 1
    BY <1>1, <1>4, Bounds
  <2>2. (Wrp!IndexOf(i) - 1) % Wrp!MaxItemIndex = Wrp!IndexOf(i) - 1
    BY <2>1, Bounds, ModSmall
  <2> QED BY <1>2, <1>4, <2>2 DEF Wrp!PreviousIndexStep
<1> QED BY <1>3, <1>4

\* Equal indices are of one entry.
LEMMA EntryOfIndex ==
    ASSUME NEW i \in Int
    PROVE  Wrp!IndexOf(i) % MaxItemsNum = i % MaxItemsNum
BY Bounds, ModMod DEF Wrp!IndexOf

\* An entry has the last of the items that go there: there is none within a table
\* behind it, and one behind any item it no longer has.
LEMMA EntryFacts ==
    ASSUME NEW s, Wrp!Items(s) \in Seq(Item), NEW p \in Int
    PROVE  /\ Wrp!EntryAt(s, p) # -1 => /\ Wrp!EntryAt(s, p) \in 0..Len(Wrp!Items(s)) - 1
                                        /\ Wrp!IndexOf(Wrp!EntryAt(s, p)) = p
                                        /\ Len(Wrp!Items(s)) - Wrp!EntryAt(s, p) <= MaxItemsNum
           /\ Wrp!EntryAt(s, p) = -1 =>
                \A j \in 0..Len(Wrp!Items(s)) - 1 : Wrp!IndexOf(j) = p => Len(Wrp!Items(s)) - j > MaxItemsNum
<1> DEFINE L == Len(Wrp!Items(s))
           N == MaxItemsNum
           here == {i \in 0..L - 1 : i % N = p % N}
           last == CHOOSE i \in here : \A j \in here : j <= i
           w == L - 1 - ((L - 1 - p) % N)
<1>0. Wrp!EntryAt(s, p) = IF here # {} /\ Wrp!IndexOf(last) = p THEN last ELSE -1
  BY DEF Wrp!EntryAt
<1>1. L \in Nat /\ N \in Nat \ {0} /\ p \in Int /\ L - 1 \in Int /\ L - 1 - p \in Int
  BY Bounds
<1>2. (L - 1 - p) % N \in 0..N - 1
  BY <1>1, ModRange
<1>3. w \in Int /\ w <= L - 1 /\ w > L - 1 - N
  BY <1>1, <1>2
<1>4. w % N = p % N
  <2>1. (L - 1 - ((L - 1 - p) % N)) % N = (L - 1 - (L - 1 - p)) % N
    BY <1>1, ModMinus
  <2>2. L - 1 - (L - 1 - p) = p
    BY <1>1
  <2> QED BY <2>1, <2>2
<1> HIDE DEF w
<1>5. \A j \in Int : j % N = p % N /\ j <= L - 1 => j <= w
  <2> SUFFICES ASSUME NEW j \in Int, j % N = p % N, j <= L - 1, j > w
               PROVE  FALSE
    BY <1>3
  <2>1. w < j /\ j - w < N
    BY <1>1, <1>3
  <2>2. w % N # j % N
    BY <1>1, <1>3, <2>1, ModClose
  <2> QED BY <1>4, <2>2
<1>6. CASE here = {}
  <2>1. Wrp!EntryAt(s, p) = -1
    BY <1>0, <1>6
  <2>2. \A j \in 0..L - 1 : Wrp!IndexOf(j) # p
    <3> SUFFICES ASSUME NEW j \in 0..L - 1, Wrp!IndexOf(j) = p PROVE FALSE
      OBVIOUS
    <3>1. j \in here
      BY EntryOfIndex
    <3> QED BY <1>6, <3>1
  <2> QED BY <2>1, <2>2
<1>7. CASE here # {}
  <2>1. PICK j0 \in here : TRUE
    BY <1>7
  <2>2. w \in here
    <3>1. j0 \in Int /\ j0 >= 0 /\ j0 <= L - 1 /\ j0 % N = p % N
      BY <1>1, <2>1
    <3>2. j0 <= w
      BY <1>5, <3>1
    <3>3. w \in 0..L - 1
      BY <1>1, <1>3, <3>1, <3>2
    <3> QED BY <1>4, <3>3
  <2>3. w \in here /\ \A j \in here : j <= w
    <3> SUFFICES ASSUME NEW j \in here PROVE j <= w
      BY <2>2
    <3>1. j \in Int /\ j <= L - 1 /\ j % N = p % N
      BY <1>1
    <3> QED BY <1>5, <3>1
  <2>4. last = w
    <3>1. last \in here /\ \A j \in here : j <= last
      BY <2>3
    <3> HIDE DEF last
    <3>2. last \in Int
      BY <1>1, <3>1
    <3> HIDE DEF here
    <3>3. last <= w /\ w <= last
      BY <2>3, <3>1
    <3> QED BY <1>3, <3>2, <3>3
  <2>5. Wrp!EntryAt(s, p) = IF Wrp!IndexOf(w) = p THEN w ELSE -1
    BY <1>0, <1>7, <2>4
  <2>6. w \in 0..L - 1
    BY <2>2
  <2>7. CASE Wrp!IndexOf(w) = p
    BY <1>1, <1>3, <2>5, <2>6, <2>7
  <2>8. CASE Wrp!IndexOf(w) # p
    <3> SUFFICES ASSUME NEW j \in 0..L - 1, Wrp!IndexOf(j) = p
                 PROVE  L - j > N
      BY <2>5, <2>6, <2>8
    <3>1. j % N = p % N /\ j \in Int
      BY EntryOfIndex
    <3>2. j <= w /\ j # w
      BY <1>5, <2>8, <3>1
    <3>3. ~(w - j < N)
      <4> SUFFICES ASSUME w - j < N PROVE FALSE
        OBVIOUS
      <4>1. j < w
        BY <1>3, <3>1, <3>2
      <4>2. j % N # w % N
        BY <1>1, <1>3, <3>1, <4>1, ModClose
      <4> QED BY <1>4, <3>1, <4>2
    <3> QED BY <1>1, <1>3, <3>1, <3>2, <3>3
  <2> QED BY <2>7, <2>8
<1> QED BY <1>6, <1>7

-----------------------------------------------------------------------------
(***************************************************************************)
(* The writer and those who end a memory: what is sent stays, and what is   *)
(* added is numbered behind all that was sent.                             *)
(***************************************************************************)

LEMMA Typed ==
    ASSUME WrapTypes
    PROVE  /\ wire.shms \in Seq(Shm) /\ Len(wire.shms) \in Nat /\ Len(Feed) \in Nat
           /\ wire.name \in 0..Len(wire.shms)
           /\ writer.shm \in 0..Len(wire.shms) /\ writer.sent \in 0..Len(Feed)
           /\ reader.shm \in 0..Len(wire.shms) /\ reader.pos \in Int /\ reader.from \in Nat
           /\ reader.next \in Int /\ reader.kind \in {"control", "tvulive"}
           /\ sent.looked \in Nat /\ sent.count \in Int /\ sent.want \in Nat
           /\ got.read \in Seq(Nat) /\ got.left \in Leave /\ got.search \in Search
           /\ got.left.shm \in 0..Len(wire.shms) /\ got.search.shm \in 0..Len(wire.shms)
<1>1. wire.shms \in Seq(Shm) /\ wire.name \in Nat
  BY DEF WrapTypes, Memories
<1>2. Len(wire.shms) \in Nat /\ Len(Feed) \in Nat
  BY <1>1, Bounds
<1>3. writer.shm \in 0..Len(wire.shms) /\ writer.sent \in 0..Len(Feed)
  BY <1>2 DEF WrapTypes, Writers
<1>4. /\ reader.shm \in 0..Len(wire.shms) /\ reader.pos \in Int /\ reader.from \in Nat
      /\ reader.next \in Int /\ reader.kind \in {"control", "tvulive"}
  BY <1>2 DEF WrapTypes, Readers
<1>5. sent.looked \in Nat /\ sent.count \in Int /\ sent.want \in Nat
  BY DEF WrapTypes, CallsOfReader
<1>6. got.read \in Seq(Nat) /\ got.left \in Leave /\ got.search \in Search
  BY DEF WrapTypes, Gots
<1>7. got.left.shm \in Nat /\ got.search.shm \in Nat
  BY <1>6 DEF Leave, Search
<1>8. got.left.shm \in 0..Len(wire.shms) /\ got.search.shm \in 0..Len(wire.shms)
  BY <1>2, <1>7 DEF WrapTypes
<1>9. wire.name \in 0..Len(wire.shms)
  BY <1>1, <1>2 DEF WrapTypes
<1> QED BY <1>1, <1>2, <1>3, <1>4, <1>5, <1>6, <1>8, <1>9

LEMMA ItemsType ==
    ASSUME WrapTypes, NEW s \in 1..Len(wire.shms)
    PROVE  /\ wire.shms[s] \in Shm
           /\ Wrp!Items(s) \in Seq(Item) /\ Len(Wrp!Items(s)) \in Nat
           /\ \A i \in 1..Len(Wrp!Items(s)) : /\ Wrp!Items(s)[i] \in Item
                                              /\ Wrp!Items(s)[i].n \in Nat /\ Wrp!Items(s)[i].m \in Nat
<1>1. wire.shms \in Seq(Shm)
  BY Typed
<1>2. wire.shms[s] \in Shm
  BY <1>1, ElementOfSeq
<1>3. Wrp!Items(s) \in Seq(Item)
  BY <1>2 DEF Wrp!Items, Shm
<1>4. \A i \in 1..Len(Wrp!Items(s)) : Wrp!Items(s)[i] \in Item
  BY <1>3, ElementOfSeq
<1> QED BY <1>2, <1>3, <1>4 DEF Item

Grown ==
  /\ Len(wire.shms) <= Len(wire'.shms) /\ writer.sent <= writer'.sent
  /\ \A s \in 1..Len(wire.shms) :
       /\ Len(Wrp!Items(s)) <= Len(wire'.shms[s].items)
       /\ \A i \in 1..Len(Wrp!Items(s)) : wire'.shms[s].items[i] = Wrp!Items(s)[i]
       /\ \A i \in Len(Wrp!Items(s)) + 1..Len(wire'.shms[s].items) :
            wire'.shms[s].items[i].n >= writer.sent

\* The handles of readers stay sound when memories grow.
LEMMA WriterHolds ==
    ASSUME WrapInv, WrapTypes', Numbered', Grown, UNCHANGED <<reader, sent, got>>
    PROVE  WrapInv'
<1>1. /\ WrapTypes /\ Numbered /\ ReaderAttached /\ Placed /\ ControlInv
      /\ Searching /\ Searched /\ Wrp!SearchEndsAtNewest
  BY DEF WrapInv
<1>2. /\ reader' = reader /\ sent' = sent /\ got' = got
      /\ Len(wire.shms) \in Nat /\ Len(wire'.shms) \in Nat
      /\ Len(wire.shms) <= Len(wire'.shms)
      /\ writer.sent \in Nat /\ writer'.sent \in Nat /\ writer.sent <= writer'.sent
      /\ reader.shm \in 0..Len(wire.shms) /\ reader.pos \in Int /\ reader.from \in Nat
      /\ sent.looked \in Nat /\ sent.count \in Int
      /\ got.read \in Seq(Nat) /\ got.left \in Leave /\ got.search \in Search
      /\ got.left.shm \in 0..Len(wire.shms) /\ got.search.shm \in 0..Len(wire.shms)
  <2>1. /\ wire.shms \in Seq(Shm) /\ wire'.shms \in Seq(Shm)
        /\ Len(wire.shms) \in Nat /\ Len(wire'.shms) \in Nat
        /\ writer.sent \in Nat /\ writer'.sent \in Nat
    BY <1>1 DEF WrapTypes, Memories, Writers
  <2> QED BY <1>1, <2>1, Typed DEF Grown
<1>3. ASSUME NEW s \in 1..Len(wire.shms)
      PROVE  /\ Len(Wrp!Items(s)) \in Nat /\ Len(Wrp!Items(s)') \in Nat /\ Len(Wrp!Items(s)) <= Len(Wrp!Items(s)')
             /\ \A i \in 1..Len(Wrp!Items(s)) : Wrp!Items(s)'[i] = Wrp!Items(s)[i]
             /\ \A i \in Len(Wrp!Items(s)) + 1..Len(Wrp!Items(s)') : Wrp!Items(s)'[i].n >= writer.sent
             /\ \A i \in 1..Len(Wrp!Items(s)) : Wrp!Items(s)[i].n \in Nat
             /\ \A i \in 1..Len(Wrp!Items(s)') : Wrp!Items(s)'[i].n \in Nat
  <2>1. s \in 1..Len(wire'.shms)
    BY <1>2
  <2>2. /\ Len(Wrp!Items(s)) \in Nat
        /\ \A i \in 1..Len(Wrp!Items(s)) : Wrp!Items(s)[i].n \in Nat
    BY <1>1, ItemsType
  <2>3. /\ Len(Wrp!Items(s)') \in Nat
        /\ \A i \in 1..Len(Wrp!Items(s)') : Wrp!Items(s)'[i].n \in Nat
    <3>1. wire'.shms[s] \in Shm
      <4>1. wire'.shms \in Seq(Shm)
        BY DEF WrapTypes, Memories
      <4> QED BY <2>1, <4>1, ElementOfSeq
    <3>2. Wrp!Items(s)' \in Seq(Item)
      BY <3>1 DEF Wrp!Items, Shm
    <3>3. \A i \in 1..Len(Wrp!Items(s)') : Wrp!Items(s)'[i] \in Item
      BY <3>2, ElementOfSeq
    <3> QED BY <3>2, <3>3 DEF Item
  <2> QED BY <2>2, <2>3 DEF Grown, Wrp!Items
<1>4. ReaderAttached'
  BY <1>1, <1>2 DEF ReaderAttached
<1>5. Placed'
  <2> SUFFICES ASSUME reader.kind = "control", reader.shm # 0
               PROVE  /\ reader.from <= reader.pos /\ reader.pos <= Len(Wrp!Items(reader.shm)')
                      /\ reader.next = Wrp!IndexOf(reader.pos)
                      /\ sent.step = "take" => reader.pos < Len(Wrp!Items(reader.shm)')
                      /\ sent.step = "flag" =>
                           reader.pos <= sent.looked /\ Wrp!IndexOf(reader.pos) = Wrp!IndexOf(sent.looked)
    BY <1>2 DEF Placed, Wrp!Items, Wrp!IndexOf, Wrp!MaxItemIndex
  <2>1. reader.shm \in 1..Len(wire.shms)
    BY <1>2
  <2>2. Len(Wrp!Items(reader.shm)) \in Nat /\ Len(Wrp!Items(reader.shm)') \in Nat
        /\ Len(Wrp!Items(reader.shm)) <= Len(Wrp!Items(reader.shm)')
    BY <1>3, <2>1, <1>2 DEF Wrp!Items
  <2> QED BY <1>1, <1>2, <2>2 DEF Placed
<1>6. ASSUME reader.kind = "control" PROVE ReadInOrder'
  <2>1. ReadInOrder
    BY <1>1, <1>6 DEF ControlInv
  <2>2. \A k \in 1..Len(got.read) : got.read[k] \in Nat
    BY <1>2, ElementOfSeq
  <2>3. Wrp!Ascending(got.read)' /\ \A k \in 1..Len(got.read) : got.read[k] < writer'.sent
    BY <1>2, <2>1, <2>2 DEF ReadInOrder, Wrp!Ascending
  <2>4. ASSUME reader.shm # 0, NEW k \in 1..Len(got.read),
               NEW i \in reader.pos..Len(wire'.shms[reader.shm].items) - 1
        PROVE  got.read[k] < wire'.shms[reader.shm].items[i + 1].n
    <3>1. PICK s \in 1..Len(wire.shms) : s = reader.shm
      BY <1>2, <2>4
    <3>2. /\ Len(Wrp!Items(s)) \in Nat /\ Len(Wrp!Items(s)') \in Nat
          /\ \A j \in 1..Len(Wrp!Items(s)) : Wrp!Items(s)'[j] = Wrp!Items(s)[j]
          /\ \A j \in Len(Wrp!Items(s)) + 1..Len(Wrp!Items(s)') : Wrp!Items(s)'[j].n >= writer.sent
          /\ \A j \in 1..Len(Wrp!Items(s)') : Wrp!Items(s)'[j].n \in Nat
      BY <1>3
    <3>3. 0 <= reader.pos
      BY <1>1, <1>2, <1>6, <2>4 DEF Placed
    <3>4. i \in Int /\ 0 <= i /\ reader.pos <= i /\ i + 1 <= Len(Wrp!Items(s)')
      BY <1>2, <3>1, <3>2, <3>3 DEF Wrp!Items
    <3>5. CASE i + 1 <= Len(Wrp!Items(s))
      <4>1. i \in reader.pos..Len(Wrp!Items(s)) - 1
        BY <1>2, <3>2, <3>4, <3>5
      <4>2. got.read[k] < Wrp!Items(s)[i + 1].n
        BY <2>1, <2>4, <3>1, <4>1 DEF ReadInOrder
      <4>3. Wrp!Items(s)'[i + 1] = Wrp!Items(s)[i + 1]
        BY <3>2, <3>4, <3>5
      <4> QED BY <3>1, <4>2, <4>3 DEF Wrp!Items
    <3>6. CASE i + 1 > Len(Wrp!Items(s))
      <4>1. got.read[k] < writer.sent
        BY <2>1 DEF ReadInOrder
      <4>2. Wrp!Items(s)'[i + 1].n >= writer.sent /\ Wrp!Items(s)'[i + 1].n \in Nat
        BY <3>2, <3>4, <3>6
      <4>3. PICK r \in Nat, n \in Nat : r = got.read[k] /\ n = Wrp!Items(s)'[i + 1].n
        BY <2>2, <4>2
      <4>4. PICK u \in Nat : u = writer.sent
        BY <1>2
      <4>5. r < u
        BY <4>1, <4>3, <4>4
      <4>6. u <= n
        BY <4>2, <4>3, <4>4
      <4>7. r < n
        BY <4>5, <4>6
      <4> QED BY <3>1, <4>3, <4>7 DEF Wrp!Items
    <3> QED BY <3>2, <3>4, <3>5, <3>6
  <2> QED BY <1>2, <2>3, <2>4 DEF ReadInOrder, Wrp!Items
<1>7. ASSUME NEW s \in 1..Len(wire.shms), NEW from \in Nat, NEW pos \in Int,
             pos <= Len(Wrp!Items(s)), Arrived(s, from, pos)
      PROVE  Arrived(s, from, pos)'
  <2> SUFFICES ASSUME NEW i \in from..pos - 1, Wrp!Items(s)'[i + 1].m # 0
               PROVE  Wrp!Items(s)'[i + 1].n \in Wrp!Range(got.read)
    BY <1>2 DEF Arrived, Wrp!Items
  <2>1. i + 1 \in 1..Len(Wrp!Items(s))
    BY <1>3, <1>7
  <2>2. Wrp!Items(s)'[i + 1] = Wrp!Items(s)[i + 1]
    BY <1>3, <2>1
  <2> QED BY <1>7, <2>2 DEF Arrived
<1>8. ASSUME reader.kind = "control" PROVE LeftRead'
  <2> SUFFICES ASSUME got.left.shm # 0
               PROVE  /\ got.left.pos <= Len(Wrp!Items(got.left.shm)')
                      /\ got.left.looked - got.left.pos < Wrp!MaxItemIndex => got.left.looked = got.left.pos
                      /\ Arrived(got.left.shm, got.left.from, got.left.pos)'
    BY <1>2 DEF LeftRead, Wrp!Items, Wrp!MaxItemIndex
  <2> DEFINE s == got.left.shm
  <2>1. s \in 1..Len(wire.shms) /\ got.left.from \in Nat /\ got.left.pos \in Int
    BY <1>2 DEF Leave
  <2>2. /\ got.left.pos <= Len(Wrp!Items(s))
        /\ got.left.looked - got.left.pos < Wrp!MaxItemIndex => got.left.looked = got.left.pos
        /\ Arrived(s, got.left.from, got.left.pos)
    BY <1>1, <1>8 DEF ControlInv, LeftRead
  <2>3. Arrived(s, got.left.from, got.left.pos)'
    <3>1. PICK t, from, pos : t = s /\ from = got.left.from /\ pos = got.left.pos
      OBVIOUS
    <3>2. Arrived(t, from, pos)'
      BY <1>7, <2>1, <2>2, <3>1
    <3> QED BY <1>2, <3>1, <3>2 DEF Arrived, Wrp!Items
  <2>4. Len(Wrp!Items(s)) <= Len(Wrp!Items(s)') /\ Len(Wrp!Items(s)) \in Nat /\ Len(Wrp!Items(s)') \in Nat
    BY <1>2, <1>3, <2>1 DEF Wrp!Items
  <2> QED BY <2>1, <2>2, <2>3, <2>4
<1>9. ControlInv'
  <2> SUFFICES ASSUME reader.kind = "control", reader.shm # 0
               PROVE  Arrived(reader.shm, reader.from, reader.pos)'
    BY <1>2, <1>6, <1>8 DEF ControlInv
  <2>1. PICK t, from, pos : t = reader.shm /\ from = reader.from /\ pos = reader.pos
    OBVIOUS
  <2>2. t \in 1..Len(wire.shms) /\ pos <= Len(Wrp!Items(t)) /\ Arrived(t, from, pos)
    BY <1>1, <1>2, <2>1 DEF ControlInv, Placed
  <2>3. Arrived(t, from, pos)'
    BY <1>2, <1>7, <2>1, <2>2
  <2> QED BY <1>2, <2>1, <2>3 DEF Arrived, Wrp!Items
<1>10. Searching'
  <2> SUFFICES ASSUME sent.step = "search" PROVE Searching'
    BY <1>2 DEF Searching
  <2> DEFINE s == reader.shm
  <2>1. s \in 1..Len(wire.shms)
    BY <1>1, <1>2 DEF ReaderAttached
  <2>2. /\ Len(Wrp!Items(s)) \in Nat /\ Len(Wrp!Items(s)') \in Nat /\ Len(Wrp!Items(s)) <= Len(Wrp!Items(s)')
        /\ \A j \in 1..Len(Wrp!Items(s)) : Wrp!Items(s)'[j] = Wrp!Items(s)[j]
    BY <1>2, <1>3, <2>1 DEF Wrp!Items
  <2>3. /\ sent.count \in 0..MaxItemsNum - 1
        /\ sent.looked <= Len(Wrp!Items(s))
        /\ sent.windex = Wrp!IndexOf(sent.looked)
        /\ sent.at = Wrp!IndexOf(sent.looked - MaxItemsNum + sent.count)
    BY <1>1 DEF Searching
  <2>4. ASSUME NEW i \in 0..sent.looked - 1, i > sent.looked - MaxItemsNum + sent.count,
               Wrp!Items(s)'[i + 1].m = sent.want
        PROVE  Len(Wrp!Items(s)') - i >= MaxItemsNum
    <3>1. i + 1 \in 1..Len(Wrp!Items(s))
      BY <1>2, <2>2, <2>3
    <3>2. Len(Wrp!Items(s)) - i >= MaxItemsNum
      BY <1>1, <2>2, <2>4, <3>1 DEF Searching
    <3> QED BY <2>2, <3>2, Bounds
  <2>5. sent'.looked <= Len(Wrp!Items(s)')
    BY <1>2, <2>2, <2>3
  <2> QED BY <1>2, <2>3, <2>4, <2>5 DEF Searching, Wrp!Items, Wrp!IndexOf, Wrp!MaxItemIndex
<1>11. Searched' /\ Wrp!SearchEndsAtNewest'
  <2> SUFFICES ASSUME got.search.shm # 0 PROVE Searched' /\ Wrp!SearchEndsAtNewest'
    BY <1>2 DEF Searched, Wrp!SearchEndsAtNewest
  <2> DEFINE s == got.search.shm
  <2>1. s \in 1..Len(wire.shms) /\ got.search.looked \in Nat
    BY <1>2 DEF Search
  <2>2. /\ Len(Wrp!Items(s)) \in Nat /\ Len(Wrp!Items(s)') \in Nat /\ Len(Wrp!Items(s)) <= Len(Wrp!Items(s)')
        /\ \A j \in 1..Len(Wrp!Items(s)) : Wrp!Items(s)'[j] = Wrp!Items(s)[j]
    BY <1>2, <1>3, <2>1 DEF Wrp!Items
  <2>3. /\ got.search.looked <= Len(Wrp!Items(s))
        /\ got.search.hit => got.search.i \in 0..Len(Wrp!Items(s)) - 1
        /\ reader.shm = s
    BY <1>1 DEF Searched
  <2>4. Searched'
    <3>1. got.search.hit => got.search.i \in 0..Len(Wrp!Items(s)') - 1
      BY <2>2, <2>3
    <3>2. got.search.looked <= Len(Wrp!Items(s)')
      BY <2>1, <2>2, <2>3
    <3> QED BY <1>2, <2>3, <3>1, <3>2 DEF Searched, Wrp!Items
  <2>5. \A i \in 0..Len(Wrp!Items(s)) - 1 : Wrp!Items(s)'[i + 1].m = Wrp!Items(s)[i + 1].m
    BY <2>2
  <2>6. \A i \in 0..got.search.looked - 1 : i \in 0..Len(Wrp!Items(s)) - 1
    BY <2>1, <2>2, <2>3
  <2>7. Wrp!SearchEndsAtNewest'
    BY <1>1, <1>2, <2>3, <2>5, <2>6 DEF Wrp!SearchEndsAtNewest, Wrp!Items, Wrp!IndexOf, Wrp!MaxItemIndex
  <2> QED BY <2>4, <2>7
<1> QED BY <1>4, <1>5, <1>9, <1>10, <1>11 DEF WrapInv

\* A close flag is set or cleared, the name goes: no item is touched.
LEMMA SameItems ==
    ASSUME WrapTypes, Numbered, wire'.shms \in Seq(Shm), Len(wire'.shms) = Len(wire.shms),
           \A t \in 1..Len(wire.shms) : wire'.shms[t].items = wire.shms[t].items,
           writer'.sent = writer.sent
    PROVE  Numbered' /\ Grown
<1>1. \A t \in 1..Len(wire.shms) : Wrp!Items(t)' = Wrp!Items(t)
  BY DEF Wrp!Items
<1>2. Numbered'
  BY <1>1 DEF Numbered
<1>3. Len(wire.shms) \in Nat /\ writer.sent \in Nat
  BY Typed
<1>4. \A t \in 1..Len(wire.shms) : Len(Wrp!Items(t)) \in Nat
  BY ItemsType
<1>5. Grown
  BY <1>1, <1>3, <1>4 DEF Grown, Wrp!Items
<1> QED BY <1>2, <1>5

LEMMA FlagSet ==
    ASSUME WrapTypes, NEW s \in 1..Len(wire.shms), NEW b \in BOOLEAN,
           wire'.shms = [wire.shms EXCEPT ![s] = [wire.shms[s] EXCEPT !.closed = b]]
    PROVE  /\ wire'.shms \in Seq(Shm) /\ Len(wire'.shms) = Len(wire.shms)
           /\ \A t \in 1..Len(wire.shms) : wire'.shms[t].items = wire.shms[t].items
<1> DEFINE x == [wire.shms[s] EXCEPT !.closed = b]
<1>1. wire.shms[s] \in Shm
  BY ItemsType
<1>2. x \in Shm /\ x.items = wire.shms[s].items
  BY <1>1 DEF Shm
<1>3. wire.shms \in Seq(Shm)
  BY Typed
<1> HIDE DEF x
<1> QED BY <1>2, <1>3, ExceptSeq DEF x

LEMMA WriterTypes ==
    ASSUME WrapTypes, UNCHANGED <<reader, sent, got>>, wire' \in Memories, writer' \in Writers,
           Len(wire.shms) <= Len(wire'.shms), wire'.name <= Len(wire'.shms),
           writer'.shm <= Len(wire'.shms), writer'.sent <= Len(Feed)
    PROVE  WrapTypes'
<1>1. Len(wire.shms) \in Nat /\ Len(wire'.shms) \in Nat
  BY Typed DEF Memories
<1>2. reader'.shm <= Len(wire'.shms)
  BY <1>1, Typed
<1>3. got'.left.shm <= Len(wire'.shms) /\ got'.search.shm <= Len(wire'.shms)
  BY <1>1, Typed
<1>4. reader' \in Readers /\ sent' \in CallsOfReader /\ got' \in Gots
  BY DEF WrapTypes
<1> QED BY <1>2, <1>3, <1>4 DEF WrapTypes

LEMMA CreateStep == WrapInv /\ Wrp!Create => WrapInv'
<1> SUFFICES ASSUME WrapInv, Wrp!Create PROVE WrapInv'
  OBVIOUS
<1>1. WrapTypes /\ Numbered
  BY DEF WrapInv
<1>2. writer.shm = 0 /\ UNCHANGED <<reader, sent, got>>
  BY DEF Wrp!Create
<1>3. /\ wire.shms \in Seq(Shm) /\ Len(wire.shms) \in Nat /\ wire.name \in 0..Len(wire.shms)
      /\ writer.sent <= Len(Feed) /\ writer \in Writers /\ wire \in Memories
  BY <1>1, Typed DEF WrapTypes
<1>4. CASE wire.name # 0
  <2>1. /\ writer' = [writer EXCEPT !.shm = wire.name]
        /\ wire' = [wire EXCEPT !.shms = [wire.shms EXCEPT ![wire.name] =
                                                [wire.shms[wire.name] EXCEPT !.closed = FALSE]]]
    BY <1>4 DEF Wrp!Create
  <2>2. /\ wire'.shms = [wire.shms EXCEPT ![wire.name] =
                             [wire.shms[wire.name] EXCEPT !.closed = FALSE]]
        /\ wire'.name = wire.name /\ writer'.sent = writer.sent
    BY <1>3, <2>1 DEF Memories, Writers
  <2>3. /\ wire'.shms \in Seq(Shm) /\ Len(wire'.shms) = Len(wire.shms)
        /\ \A t \in 1..Len(wire.shms) : wire'.shms[t].items = wire.shms[t].items
    <3>1. wire.name \in 1..Len(wire.shms) /\ FALSE \in BOOLEAN
      BY <1>3, <1>4
    <3> QED BY <1>1, <2>2, <3>1, FlagSet
  <2>4. WrapTypes'
    <3>1. wire' \in Memories /\ writer' \in Writers /\ writer'.shm = wire.name
      BY <1>3, <2>1, <2>3 DEF Memories, Writers
    <3> QED BY <1>1, <1>2, <1>3, <2>2, <2>3, <3>1, WriterTypes
  <2>5. Numbered' /\ Grown
    BY <1>1, <2>2, <2>3, SameItems
  <2> QED BY <1>2, <2>4, <2>5, WriterHolds
<1>5. CASE wire.name = 0
  <2> DEFINE n == Len(wire.shms) + 1
             x == [items |-> <<>>, closed |-> FALSE]
  <2>1. /\ writer' = [writer EXCEPT !.shm = n]
        /\ wire' = [wire EXCEPT !.shms = Append(wire.shms, x), !.name = n]
    BY <1>5 DEF Wrp!Create
  <2>2. x \in Shm /\ x.items = <<>>
    BY EmptySeq DEF Shm
  <2> HIDE DEF x
  <2>3. /\ wire'.shms = Append(wire.shms, x) /\ wire'.name = n
        /\ writer'.sent = writer.sent
    BY <1>3, <2>1 DEF Memories, Writers
  <2>4. /\ wire'.shms \in Seq(Shm) /\ Len(wire'.shms) = n
        /\ \A t \in 1..Len(wire.shms) : wire'.shms[t] = wire.shms[t]
        /\ wire'.shms[n] = x
    BY <1>3, <2>2, <2>3, AppendProperties
  <2>5. WrapTypes'
    <3>1. wire' \in Memories /\ writer' \in Writers /\ writer'.shm = n
      <4>1. n \in Nat
        BY <1>3
      <4> HIDE DEF n
      <4>2. writer' \in Writers /\ writer'.shm = n
        BY <1>3, <2>1, <4>1 DEF Writers
      <4>3. wire' \in Memories
        BY <1>3, <2>1, <2>3, <2>4, <4>1 DEF Memories
      <4> QED BY <4>2, <4>3
    <3> QED BY <1>1, <1>2, <1>3, <2>3, <2>4, <3>1, WriterTypes
  <2>6. \A t \in 1..Len(wire.shms) : Wrp!Items(t)' = Wrp!Items(t)
    BY <2>4 DEF Wrp!Items
  <2>7. wire'.shms[n].items = <<>>
    BY <2>2, <2>4
  <2>8. Numbered'
    <3> SUFFICES ASSUME NEW s \in 1..n, NEW i \in 1..Len(Wrp!Items(s)')
                 PROVE  /\ Wrp!Items(s)'[i].n < writer.sent
                        /\ \A j \in 1..i - 1 : Wrp!Items(s)'[j].n < Wrp!Items(s)'[i].n
      BY <2>3, <2>4 DEF Numbered
    <3>1. CASE s = n
      <4>1. Wrp!Items(s)' = <<>>
        BY <2>7, <3>1 DEF Wrp!Items
      <4> QED BY <4>1
    <3>2. CASE s # n
      BY <1>1, <1>3, <2>6, <3>2 DEF Numbered
    <3> QED BY <3>1, <3>2
  <2>9. Grown
    <3>1. \A t \in 1..Len(wire.shms) : Len(Wrp!Items(t)) \in Nat
      BY <1>1, ItemsType
    <3>2. writer.sent \in Nat
      BY <1>1, Typed
    <3> QED BY <1>3, <2>3, <2>4, <3>1, <3>2 DEF Grown, Wrp!Items
  <2> QED BY <1>2, <2>5, <2>8, <2>9, WriterHolds
<1> QED BY <1>4, <1>5

LEMMA WriteStep == WrapInv /\ Wrp!Write => WrapInv'
<1> SUFFICES ASSUME WrapInv, Wrp!Write PROVE WrapInv'
  OBVIOUS
<1>1. WrapTypes /\ Numbered
  BY DEF WrapInv
<1> DEFINE w == writer.shm
           x == [wire.shms[w] EXCEPT !.items = Append(Wrp!Items(w), Wrp!Sent)]
<1>2. /\ w \in 1..Len(wire.shms) /\ writer.sent \in Nat /\ writer.sent < Len(Feed)
      /\ wire.shms \in Seq(Shm) /\ Len(wire.shms) \in Nat /\ Len(Feed) \in Nat
  <2>1. w # 0 /\ writer.sent < Len(Feed)
    BY DEF Wrp!Write
  <2> QED BY <1>1, <2>1, Typed
<1>3. /\ wire' = [wire EXCEPT !.shms = [wire.shms EXCEPT ![w] = x]]
      /\ writer' = [writer EXCEPT !.sent = @ + 1] /\ UNCHANGED <<reader, sent, got>>
  BY DEF Wrp!Write, Wrp!Items
<1>4. Wrp!Sent \in Item /\ Wrp!Sent.n = writer.sent
  <2>1. Feed[writer.sent + 1] \in Nat
    BY <1>2, Bounds, ElementOfSeq
  <2> QED BY <1>2, <2>1 DEF Wrp!Sent, Item
<1>5. wire.shms[w] \in Shm /\ Wrp!Items(w) \in Seq(Item) /\ Len(Wrp!Items(w)) \in Nat
  BY <1>1, <1>2, ItemsType
<1>6. /\ Append(Wrp!Items(w), Wrp!Sent) \in Seq(Item) /\ Len(Append(Wrp!Items(w), Wrp!Sent)) = Len(Wrp!Items(w)) + 1
      /\ \A i \in 1..Len(Wrp!Items(w)) : Append(Wrp!Items(w), Wrp!Sent)[i] = Wrp!Items(w)[i]
      /\ Append(Wrp!Items(w), Wrp!Sent)[Len(Wrp!Items(w)) + 1] = Wrp!Sent
  BY <1>4, <1>5, AppendProperties
<1>7. x \in Shm /\ x.items = Append(Wrp!Items(w), Wrp!Sent)
  BY <1>5, <1>6 DEF Shm
<1> HIDE DEF x
<1>8. /\ wire'.shms = [wire.shms EXCEPT ![w] = x] /\ wire'.name = wire.name
      /\ writer'.sent = writer.sent + 1
  BY <1>1, <1>3 DEF WrapTypes, Memories, Writers
<1>9. /\ wire'.shms \in Seq(Shm) /\ Len(wire'.shms) = Len(wire.shms)
      /\ \A t \in 1..Len(wire.shms) : wire'.shms[t] = IF t = w THEN x ELSE wire.shms[t]
  BY <1>2, <1>7, <1>8, ExceptSeq
<1>10. WrapTypes'
  <2>1. wire' \in Memories /\ writer' \in Writers /\ writer'.shm = w
    <3>1. writer \in Writers /\ wire \in Memories
      BY <1>1 DEF WrapTypes
    <3>2. writer.sent + 1 \in Nat /\ writer' = [writer EXCEPT !.sent = writer.sent + 1]
      BY <1>2, <1>3
    <3>3. writer' \in Writers /\ writer'.shm = w
      BY <3>1, <3>2 DEF Writers
    <3>4. wire' \in Memories
      BY <1>3, <1>8, <1>9, <3>1 DEF Memories
    <3> QED BY <3>3, <3>4
  <2>2. wire.name <= Len(wire'.shms) /\ w <= Len(wire'.shms) /\ writer.sent + 1 <= Len(Feed)
    BY <1>1, <1>2, <1>9, Typed
  <2> QED BY <1>1, <1>2, <1>3, <1>8, <1>9, <2>1, <2>2, WriterTypes
<1>11. \A t \in 1..Len(wire.shms) : wire'.shms[t].items =
                                       IF t = w THEN Append(Wrp!Items(w), Wrp!Sent) ELSE Wrp!Items(t)
  BY <1>7, <1>9 DEF Wrp!Items
<1>12. \A t \in 1..Len(wire.shms) :
         /\ Len(Wrp!Items(t)) \in Nat /\ \A i \in 1..Len(Wrp!Items(t)) : Wrp!Items(t)[i].n \in Nat
  BY <1>1, ItemsType
<1>13. Numbered'
  <2> SUFFICES ASSUME NEW s \in 1..Len(wire.shms), NEW i \in 1..Len(Wrp!Items(s)')
               PROVE  /\ Wrp!Items(s)'[i].n < writer'.sent
                      /\ \A j \in 1..i - 1 : Wrp!Items(s)'[j].n < Wrp!Items(s)'[i].n
    BY <1>9 DEF Numbered
  <2>1. \A j \in 1..Len(Wrp!Items(s)) : Wrp!Items(s)[j].n < writer.sent /\ Wrp!Items(s)[j].n \in Nat
    BY <1>1, <1>12 DEF Numbered
  <2>2. CASE i \in 1..Len(Wrp!Items(s))
    <3>1. Wrp!Items(s)'[i] = Wrp!Items(s)[i] /\ \A j \in 1..i - 1 : Wrp!Items(s)'[j] = Wrp!Items(s)[j]
      <4>1. Wrp!Items(s)' = IF s = w THEN Append(Wrp!Items(w), Wrp!Sent) ELSE Wrp!Items(s)
        BY <1>11 DEF Wrp!Items
      <4>2. \A j \in 1..i : j \in 1..Len(Wrp!Items(s))
        BY <1>12, <2>2
      <4> QED BY <1>6, <2>2, <4>1, <4>2
    <3> QED BY <1>1, <1>2, <1>8, <2>1, <2>2, <3>1 DEF Numbered
  <2>3. CASE i \notin 1..Len(Wrp!Items(s))
    <3>1. Wrp!Items(s)' = IF s = w THEN Append(Wrp!Items(w), Wrp!Sent) ELSE Wrp!Items(s)
      BY <1>11 DEF Wrp!Items
    <3>2. s = w /\ i = Len(Wrp!Items(w)) + 1
      BY <1>5, <1>6, <2>3, <3>1
    <3>3. Wrp!Items(s)'[i].n = writer.sent /\ \A j \in 1..i - 1 : Wrp!Items(s)'[j] = Wrp!Items(s)[j]
      BY <1>4, <1>5, <1>6, <3>1, <3>2
    <3>4. Wrp!Items(s)'[i].n < writer'.sent
      BY <1>2, <1>8, <3>3
    <3>5. ASSUME NEW j \in 1..i - 1 PROVE Wrp!Items(s)'[j].n < Wrp!Items(s)'[i].n
      <4>1. j \in 1..Len(Wrp!Items(s))
        BY <1>5, <3>2
      <4>2. Wrp!Items(s)[j].n < writer.sent
        BY <2>1, <4>1
      <4>3. Wrp!Items(s)'[j] = Wrp!Items(s)[j]
        BY <3>3
      <4> QED BY <3>3, <4>2, <4>3
    <3> QED BY <3>4, <3>5
  <2> QED BY <2>2, <2>3
<1>14. Grown
  <2> SUFFICES ASSUME NEW s \in 1..Len(wire.shms)
               PROVE  /\ Len(Wrp!Items(s)) <= Len(wire'.shms[s].items)
                      /\ \A i \in 1..Len(Wrp!Items(s)) : wire'.shms[s].items[i] = Wrp!Items(s)[i]
                      /\ \A i \in Len(Wrp!Items(s)) + 1..Len(wire'.shms[s].items) :
                           wire'.shms[s].items[i].n >= writer.sent
    BY <1>2, <1>8, <1>9 DEF Grown
  <2>1. CASE s = w
    <3>1. wire'.shms[s].items = Append(Wrp!Items(s), Wrp!Sent)
      BY <1>11, <2>1
    <3>2. \A i \in Len(Wrp!Items(s)) + 1..Len(Append(Wrp!Items(s), Wrp!Sent)) : i = Len(Wrp!Items(s)) + 1
      BY <1>5, <1>6, <2>1
    <3> QED BY <1>2, <1>4, <1>5, <1>6, <2>1, <3>1, <3>2
  <2>2. CASE s # w
    BY <1>11, <1>12, <2>2
  <2> QED BY <2>1, <2>2
<1> QED BY <1>3, <1>10, <1>13, <1>14, WriterHolds

LEMMA DestroyStep == WrapInv /\ Wrp!Destroy => WrapInv'
<1> SUFFICES ASSUME WrapInv, Wrp!Destroy PROVE WrapInv'
  OBVIOUS
<1>1. WrapTypes /\ Numbered
  BY DEF WrapInv
<1> DEFINE w == writer.shm
<1>2. /\ w \in 1..Len(wire.shms)
      /\ wire' = [wire EXCEPT !.shms = [wire.shms EXCEPT ![w] =
                                              [wire.shms[w] EXCEPT !.closed = TRUE]]]
      /\ writer' = [writer EXCEPT !.leaving = TRUE, !.ends = @ + 1]
      /\ UNCHANGED <<reader, sent, got>>
  BY <1>1, Typed DEF Wrp!Destroy
<1>3. /\ wire'.shms = [wire.shms EXCEPT ![w] = [wire.shms[w] EXCEPT !.closed = TRUE]]
      /\ wire'.name = wire.name /\ writer'.sent = writer.sent
  BY <1>1, <1>2 DEF WrapTypes, Memories, Writers
<1>4. /\ wire'.shms \in Seq(Shm) /\ Len(wire'.shms) = Len(wire.shms)
      /\ \A t \in 1..Len(wire.shms) : wire'.shms[t].items = wire.shms[t].items
  BY <1>1, <1>2, <1>3, FlagSet
<1>5. WrapTypes'
  <2>1. wire' \in Memories /\ writer' \in Writers /\ writer'.shm = w
    <3>1. writer \in Writers /\ wire \in Memories
      BY <1>1 DEF WrapTypes
    <3>2. writer.ends + 1 \in Nat
      BY <3>1 DEF Writers
    <3>3. writer' = [writer EXCEPT !.leaving = TRUE, !.ends = writer.ends + 1]
      BY <1>2
    <3>4. writer' \in Writers /\ writer'.shm = w
      BY <3>1, <3>2, <3>3 DEF Writers
    <3>5. wire' \in Memories
      BY <1>2, <1>3, <1>4, <3>1 DEF Memories
    <3> QED BY <3>4, <3>5
  <2> QED BY <1>1, <1>2, <1>3, <1>4, <2>1, Typed, WriterTypes
<1>6. Numbered' /\ Grown
  BY <1>1, <1>3, <1>4, SameItems
<1> QED BY <1>2, <1>5, <1>6, WriterHolds

LEMMA EndStep == WrapInv /\ (Wrp!Unlink \/ Wrp!Die \/ Wrp!RemoveShm) => WrapInv'
<1> SUFFICES ASSUME WrapInv, Wrp!Unlink \/ Wrp!Die \/ Wrp!RemoveShm PROVE WrapInv'
  OBVIOUS
<1>1. WrapTypes /\ Numbered
  BY DEF WrapInv
<1>2. /\ wire'.shms = wire.shms /\ writer'.sent = writer.sent
      /\ UNCHANGED <<reader, sent, got>>
  BY <1>1 DEF Wrp!Unlink, Wrp!Die, Wrp!RemoveShm, WrapTypes, Memories, Writers
<1>3. WrapTypes'
  <2>1. /\ Len(wire.shms) \in Nat /\ wire.name <= Len(wire.shms)
        /\ writer.shm <= Len(wire.shms) /\ 0 <= Len(wire.shms) /\ writer.sent <= Len(Feed)
        /\ wire \in Memories /\ writer \in Writers
    BY <1>1, Typed DEF WrapTypes
  <2>2. CASE Wrp!Unlink
    <3>1. /\ wire' \in Memories /\ writer' \in Writers
          /\ wire'.name <= Len(wire.shms) /\ writer'.shm <= Len(wire.shms)
      BY <2>1, <2>2 DEF Wrp!Unlink, Memories, Writers
    <3> QED BY <1>1, <1>2, <2>1, <3>1, WriterTypes
  <2>3. CASE Wrp!Die
    <3>1. /\ wire' \in Memories /\ writer' \in Writers
          /\ wire'.name <= Len(wire.shms) /\ writer'.shm <= Len(wire.shms)
      <4>1. writer.ends + 1 \in Nat
        BY <2>1 DEF Writers
      <4>2. /\ writer' = [writer EXCEPT !.shm = 0, !.leaving = FALSE, !.ends = writer.ends + 1]
            /\ wire' = wire
        BY <2>3 DEF Wrp!Die
      <4>3. writer' \in Writers /\ writer'.shm = 0
        BY <2>1, <4>1, <4>2 DEF Writers
      <4> QED BY <2>1, <4>2, <4>3
    <3> QED BY <1>1, <1>2, <2>1, <3>1, WriterTypes
  <2>4. CASE Wrp!RemoveShm
    <3>1. /\ wire' \in Memories /\ writer' \in Writers
          /\ wire'.name <= Len(wire.shms) /\ writer'.shm <= Len(wire.shms)
      BY <2>1, <2>4 DEF Wrp!RemoveShm, Memories, Writers
    <3> QED BY <1>1, <1>2, <2>1, <3>1, WriterTypes
  <2> QED BY <2>2, <2>3, <2>4
<1>4. Numbered' /\ Grown
  <2>1. wire.shms \in Seq(Shm)
    BY <1>1, Typed
  <2> QED BY <1>1, <1>2, <2>1, SameItems
<1> QED BY <1>2, <1>3, <1>4, WriterHolds

-----------------------------------------------------------------------------
(***************************************************************************)
(* The reader.  No step of it touches the memories or the writer.          *)
(***************************************************************************)

LEMMA ReaderTypes ==
    ASSUME WrapTypes, UNCHANGED <<wire, writer>>, reader' \in Readers, sent' \in CallsOfReader,
           got' \in Gots, reader'.shm <= Len(wire.shms),
           got'.left.shm <= Len(wire.shms), got'.search.shm <= Len(wire.shms)
    PROVE  WrapTypes'
BY DEF WrapTypes

LEMMA CallTypes ==
  /\ Wrp!NoLeave \in Leave /\ Wrp!NoSearch \in Search
  /\ Wrp!Idle \in CallsOfReader /\ [Wrp!Idle EXCEPT !.step = "look"] \in CallsOfReader
BY DEF Wrp!NoLeave, Wrp!NoSearch, Leave, Search, Wrp!Idle, CallsOfReader

LEMMA Still ==
    ASSUME Numbered, UNCHANGED <<wire, writer>>
    PROVE  Numbered' /\ \A s : Wrp!Items(s)' = Wrp!Items(s)
BY DEF Numbered, Wrp!Items

\* Opening: the reader starts behind everything.
LEMMA OpenedHolds ==
    ASSUME WrapInv, UNCHANGED <<wire, writer>>, wire.name # 0,
           reader' = [Wrp!Opened(wire.name) EXCEPT !.made = TRUE],
           sent' \in CallsOfReader, sent'.step \in {"idle", "look"},
           got' \in Gots, got'.read = got.read, got'.left.shm = 0, got'.search.shm = 0
    PROVE  WrapInv'
<1> DEFINE s == wire.name
           L == Len(Wrp!Items(s))
<1>1. WrapTypes /\ Numbered /\ ReaderAttached /\ ControlInv
  BY DEF WrapInv
<1>2. s \in 1..Len(wire.shms) /\ L \in Nat /\ Len(wire.shms) \in Nat
  BY <1>1, Typed, ItemsType
<1>3. Wrp!IndexOf(L) \in Int
  BY <1>2, IndexRange, Bounds
<1>4. /\ reader' \in Readers
      /\ reader'.kind = reader.kind /\ reader'.made /\ reader'.shm = s
      /\ reader'.next = Wrp!IndexOf(L) /\ reader'.pos = L /\ reader'.from = L
  <2>1. reader \in Readers
    BY <1>1 DEF WrapTypes
  <2>2. reader' = [reader EXCEPT !.shm = s, !.next = Wrp!IndexOf(L), !.pos = L, !.from = L, !.made = TRUE]
    BY <2>1 DEF Wrp!Opened, Wrp!WriteIndex, Readers
  <2>3. s \in Nat
    BY <1>2
  <2>4. PICK x \in Nat, n \in Nat, i \in Int : x = s /\ n = L /\ i = Wrp!IndexOf(L)
    BY <1>2, <1>3, <2>3
  <2>5. reader' = [reader EXCEPT !.shm = x, !.next = i, !.pos = n, !.from = n, !.made = TRUE]
    BY <2>2, <2>4
  <2>6. reader' \in Readers
    <3>1. n \in Int /\ TRUE \in BOOLEAN
      OBVIOUS
    <3>2. [reader EXCEPT !.shm = x, !.next = i, !.pos = n, !.from = n, !.made = TRUE] \in
            [kind : {"control", "tvulive"}, made : BOOLEAN, shm : Nat, next : Int, pos : Int, from : Nat]
      BY <2>1, <3>1, Zenon DEF Readers
    <3> QED BY <2>5, <3>2 DEF Readers
  <2>7. /\ reader'.kind = reader.kind /\ reader'.made /\ reader'.shm = x
        /\ reader'.next = i /\ reader'.pos = n /\ reader'.from = n
    BY <2>1, <2>5 DEF Readers
  <2> QED BY <2>4, <2>6, <2>7
<1>5. WrapTypes'
  BY <1>1, <1>2, <1>4, ReaderTypes
<1>6. Numbered' /\ \A t : Wrp!Items(t)' = Wrp!Items(t)
  BY <1>1, Still
<1>7. ReaderAttached'
  BY <1>2, <1>4 DEF ReaderAttached
<1>8. Len(Wrp!Items(reader.shm)') = L
  BY <1>4 DEF Wrp!Items
<1>9. Placed'
  BY <1>2, <1>4, <1>8 DEF Placed, Wrp!Items, Wrp!IndexOf, Wrp!MaxItemIndex
<1>10. ControlInv'
  <2> SUFFICES ASSUME reader.kind = "control" PROVE ReadInOrder' /\ LeftRead' /\ Arrived(reader.shm, reader.from, reader.pos)'
    BY <1>4 DEF ControlInv
  <2>1. ReadInOrder
    BY <1>1 DEF ControlInv
  <2>2. ReadInOrder'
    <3>1. \A i \in reader'.pos..Len(Wrp!Items(reader.shm)') - 1 : FALSE
      BY <1>2, <1>4, <1>8
    <3> QED BY <2>1, <3>1 DEF ReadInOrder, Wrp!Ascending, Wrp!Items
  <2>3. Arrived(reader.shm, reader.from, reader.pos)'
    BY <1>2, <1>4 DEF Arrived
  <2> QED BY <2>2, <2>3 DEF LeftRead
<1>11. Searching' /\ Searched' /\ Wrp!SearchEndsAtNewest'
  BY DEF Searching, Searched, Wrp!SearchEndsAtNewest
<1> QED BY <1>5, <1>6, <1>7, <1>9, <1>10, <1>11 DEF WrapInv

LEMMA OpenStep == WrapInv /\ Wrp!Open => WrapInv'
<1> SUFFICES ASSUME WrapInv, Wrp!Open PROVE WrapInv'
  OBVIOUS
<1>1. sent \in CallsOfReader /\ got \in Gots /\ sent.step = "idle" /\ got.left.shm = 0 /\ got.search.shm = 0
  BY DEF Wrp!Open, WrapInv, WrapTypes, ReaderAttached
<1>2. /\ UNCHANGED <<wire, writer>> /\ wire.name # 0 /\ sent' = sent /\ got' = got
      /\ reader' = [Wrp!Opened(wire.name) EXCEPT !.made = TRUE]
  BY DEF Wrp!Open
<1> QED BY <1>1, <1>2, OpenedHolds

\* Between calls, or when one begins: the reader stays where it is.
LEMMA SlateHolds ==
    ASSUME WrapInv, UNCHANGED <<wire, writer, reader>>,
           sent' \in CallsOfReader, sent'.step \in {"idle", "look"},
           sent'.step = "look" => reader.made /\ reader.shm # 0,
           got' \in Gots, got'.read = got.read, got'.left.shm = 0, got'.search.shm = 0
    PROVE  WrapInv'
<1>1. WrapTypes /\ Numbered /\ ReaderAttached /\ Placed /\ ControlInv
  BY DEF WrapInv
<1>2. WrapTypes'
  BY <1>1, Typed, ReaderTypes DEF WrapTypes
<1>3. Numbered' /\ \A t : Wrp!Items(t)' = Wrp!Items(t)
  BY <1>1, Still
<1>4. ReaderAttached'
  BY <1>1 DEF ReaderAttached
<1>5. Placed'
  BY <1>1, <1>3 DEF Placed, Wrp!Items, Wrp!IndexOf, Wrp!MaxItemIndex
<1>6. ControlInv'
  BY <1>1, <1>3 DEF ControlInv, ReadInOrder, LeftRead, Arrived, Wrp!Ascending, Wrp!Items
<1>7. Searching' /\ Searched' /\ Wrp!SearchEndsAtNewest'
  BY DEF Searching, Searched, Wrp!SearchEndsAtNewest
<1> QED BY <1>2, <1>3, <1>4, <1>5, <1>6, <1>7 DEF WrapInv

LEMMA BeginGot ==
    ASSUME WrapTypes, Wrp!Begin
    PROVE  /\ got' \in Gots /\ got'.read = got.read /\ got'.left.shm = 0 /\ got'.search.shm = 0
           /\ reader.made /\ sent.step = "idle"
<1>1. got \in Gots
  BY DEF WrapTypes
<1>2. got' = [got EXCEPT !.left = Wrp!NoLeave, !.search = Wrp!NoSearch]
  BY DEF Wrp!Begin
<1>3. got' \in Gots /\ got'.read = got.read /\ got'.left = Wrp!NoLeave /\ got'.search = Wrp!NoSearch
  BY <1>1, <1>2, CallTypes DEF Gots
<1> QED BY <1>3 DEF Wrp!NoLeave, Wrp!NoSearch, Wrp!Begin

LEMMA ReadStep == WrapInv /\ Wrp!Read => WrapInv'
<1> SUFFICES ASSUME WrapInv, Wrp!Read PROVE WrapInv'
  OBVIOUS
<1>1. WrapTypes /\ Wrp!Begin /\ UNCHANGED <<wire, writer>>
  BY DEF WrapInv, Wrp!Read
<1>2. /\ got' \in Gots /\ got'.read = got.read /\ got'.left.shm = 0 /\ got'.search.shm = 0
      /\ reader.made /\ sent.step = "idle"
  BY <1>1, BeginGot
<1>3. [Wrp!Idle EXCEPT !.step = "look"].step = "look"
  BY DEF Wrp!Idle
<1>4. CASE reader.shm # 0
  <2>1. sent' = [Wrp!Idle EXCEPT !.step = "look"] /\ reader' = reader
    BY <1>4 DEF Wrp!Read
  <2> QED BY <1>1, <1>2, <1>3, <1>4, <2>1, CallTypes, SlateHolds
<1>5. CASE reader.shm = 0 /\ wire.name # 0
  <2>1. reader' = Wrp!Opened(wire.name) /\ sent' = [Wrp!Idle EXCEPT !.step = "look"]
    BY <1>5 DEF Wrp!Read
  <2>2. Wrp!Opened(wire.name) = [Wrp!Opened(wire.name) EXCEPT !.made = TRUE]
    <3>1. reader \in Readers
      BY <1>1 DEF WrapTypes
    <3> QED BY <1>2, <3>1 DEF Wrp!Opened, Readers
  <2> QED BY <1>1, <1>2, <1>3, <1>5, <2>1, <2>2, CallTypes, OpenedHolds
<1>6. CASE reader.shm = 0 /\ wire.name = 0
  <2>1. reader' = reader /\ sent' = sent
    BY <1>6 DEF Wrp!Read
  <2>2. sent \in CallsOfReader
    BY <1>1 DEF WrapTypes
  <2> QED BY <1>1, <1>2, <2>1, <2>2, SlateHolds
<1> QED BY <1>4, <1>5, <1>6

LEMMA SeekStep == WrapInv /\ Wrp!SeekReadIndexToWriteIndex => WrapInv'
<1> SUFFICES ASSUME WrapInv, Wrp!SeekReadIndexToWriteIndex PROVE WrapInv'
  OBVIOUS
<1>1. WrapTypes /\ Numbered /\ ReaderAttached
  BY DEF WrapInv
<1>2. /\ Wrp!Begin /\ reader.kind = "tvulive" /\ UNCHANGED <<wire, writer, sent>>
      /\ reader' = [reader EXCEPT !.next = Wrp!Newest, !.pos = Len(Wrp!Items(reader.shm)) - 1]
  BY DEF Wrp!SeekReadIndexToWriteIndex
<1>3. /\ got' \in Gots /\ got'.read = got.read /\ got'.left.shm = 0 /\ got'.search.shm = 0
      /\ reader.made /\ sent.step = "idle"
  BY <1>1, <1>2, BeginGot
<1>4. Len(Wrp!Items(reader.shm)) - 1 \in Int
  <2>1. reader.shm \in 1..Len(wire.shms)
    BY <1>1, <1>2, <1>3, Typed DEF ReaderAttached
  <2> QED BY <1>1, <2>1, ItemsType
<1>5. /\ reader' \in Readers /\ reader'.kind = "tvulive" /\ reader'.made = reader.made
      /\ reader'.shm = reader.shm
  <2>1. reader \in Readers
    BY <1>1 DEF WrapTypes
  <2>2. PICK x \in Int, p \in Int : x = Wrp!Newest /\ p = Len(Wrp!Items(reader.shm)) - 1
    <3>1. Wrp!Newest \in Int
      BY DEF Wrp!Newest
    <3> QED BY <1>4, <3>1
  <2>3. reader' = [reader EXCEPT !.next = x, !.pos = p]
    BY <1>2, <2>2
  <2> QED BY <1>2, <2>1, <2>3 DEF Readers
<1>6. WrapTypes'
  BY <1>1, <1>2, <1>3, <1>5, Typed, ReaderTypes DEF WrapTypes
<1>7. Numbered'
  BY <1>1, <1>2, Still
<1>8. ReaderAttached'
  BY <1>1, <1>2, <1>3, <1>5 DEF ReaderAttached
<1>9. Placed' /\ ControlInv' /\ Searching' /\ Searched' /\ Wrp!SearchEndsAtNewest'
  BY <1>2, <1>3, <1>5 DEF Placed, ControlInv, Searching, Searched, Wrp!SearchEndsAtNewest
<1> QED BY <1>6, <1>7, <1>8, <1>9 DEF WrapInv

\* The search begins behind the last item.
LEMMA SearchItemsStep == WrapInv /\ Wrp!SearchItems => WrapInv'
<1> SUFFICES ASSUME WrapInv, Wrp!SearchItems PROVE WrapInv'
  OBVIOUS
<1> DEFINE L == Len(Wrp!Items(reader.shm))
<1>1. WrapTypes /\ Numbered /\ ReaderAttached
  BY DEF WrapInv
<1>2. /\ Wrp!Begin /\ reader.kind = "tvulive" /\ UNCHANGED <<wire, writer, reader>>
  BY DEF Wrp!SearchItems
<1>3. /\ got' \in Gots /\ got'.read = got.read /\ got'.left.shm = 0 /\ got'.search.shm = 0
      /\ reader.made /\ sent.step = "idle"
  BY <1>1, <1>2, BeginGot
<1>4. reader.shm \in 1..Len(wire.shms) /\ reader.shm # 0
  BY <1>1, <1>2, <1>3, Typed DEF ReaderAttached
<1>5. L \in Nat
  BY <1>1, <1>4, ItemsType
<1>6. PICK m \in Nat :
        sent' = [Wrp!Idle EXCEPT !.step = "search", !.want = m, !.looked = L,
                                 !.windex = Wrp!IndexOf(L), !.count = MaxItemsNum - 1,
                                 !.at = Wrp!PreviousIndexStep(Wrp!IndexOf(L))]
  <2>1. \A m \in Wrp!Range(Feed) : m \in Nat
    BY Bounds, ElementOfSeq, LenProperties DEF Wrp!Range
  <2> QED BY <2>1 DEF Wrp!SearchItems, Wrp!WriteIndex
<1>7. Wrp!PreviousIndexStep(Wrp!IndexOf(L)) = Wrp!IndexOf(L - 1) /\ Wrp!IndexOf(L) \in Int /\ Wrp!IndexOf(L - 1) \in Int
  BY <1>5, IndexBefore, IndexRange, Bounds
<1>8. /\ sent' \in CallsOfReader /\ sent'.step = "search" /\ sent'.looked = L
      /\ sent'.windex = Wrp!IndexOf(L) /\ sent'.count = MaxItemsNum - 1 /\ sent'.at = Wrp!IndexOf(L - 1)
  <2>1. PICK x \in Int, y \in Int, c \in Int, n \in Nat :
          x = Wrp!IndexOf(L) /\ y = Wrp!IndexOf(L - 1) /\ c = MaxItemsNum - 1 /\ n = L
    BY <1>5, <1>7, Bounds
  <2>2. sent' = [Wrp!Idle EXCEPT !.step = "search", !.want = m, !.looked = n, !.windex = x, !.count = c,
                                 !.at = y]
    BY <1>6, <1>7, <2>1
  <2>3. sent' \in CallsOfReader
    BY <2>2 DEF Wrp!Idle, CallsOfReader
  <2> QED BY <2>1, <2>2, <2>3 DEF Wrp!Idle
<1>9. WrapTypes'
  BY <1>1, <1>2, <1>3, <1>8, Typed, ReaderTypes DEF WrapTypes
<1>10. Numbered' /\ \A t : Wrp!Items(t)' = Wrp!Items(t)
  BY <1>1, <1>2, Still
<1>11. ReaderAttached'
  BY <1>1, <1>2, <1>3, <1>4, <1>8 DEF ReaderAttached
<1>12. Searching'
  <2>1. Wrp!Items(reader.shm)' = Wrp!Items(reader.shm)
    BY <1>2 DEF Wrp!Items
  <2>2. sent'.looked - MaxItemsNum + sent'.count = L - 1
    BY <1>5, <1>8, Bounds
  <2>3. sent'.count \in 0..MaxItemsNum - 1
    BY <1>8, Bounds
  <2>4. \A i \in 0..L - 1 : ~(i > L - 1)
    BY <1>5
  <2> QED BY <1>2, <1>5, <1>8, <2>1, <2>2, <2>3, <2>4 DEF Searching, Wrp!IndexOf, Wrp!MaxItemIndex
<1>13. Placed' /\ ControlInv' /\ Searched' /\ Wrp!SearchEndsAtNewest'
  BY <1>2, <1>3 DEF Placed, ControlInv, Searched, Wrp!SearchEndsAtNewest
<1> QED BY <1>9, <1>10, <1>11, <1>12, <1>13 DEF WrapInv

\* Leaving a memory after a last look that saw nothing more to read.
LEMMA LoseHolds ==
    ASSUME WrapInv, UNCHANGED <<wire, writer>>, NEW looked \in Nat, Wrp!Lose(looked),
           sent.step # "idle",
           reader.kind = "control" => reader.pos <= looked /\ Wrp!IndexOf(reader.pos) = Wrp!IndexOf(looked)
    PROVE  WrapInv'
<1>1. WrapTypes /\ Numbered /\ ReaderAttached /\ Placed /\ ControlInv
  BY DEF WrapInv
<1>2. /\ reader.shm \in 1..Len(wire.shms) /\ reader.shm # 0 /\ reader.made
      /\ got.left.shm = 0 /\ got.search.shm = 0 /\ Len(wire.shms) \in Nat
  BY <1>1, Typed DEF ReaderAttached
<1>3. /\ reader \in Readers /\ got \in Gots /\ reader.pos \in Int /\ reader.from \in Nat
      /\ reader.shm \in Nat
  BY <1>1, Typed DEF WrapTypes, Readers
<1>4. sent' = Wrp!Idle /\ sent' \in CallsOfReader /\ sent'.step = "idle"
  BY CallTypes DEF Wrp!Lose, Wrp!Idle
<1>5. /\ reader' \in Readers /\ reader'.kind = reader.kind /\ reader'.made = reader.made
      /\ reader'.shm = IF reader.kind = "control" THEN 0 ELSE reader.shm
  <2>1. CASE reader.kind = "control"
    BY <1>3, <2>1 DEF Wrp!Lose, Readers
  <2>2. CASE reader.kind # "control"
    BY <1>3, <2>2 DEF Wrp!Lose, Readers
  <2> QED BY <2>1, <2>2
<1>6. /\ got' \in Gots /\ got'.read = got.read /\ got'.search = got.search
      /\ got'.left = [shm |-> reader.shm, from |-> reader.from, pos |-> reader.pos, looked |-> looked]
  BY <1>3 DEF Wrp!Lose, Gots, Leave
<1>7. WrapTypes'
  BY <1>1, <1>2, <1>4, <1>5, <1>6, Typed, ReaderTypes
<1>8. Numbered' /\ \A t : Wrp!Items(t)' = Wrp!Items(t)
  BY <1>1, Still
<1>9. ReaderAttached'
  BY <1>1, <1>2, <1>4, <1>5, <1>6 DEF ReaderAttached
<1>10. ControlInv'
  <2> SUFFICES ASSUME reader.kind = "control" PROVE ReadInOrder' /\ LeftRead' /\ reader'.shm = 0
    BY <1>5 DEF ControlInv
  <2>1. ReadInOrder /\ Arrived(reader.shm, reader.from, reader.pos) /\ reader'.shm = 0
    BY <1>1, <1>2, <1>5 DEF ControlInv
  <2>2. ReadInOrder'
    BY <1>6, <2>1 DEF ReadInOrder, Wrp!Ascending
  <2>3. LeftRead'
    <3>1. reader.pos <= Len(Wrp!Items(reader.shm))
      BY <1>1, <1>2 DEF Placed
    <3>2. looked - reader.pos < Wrp!MaxItemIndex => looked = reader.pos
      <4> SUFFICES ASSUME looked - reader.pos < Wrp!MaxItemIndex, reader.pos < looked PROVE FALSE
        BY <1>3
      <4>1. looked - reader.pos >= Wrp!MaxItemIndex
        BY <1>3, IndexApart
      <4> QED BY <1>3, <4>1, Bounds
    <3>3. PICK s, from, pos : s = reader.shm /\ from = reader.from /\ pos = reader.pos
      OBVIOUS
    <3>4. got'.left = [shm |-> s, from |-> from, pos |-> pos, looked |-> looked]
      BY <1>6, <3>3
    <3>5. Arrived(s, from, pos)'
      BY <1>6, <2>1, <3>3 DEF Arrived, Wrp!Items
    <3>6. Arrived(got.left.shm, got.left.from, got.left.pos)'
      BY <3>4, <3>5 DEF Arrived, Wrp!Items
    <3>7. got'.left.pos <= Len(Wrp!Items(got.left.shm)')
      BY <3>1, <3>3, <3>4 DEF Wrp!Items
    <3> QED BY <3>2, <3>3, <3>4, <3>6, <3>7 DEF LeftRead, Wrp!MaxItemIndex
  <2> QED BY <2>1, <2>2, <2>3
<1>11. Placed' /\ Searching' /\ Searched' /\ Wrp!SearchEndsAtNewest'
  BY <1>2, <1>4, <1>5, <1>6 DEF Placed, Searching, Searched, Wrp!SearchEndsAtNewest
<1> QED BY <1>7, <1>8, <1>9, <1>10, <1>11 DEF WrapInv

LEMMA LookStep == WrapInv /\ Wrp!Look => WrapInv'
<1> SUFFICES ASSUME WrapInv, Wrp!Look PROVE WrapInv'
  OBVIOUS
<1> DEFINE L == Len(Wrp!Items(reader.shm))
<1>1. /\ WrapTypes /\ Numbered /\ ReaderAttached /\ Placed /\ ControlInv
  BY DEF WrapInv
<1>2. /\ sent.step = "look" /\ UNCHANGED <<wire, writer>>
      /\ reader.shm \in 1..Len(wire.shms) /\ reader.shm # 0 /\ reader.made
      /\ got.left.shm = 0 /\ got.search.shm = 0
  BY <1>1, Typed DEF ReaderAttached, Wrp!Look
<1>3. /\ L \in Nat /\ reader.pos \in Int /\ reader.from \in Nat /\ sent \in CallsOfReader /\ got \in Gots
      /\ reader \in Readers
  BY <1>1, <1>2, ItemsType, Typed DEF WrapTypes
<1>4. reader.kind = "control" =>
        /\ 0 <= reader.pos /\ reader.pos <= L /\ reader.next = Wrp!IndexOf(reader.pos)
  BY <1>1, <1>2, <1>3 DEF Placed
<1>5. ~Wrp!IsReadable /\ reader.kind = "control" => reader.pos <= L /\ Wrp!IndexOf(reader.pos) = Wrp!IndexOf(L)
  <2> SUFFICES ASSUME ~Wrp!IsReadable, reader.kind = "control" PROVE Wrp!IndexOf(reader.pos) = Wrp!IndexOf(L)
    BY <1>4
  <2>1. CASE L = 0
    BY <1>3, <1>4, <2>1
  <2>2. CASE L # 0
    BY <1>3, <1>4, <2>2 DEF Wrp!IsReadable, Wrp!WriteIndex
  <2> QED BY <2>1, <2>2
<1>6. Numbered' /\ \A t : Wrp!Items(t)' = Wrp!Items(t)
  BY <1>1, <1>2, Still
<1>7. CASE Wrp!IsReadable /\ sent' = [sent EXCEPT !.step = "take"] /\ UNCHANGED <<reader, got>>
  <2>1. sent' \in CallsOfReader /\ sent'.step = "take"
    BY <1>3, <1>7 DEF CallsOfReader
  <2>2. WrapTypes'
    BY <1>1, <1>2, <1>3, <1>7, <2>1, Typed, ReaderTypes
  <2>3. ReaderAttached'
    BY <1>1, <1>2, <1>7, <2>1 DEF ReaderAttached
  <2>4. Placed'
    <3>1. reader.kind = "control" => reader.pos < L
      BY <1>3, <1>4, <1>7 DEF Wrp!IsReadable, Wrp!WriteIndex
    <3> QED BY <1>1, <1>2, <1>7, <2>1, <3>1 DEF Placed, Wrp!Items, Wrp!IndexOf, Wrp!MaxItemIndex
  <2>5. ControlInv'
    BY <1>1, <1>2, <1>7 DEF ControlInv, ReadInOrder, LeftRead, Arrived, Wrp!Ascending, Wrp!Items, Wrp!MaxItemIndex
  <2>6. Searching' /\ Searched' /\ Wrp!SearchEndsAtNewest'
    BY <1>2, <1>7, <2>1 DEF Searching, Searched, Wrp!SearchEndsAtNewest
  <2> QED BY <1>6, <2>2, <2>3, <2>4, <2>5, <2>6 DEF WrapInv
<1>8. CASE ~Wrp!IsReadable /\ Wrp!Lose(L)
  BY <1>2, <1>3, <1>5, <1>8, LoseHolds
<1>9. CASE /\ ~Wrp!IsReadable /\ sent' = [sent EXCEPT !.step = "flag", !.looked = L]
           /\ UNCHANGED <<reader, got>>
  <2>1. sent' \in CallsOfReader /\ sent'.step = "flag" /\ sent'.looked = L
    BY <1>3, <1>9 DEF CallsOfReader
  <2>2. WrapTypes'
    BY <1>1, <1>2, <1>3, <1>9, <2>1, Typed, ReaderTypes
  <2>3. ReaderAttached'
    BY <1>1, <1>2, <1>9, <2>1 DEF ReaderAttached
  <2>4. Placed'
    BY <1>1, <1>2, <1>5, <1>9, <2>1 DEF Placed, Wrp!Items, Wrp!IndexOf, Wrp!MaxItemIndex
  <2>5. ControlInv'
    BY <1>1, <1>2, <1>9 DEF ControlInv, ReadInOrder, LeftRead, Arrived, Wrp!Ascending, Wrp!Items, Wrp!MaxItemIndex
  <2>6. Searching' /\ Searched' /\ Wrp!SearchEndsAtNewest'
    BY <1>2, <1>9, <2>1 DEF Searching, Searched, Wrp!SearchEndsAtNewest
  <2> QED BY <1>6, <2>2, <2>3, <2>4, <2>5, <2>6 DEF WrapInv
<1> QED BY <1>7, <1>8, <1>9 DEF Wrp!Look

LEMMA LookAtFlagStep == WrapInv /\ Wrp!LookAtFlag => WrapInv'
<1> SUFFICES ASSUME WrapInv, Wrp!LookAtFlag PROVE WrapInv'
  OBVIOUS
<1>1. /\ WrapTypes /\ Numbered /\ ReaderAttached /\ Placed /\ ControlInv
  BY DEF WrapInv
<1>2. /\ sent.step = "flag" /\ UNCHANGED <<wire, writer>>
      /\ reader.shm # 0 /\ reader.made /\ got.left.shm = 0 /\ got.search.shm = 0
  BY <1>1 DEF ReaderAttached, Wrp!LookAtFlag
<1>3. /\ sent.looked \in Nat /\ sent \in CallsOfReader /\ got \in Gots
  BY <1>1, Typed DEF WrapTypes
<1>4. CASE Wrp!Lose(sent.looked)
  <2>1. reader.kind = "control" =>
          reader.pos <= sent.looked /\ Wrp!IndexOf(reader.pos) = Wrp!IndexOf(sent.looked)
    BY <1>1, <1>2 DEF Placed
  <2> QED BY <1>2, <1>3, <1>4, <2>1, LoseHolds
<1>5. CASE sent' = Wrp!Idle /\ UNCHANGED <<reader, got>>
  <2>1. sent' \in CallsOfReader /\ sent'.step = "idle"
    BY <1>5, CallTypes DEF Wrp!Idle
  <2> QED BY <1>2, <1>3, <1>5, <2>1, SlateHolds
<1>6. CASE sent' = [sent EXCEPT !.step = "look"] /\ UNCHANGED <<reader, got>>
  <2>1. sent' \in CallsOfReader /\ sent'.step = "look"
    BY <1>3, <1>6 DEF CallsOfReader
  <2> QED BY <1>2, <1>3, <1>6, <2>1, SlateHolds
<1> QED BY <1>4, <1>5, <1>6 DEF Wrp!LookAtFlag

\* What is appended to what was read.
LEMMA ReadMore ==
    ASSUME NEW read \in Seq(Nat), NEW n \in Nat
    PROVE  /\ Append(read, n) \in Seq(Nat) /\ Len(Append(read, n)) = Len(read) + 1
           /\ Len(read) \in Nat
           /\ \A k \in 1..Len(read) : Append(read, n)[k] = read[k] /\ read[k] \in Nat
           /\ Append(read, n)[Len(read) + 1] = n
           /\ Wrp!Range(read) \subseteq Wrp!Range(Append(read, n)) /\ n \in Wrp!Range(Append(read, n))
<1>1. /\ Append(read, n) \in Seq(Nat) /\ Len(Append(read, n)) = Len(read) + 1
      /\ Len(read) \in Nat
      /\ \A k \in 1..Len(read) : Append(read, n)[k] = read[k]
      /\ Append(read, n)[Len(read) + 1] = n
  BY AppendProperties
<1>2. DOMAIN read = 1..Len(read) /\ DOMAIN Append(read, n) = 1..Len(read) + 1
  BY <1>1, LenProperties
<1>3. \A k \in 1..Len(read) : read[k] \in Nat
  BY ElementOfSeq
<1>4. Wrp!Range(read) \subseteq Wrp!Range(Append(read, n))
  <2> SUFFICES ASSUME NEW k \in 1..Len(read) PROVE read[k] \in Wrp!Range(Append(read, n))
    BY <1>2 DEF Wrp!Range
  <2>1. k \in 1..Len(read) + 1 /\ read[k] = Append(read, n)[k]
    BY <1>1
  <2> QED BY <1>2, <2>1 DEF Wrp!Range
<1>5. n \in Wrp!Range(Append(read, n))
  <2>1. Len(read) + 1 \in 1..Len(read) + 1
    BY <1>1
  <2> QED BY <1>1, <1>2, <2>1 DEF Wrp!Range
<1> QED BY <1>1, <1>3, <1>4, <1>5

\* Reading one item more: it is newer than all that was read.
LEMMA InOrderMore ==
    ASSUME WrapTypes, Wrp!Ascending(got.read), NEW n \in Nat,
           \A k \in 1..Len(got.read) : got.read[k] < n,
           got'.read = Append(got.read, n)
    PROVE  Wrp!Ascending(got.read)'
<1>1. got.read \in Seq(Nat)
  BY Typed
<1>2. /\ Len(got'.read) = Len(got.read) + 1 /\ Len(got.read) \in Nat
      /\ \A k \in 1..Len(got.read) : got'.read[k] = got.read[k]
      /\ got'.read[Len(got.read) + 1] = n
  BY <1>1, ReadMore
<1> SUFFICES ASSUME NEW k \in 1..Len(got.read) PROVE got'.read[k] < got'.read[k + 1]
  BY <1>2 DEF Wrp!Ascending
<1>3. CASE k = Len(got.read)
  BY <1>2, <1>3
<1>4. CASE k < Len(got.read)
  <2>1. k \in 1..Len(got.read) - 1 /\ k + 1 \in 1..Len(got.read)
    BY <1>2, <1>4
  <2>2. got.read[k] < got.read[k + 1]
    BY <2>1 DEF Wrp!Ascending
  <2> QED BY <1>2, <2>1, <2>2
<1> QED BY <1>2, <1>3, <1>4

LEMMA TakeStep == WrapInv /\ Wrp!Take => WrapInv'
<1> SUFFICES ASSUME WrapInv, Wrp!Take PROVE WrapInv'
  OBVIOUS
<1> DEFINE s == reader.shm
           L == Len(Wrp!Items(s))
           e == Wrp!EntryAt(s, Wrp!Position)
           item == Wrp!Items(s)[e + 1]
<1>1. /\ WrapTypes /\ Numbered /\ ReaderAttached /\ Placed /\ ControlInv
  BY DEF WrapInv
<1>2. /\ sent.step = "take" /\ UNCHANGED <<wire, writer>> /\ sent' = Wrp!Idle
      /\ s \in 1..Len(wire.shms) /\ s # 0 /\ reader.made
      /\ got.left.shm = 0 /\ got.search.shm = 0 /\ Len(wire.shms) \in Nat
  BY <1>1, Typed DEF ReaderAttached, Wrp!Take
<1>3. /\ L \in Nat /\ Wrp!Items(s) \in Seq(Item)
      /\ \A i \in 1..L : Wrp!Items(s)[i].n \in Nat /\ Wrp!Items(s)[i] \in Item
  BY <1>1, <1>2, ItemsType
<1>4. /\ reader.pos \in Int /\ reader.from \in Nat /\ got \in Gots /\ got.read \in Seq(Nat)
      /\ reader \in Readers /\ reader.next \in Int /\ writer.sent \in Nat
      /\ sent' \in CallsOfReader /\ sent'.step = "idle"
  BY <1>1, <1>2, CallTypes, Typed DEF WrapTypes, Wrp!Idle
<1>5. Wrp!Position \in Int
  <2>1. Wrp!IndexOf(L - 1) \in Int
    BY <1>3, IndexRange, Bounds
  <2> QED BY <1>4, <2>1 DEF Wrp!Position
<1>6. e # -1 => e \in 0..L - 1 /\ Wrp!IndexOf(e) = Wrp!Position /\ L - e <= MaxItemsNum
  BY <1>3, <1>5, EntryFacts
<1>7. Numbered' /\ \A t : Wrp!Items(t)' = Wrp!Items(t)
  BY <1>1, <1>2, Still
<1>8. CASE e = -1
  <2>1. UNCHANGED <<reader, got>>
    BY <1>8 DEF Wrp!Take
  <2> QED BY <1>2, <1>4, <2>1, SlateHolds
<1>9. CASE e # -1
  <2> HIDE DEF e
  <2>1. e \in 0..L - 1 /\ Wrp!IndexOf(e) = Wrp!Position /\ L - e <= MaxItemsNum /\ e \in Int
    BY <1>3, <1>6, <1>9
  <2>2. item.n \in Nat /\ item.n < writer.sent
    BY <1>1, <1>2, <1>3, <2>1 DEF Numbered
  <2> DEFINE from == IF e < reader.pos + Wrp!MaxItemIndex THEN reader.from ELSE e
  <2>3. /\ reader' = [reader EXCEPT !.next = Wrp!IndexOf(e + 1), !.pos = e + 1, !.from = from]
        /\ got' = IF item.m = 0 THEN got ELSE [got EXCEPT !.read = Append(got.read, item.n)]
    BY <1>9 DEF Wrp!Take, e
  <2>4. Wrp!IndexOf(e + 1) \in Int /\ from \in Nat /\ e + 1 \in Int
    <3>1. e + 1 \in Int /\ e \in Nat
      BY <1>3, <2>1
    <3>2. Wrp!IndexOf(e + 1) \in 0..Wrp!MaxItemIndex - 1
      BY <3>1, IndexRange
    <3> QED BY <1>4, <3>1, <3>2, Sizes
  <2>5. /\ reader' \in Readers /\ reader'.kind = reader.kind /\ reader'.made = reader.made
        /\ reader'.shm = s /\ reader'.next = Wrp!IndexOf(e + 1) /\ reader'.pos = e + 1
        /\ reader'.from = from
    <3>1. PICK x \in Int, p \in Int, f \in Nat : x = Wrp!IndexOf(e + 1) /\ p = e + 1 /\ f = from
      BY <2>4
    <3>2. reader' = [reader EXCEPT !.next = x, !.pos = p, !.from = f]
      BY <2>3, <3>1
    <3>3. reader' \in Readers
      BY <1>4, <3>2 DEF Readers
    <3> QED BY <1>4, <3>1, <3>2, <3>3 DEF Readers
  <2> HIDE DEF from
  <2>6. /\ got' \in Gots /\ got'.left.shm = 0 /\ got'.search.shm = 0
        /\ got'.read = IF item.m = 0 THEN got.read ELSE Append(got.read, item.n)
    <3>1. Append(got.read, item.n) \in Seq(Nat)
      BY <1>4, <2>2, ReadMore
    <3> QED BY <1>2, <1>4, <2>3, <3>1 DEF Gots
  <2>7. WrapTypes'
    BY <1>1, <1>2, <1>4, <2>5, <2>6, ReaderTypes
  <2>8. ReaderAttached'
    BY <1>1, <1>2, <1>4, <2>5, <2>6 DEF ReaderAttached
  <2>9. Searching' /\ Searched' /\ Wrp!SearchEndsAtNewest'
    BY <1>4, <2>6 DEF Searching, Searched, Wrp!SearchEndsAtNewest
  <2>10. Wrp!Items(reader.shm)' = Wrp!Items(s)
    BY <1>2, <2>5 DEF Wrp!Items
  <2>11. CASE reader.kind # "control"
    <3>1. Placed' /\ ControlInv'
      BY <2>5, <2>11 DEF Placed, ControlInv
    <3> QED BY <1>7, <2>7, <2>8, <2>9, <3>1 DEF WrapInv
  <2>12. CASE reader.kind = "control"
    <3>1. /\ 0 <= reader.pos /\ reader.from <= reader.pos /\ reader.pos < L
          /\ reader.next = Wrp!IndexOf(reader.pos)
          /\ ReadInOrder /\ Arrived(s, reader.from, reader.pos)
      BY <1>1, <1>2, <1>4, <2>12 DEF Placed, ControlInv
    <3>2. Wrp!Position = Wrp!IndexOf(reader.pos)
      <4>1. reader.next \in 0..Wrp!MaxItemIndex - 1
        BY <1>4, <3>1, IndexRange
      <4> QED BY <3>1, <4>1, Bounds DEF Wrp!Position, Wrp!Newest
    <3>3. e >= reader.pos
      <4> SUFFICES ASSUME e < reader.pos PROVE FALSE
        BY <1>4, <2>1
      <4>1. reader.pos - e >= Wrp!MaxItemIndex
        BY <1>4, <2>1, <3>2, IndexApart
      <4>2. L - e > Wrp!MaxItemIndex
        BY <1>3, <1>4, <2>1, <3>1, <4>1, Sizes
      <4> QED BY <1>3, <2>1, <4>2, Sizes
    <3>4. e = reader.pos \/ e >= reader.pos + Wrp!MaxItemIndex
      <4> SUFFICES ASSUME e > reader.pos PROVE e - reader.pos >= Wrp!MaxItemIndex
        BY <1>4, <2>1, <3>3, Sizes
      <4> QED BY <1>4, <2>1, <3>2, IndexApart
    <3>5. from = IF e = reader.pos THEN reader.from ELSE e
      BY <1>4, <2>1, <3>4, Sizes DEF from
    <3>6. Placed'
      <4>1. from <= e + 1 /\ e + 1 <= L
        BY <1>3, <1>4, <2>1, <3>1, <3>5
      <4> QED BY <1>4, <2>5, <2>10, <4>1 DEF Placed, Wrp!IndexOf, Wrp!MaxItemIndex
    <3>7. \A k \in 1..Len(got.read) : got.read[k] < item.n /\ got.read[k] < writer.sent
      BY <1>2, <1>3, <1>4, <2>1, <3>1, <3>3 DEF ReadInOrder
    <3>8. \A i \in e + 1..L - 1 : item.n < Wrp!Items(s)[i + 1].n
      <4> SUFFICES ASSUME NEW i \in e + 1..L - 1 PROVE item.n < Wrp!Items(s)[i + 1].n
        OBVIOUS
      <4>1. i + 1 \in 1..L /\ e + 1 \in 1..i + 1 - 1
        BY <1>3, <2>1
      <4> QED BY <1>1, <1>2, <4>1 DEF Numbered
    <3>9. \A k \in 1..Len(got.read), i \in e + 1..L - 1 : got.read[k] < Wrp!Items(s)[i + 1].n
      <4> SUFFICES ASSUME NEW k \in 1..Len(got.read), NEW i \in e + 1..L - 1
                   PROVE  got.read[k] < Wrp!Items(s)[i + 1].n
        OBVIOUS
      <4>1. i \in reader.pos..L - 1
        BY <1>3, <1>4, <2>1, <3>3
      <4> QED BY <1>2, <3>1, <4>1 DEF ReadInOrder
    <3>10. ReadInOrder'
      <4>1. CASE item.m = 0
        BY <1>2, <2>5, <2>6, <2>10, <3>1, <3>7, <3>9, <4>1 DEF ReadInOrder, Wrp!Ascending
      <4>2. CASE item.m # 0
        <5>1. Wrp!Ascending(got.read)'
          BY <1>1, <2>2, <2>6, <3>1, <3>7, <4>2, InOrderMore DEF ReadInOrder
        <5>2. /\ Len(got'.read) = Len(got.read) + 1 /\ Len(got.read) \in Nat
              /\ \A k \in 1..Len(got.read) : got'.read[k] = got.read[k]
              /\ got'.read[Len(got.read) + 1] = item.n
          BY <1>4, <2>2, <2>6, <4>2, ReadMore
        <5>3. \A k \in 1..Len(got'.read) : k \in 1..Len(got.read) \/ k = Len(got.read) + 1
          BY <5>2
        <5>4. \A k \in 1..Len(got'.read) : got'.read[k] < writer.sent
          BY <2>2, <3>7, <5>2, <5>3
        <5>5. \A k \in 1..Len(got'.read), i \in e + 1..L - 1 : got'.read[k] < Wrp!Items(s)[i + 1].n
          BY <3>8, <3>9, <5>2, <5>3
        <5> QED BY <1>2, <2>5, <2>10, <5>1, <5>4, <5>5 DEF ReadInOrder
      <4> QED BY <4>1, <4>2
    <3>11. Arrived(reader.shm, reader.from, reader.pos)'
      <4>1. \A i \in from..e : Wrp!Items(s)[i + 1].m # 0 => Wrp!Items(s)[i + 1].n \in Wrp!Range(got'.read)
        <5> SUFFICES ASSUME NEW i \in from..e, Wrp!Items(s)[i + 1].m # 0
                     PROVE  Wrp!Items(s)[i + 1].n \in Wrp!Range(got'.read)
          OBVIOUS
        <5>1. Wrp!Range(got.read) \subseteq Wrp!Range(got'.read)
          BY <1>4, <2>2, <2>6, ReadMore
        <5>2. CASE i = e
          BY <1>4, <2>2, <2>6, <5>2, ReadMore
        <5>3. CASE i # e
          <6>1. i \in reader.from..reader.pos - 1
            BY <1>4, <2>1, <2>4, <3>5, <5>3
          <6> QED BY <3>1, <5>1, <6>1 DEF Arrived
        <5> QED BY <5>2, <5>3
      <4>2. \A i \in from..e + 1 - 1 : i \in from..e
        BY <2>1, <2>4
      <4>3. reader'.from..reader'.pos - 1 = from..e
        BY <2>1, <2>4, <2>5
      <4> QED BY <2>10, <4>1, <4>3 DEF Arrived
    <3>12. ControlInv'
      BY <2>6, <3>10, <3>11 DEF ControlInv, LeftRead
    <3> QED BY <1>7, <2>7, <2>8, <2>9, <3>6, <3>12 DEF WrapInv
  <2> QED BY <2>11, <2>12
<1> QED BY <1>8, <1>9

-----------------------------------------------------------------------------
(***************************************************************************)
(* A step of the search backwards: it is at the item k = looked - N +      *)
(* count, or at one that took its entry and its index a round later.       *)
(***************************************************************************)

LEMMA AnswerTypes ==
    ASSUME WrapTypes, NEW hit \in BOOLEAN, NEW i \in Int, NEW next \in Int, Wrp!Answer(hit, i, next),
           reader.shm \in 1..Len(wire.shms)
    PROVE  /\ sent' = Wrp!Idle /\ sent' \in CallsOfReader /\ sent'.step = "idle"
           /\ reader' \in Readers /\ reader'.kind = reader.kind /\ reader'.made = reader.made
           /\ reader'.shm = reader.shm /\ reader'.pos = i /\ reader'.next = next
           /\ got' \in Gots /\ got'.read = got.read /\ got'.left = got.left
           /\ got'.search = [hit |-> hit, i |-> i, want |-> sent.want, shm |-> reader.shm,
                             looked |-> sent.looked, now |-> Len(Wrp!Items(reader.shm))]
<1>1. /\ reader \in Readers /\ got \in Gots /\ sent.want \in Nat /\ sent.looked \in Nat
      /\ reader.shm \in Nat
  BY Typed DEF WrapTypes, Readers
<1>2. got' \in Gots
  <2>1. Len(Wrp!Items(reader.shm)) \in Nat
    BY ItemsType
  <2> QED BY <1>1, <2>1 DEF Wrp!Answer, Gots, Search
<1>3. reader' \in Readers
  BY <1>1 DEF Wrp!Answer, Readers
<1> QED BY <1>1, <1>2, <1>3, CallTypes DEF Wrp!Answer, Readers, Gots, Wrp!Idle

LEMMA SearchStepHolds == WrapInv /\ Wrp!SearchStep => WrapInv'
<1> SUFFICES ASSUME WrapInv, Wrp!SearchStep PROVE WrapInv'
  OBVIOUS
<1> DEFINE s == reader.shm
           L == Len(Wrp!Items(s))
           N == MaxItemsNum
           k == sent.looked - N + sent.count
           e == Wrp!EntryAt(s, sent.at)
           item == Wrp!Items(s)[e + 1]
<1>1. WrapTypes /\ Numbered /\ ReaderAttached /\ Searching
  BY DEF WrapInv
<1>2. /\ sent.step = "search" /\ UNCHANGED <<wire, writer>>
      /\ s \in 1..Len(wire.shms) /\ s # 0 /\ reader.made /\ reader.kind = "tvulive"
      /\ got.left.shm = 0 /\ got.search.shm = 0 /\ Len(wire.shms) \in Nat
  BY <1>1, Typed DEF ReaderAttached, Wrp!SearchStep
<1>3. /\ L \in Nat /\ Wrp!Items(s) \in Seq(Item)
      /\ sent.looked \in Nat /\ sent.want \in Nat /\ sent \in CallsOfReader /\ got \in Gots
      /\ reader \in Readers
  BY <1>1, <1>2, ItemsType, Typed DEF WrapTypes
<1>4. /\ sent.count \in 0..N - 1 /\ sent.count \in Int /\ sent.looked <= L
      /\ sent.windex = Wrp!IndexOf(sent.looked) /\ sent.at = Wrp!IndexOf(k)
      /\ \A i \in 0..sent.looked - 1 : i > k /\ Wrp!Items(s)[i + 1].m = sent.want => L - i >= N
  BY <1>1, <1>2, Sizes DEF Searching
<1>5. k \in Int /\ N \in Nat \ {0} /\ k >= sent.looked - N /\ k < sent.looked
  BY <1>3, <1>4, Sizes
<1> HIDE DEF k
<1>6. Wrp!IndexOf(k) \in Int /\ Wrp!IndexOf(sent.looked) \in Int
  <2>1. Wrp!IndexOf(k) \in 0..Wrp!MaxItemIndex - 1 /\ Wrp!IndexOf(sent.looked) \in 0..Wrp!MaxItemIndex - 1
    <3>1. sent.looked \in Int
      BY <1>3
    <3> QED BY <1>5, <3>1, IndexRange
  <2> QED BY <2>1, Sizes
<1>7. /\ e # -1 => e \in 0..L - 1 /\ Wrp!IndexOf(e) = Wrp!IndexOf(k) /\ L - e <= N
      /\ e = -1 => \A j \in 0..L - 1 : Wrp!IndexOf(j) = Wrp!IndexOf(k) => L - j > N
  BY <1>3, <1>4, <1>6, EntryFacts
<1>8. Numbered' /\ \A t : Wrp!Items(t)' = Wrp!Items(t)
  BY <1>1, <1>2, Still
<1> HIDE DEF e
<1>9. ASSUME e # -1
      PROVE  e \in 0..L - 1 /\ e \in Int /\ (e = k \/ e >= sent.looked) /\ e >= k
  <2>1. e \in 0..L - 1 /\ Wrp!IndexOf(e) = Wrp!IndexOf(k) /\ L - e <= N /\ e \in Int
    BY <1>3, <1>7, <1>9
  <2>2. e >= k
    <3> SUFFICES ASSUME e < k PROVE FALSE
      BY <1>5, <2>1
    <3>1. k - e >= Wrp!MaxItemIndex
      BY <1>5, <2>1, IndexApart
    <3> QED BY <1>3, <1>4, <1>5, <2>1, <3>1, Sizes
  <2>3. e = k \/ e >= sent.looked
    <3> SUFFICES ASSUME e > k PROVE e >= sent.looked
      BY <1>5, <2>1, <2>2
    <3>1. e - k >= Wrp!MaxItemIndex
      BY <1>5, <2>1, <1>7, <1>9, IndexApart
    <3> QED BY <1>3, <1>5, <2>1, <3>1, Sizes
  <2> QED BY <2>1, <2>2, <2>3
<1>10. ASSUME NEW hit \in BOOLEAN, NEW i \in Int, NEW next \in Int, Wrp!Answer(hit, i, next),
              Wrp!IndexOf(i) = next,
              hit => i \in 0..L - 1 /\ Wrp!Items(s)[i + 1].m = sent.want,
              ~hit => i = sent.looked,
              \A j \in 0..sent.looked - 1 :
                j > (IF hit THEN i ELSE sent.looked - N) /\ Wrp!Items(s)[j + 1].m = sent.want
                  => ~hit /\ L - j >= N
       PROVE  WrapInv'
  <2>1. /\ sent' = Wrp!Idle /\ sent' \in CallsOfReader /\ sent'.step = "idle"
        /\ reader' \in Readers /\ reader'.kind = reader.kind /\ reader'.made = reader.made
        /\ reader'.shm = s /\ reader'.pos = i /\ reader'.next = next
        /\ got' \in Gots /\ got'.read = got.read /\ got'.left = got.left
        /\ got'.search = [hit |-> hit, i |-> i, want |-> sent.want, shm |-> s,
                          looked |-> sent.looked, now |-> L]
    BY <1>1, <1>2, <1>10, AnswerTypes
  <2>2. WrapTypes'
    BY <1>1, <1>2, <2>1, Typed, ReaderTypes
  <2>3. ReaderAttached'
    BY <1>1, <1>2, <2>1 DEF ReaderAttached
  <2>4. Placed' /\ ControlInv' /\ Searching'
    BY <1>2, <2>1 DEF Placed, ControlInv, Searching
  <2>5. PICK t : t = s
    OBVIOUS
  <2>6. /\ got'.search = [hit |-> hit, i |-> i, want |-> sent.want, shm |-> t,
                          looked |-> sent.looked, now |-> L]
        /\ Wrp!Items(got.search.shm)' = Wrp!Items(t) /\ Wrp!Items(t) = Wrp!Items(s)
    BY <1>2, <2>1, <2>5 DEF Wrp!Items
  <2>7. Searched'
    BY <1>2, <1>4, <1>10, <2>1, <2>5, <2>6 DEF Searched
  <2>8. Wrp!SearchEndsAtNewest'
    BY <1>10, <2>1, <2>5, <2>6 DEF Wrp!SearchEndsAtNewest, Wrp!IndexOf, Wrp!MaxItemIndex
  <2> QED BY <1>8, <2>2, <2>3, <2>4, <2>7, <2>8 DEF WrapInv
<1>11. CASE (sent.count = 0 \/ e = -1) /\ Wrp!Miss
  <2>1. \A j \in 0..sent.looked - 1 :
          j > sent.looked - N /\ Wrp!Items(s)[j + 1].m = sent.want => L - j >= N
    <3> SUFFICES ASSUME NEW j \in 0..sent.looked - 1, j > sent.looked - N,
                        Wrp!Items(s)[j + 1].m = sent.want
                 PROVE  L - j >= N
      OBVIOUS
    <3>1. CASE j > k
      BY <1>4, <3>1
    <3>2. CASE j <= k
      <4>1. e = -1
        BY <1>3, <1>4, <1>5, <1>11, <3>2 DEF k
      <4>2. k \in 0..L - 1
        BY <1>3, <1>4, <1>5, <3>2
      <4>3. L - k > N
        BY <1>7, <4>1, <4>2
      <4> QED BY <1>3, <1>5, <3>2, <4>3
    <3> QED BY <1>3, <1>5, <3>1, <3>2
  <2>2. Wrp!Answer(FALSE, sent.looked, Wrp!IndexOf(sent.looked))
    BY <1>4, <1>11 DEF Wrp!Miss
  <2>3. sent.looked \in Int /\ FALSE \in BOOLEAN
    BY <1>3
  <2> QED BY <1>6, <1>10, <2>1, <2>2, <2>3
<1>12. CASE sent.count > 0 /\ e # -1 /\ Wrp!IsSearched(item) /\ Wrp!Answer(TRUE, e, sent.at)
  <2>1. e \in 0..L - 1 /\ e \in Int /\ (e = k \/ e >= sent.looked)
    BY <1>9, <1>12
  <2>2. Wrp!IndexOf(e) = sent.at /\ L - e <= N
    BY <1>4, <1>7, <1>12
  <2>3. Wrp!Items(s)[e + 1].m = sent.want
    BY <1>12 DEF Wrp!IsSearched
  <2>4. \A j \in 0..sent.looked - 1 : ~(j > e /\ Wrp!Items(s)[j + 1].m = sent.want)
    <3> SUFFICES ASSUME NEW j \in 0..sent.looked - 1, j > e, Wrp!Items(s)[j + 1].m = sent.want
                 PROVE  FALSE
      OBVIOUS
    <3>1. j > k /\ e = k
      BY <1>3, <1>5, <2>1
    <3>2. L - j >= N
      BY <1>4, <3>1
    <3> QED BY <1>3, <1>5, <2>1, <2>2, <3>2
  <2>5. TRUE \in BOOLEAN /\ sent.at \in Int
    BY <1>4, <1>6
  <2> QED BY <1>10, <1>12, <2>1, <2>2, <2>3, <2>4, <2>5
<1>13. CASE /\ sent.count > 0 /\ e # -1 /\ ~Wrp!IsSearched(item)
            /\ sent' = [sent EXCEPT !.count = @ - 1, !.at = Wrp!PreviousIndexStep(@)]
            /\ UNCHANGED <<reader, got>>
  <2>1. Wrp!PreviousIndexStep(sent.at) = Wrp!IndexOf(k - 1) /\ Wrp!IndexOf(k - 1) \in Int
    <3>1. Wrp!IndexOf(k - 1) \in 0..Wrp!MaxItemIndex - 1
      BY <1>5, IndexRange
    <3> QED BY <1>4, <1>5, <3>1, IndexBefore, Sizes
  <2>2. /\ sent' \in CallsOfReader /\ sent'.step = "search" /\ sent'.looked = sent.looked
        /\ sent'.want = sent.want /\ sent'.windex = sent.windex
        /\ sent'.count = sent.count - 1 /\ sent'.at = Wrp!IndexOf(k - 1)
    <3>1. PICK c \in Int, x \in Int : c = sent.count - 1 /\ x = Wrp!IndexOf(k - 1)
      BY <1>4, <2>1
    <3>2. sent' = [sent EXCEPT !.count = c, !.at = x]
      BY <1>13, <2>1, <3>1
    <3>3. sent' \in CallsOfReader
      BY <1>3, <3>2 DEF CallsOfReader
    <3> QED BY <1>2, <1>3, <3>1, <3>2, <3>3 DEF CallsOfReader
  <2>3. WrapTypes'
    <3>1. reader' = reader /\ got' = got
      BY <1>13
    <3>2. /\ reader.shm <= Len(wire.shms) /\ got.left.shm <= Len(wire.shms)
          /\ got.search.shm <= Len(wire.shms)
      BY <1>1, <1>2
    <3> QED BY <1>1, <1>2, <1>3, <2>2, <3>1, <3>2, ReaderTypes
  <2>4. ReaderAttached'
    BY <1>1, <1>2, <1>13, <2>2 DEF ReaderAttached
  <2>5. Placed' /\ ControlInv' /\ Searched' /\ Wrp!SearchEndsAtNewest'
    BY <1>2, <1>13 DEF Placed, ControlInv, Searched, Wrp!SearchEndsAtNewest
  <2>6. Wrp!Items(s)[e + 1].m # sent.want
    BY <1>13 DEF Wrp!IsSearched
  <2>7. \A i \in 0..sent.looked - 1 :
          i > k - 1 /\ Wrp!Items(s)[i + 1].m = sent.want => L - i >= N
    <3> SUFFICES ASSUME NEW i \in 0..sent.looked - 1, i > k - 1, Wrp!Items(s)[i + 1].m = sent.want
                 PROVE  L - i >= N
      OBVIOUS
    <3>1. CASE i > k
      BY <1>4, <3>1
    <3>2. CASE i = k
      <4>1. e # k
        BY <2>6, <3>2
      <4>2. e >= sent.looked /\ e \in 0..L - 1 /\ Wrp!IndexOf(e) = Wrp!IndexOf(k) /\ e \in Int
        BY <1>7, <1>9, <1>13, <4>1
      <4>3. e - k >= Wrp!MaxItemIndex
        <5>1. k < e
          BY <1>3, <1>5, <4>2
        <5> QED BY <1>5, <4>2, <5>1, IndexApart
      <4> QED BY <1>3, <1>5, <3>2, <4>2, <4>3, Sizes
    <3> QED BY <1>5, <3>1, <3>2
  <2>8. sent'.looked - N + sent'.count = k - 1 /\ sent'.count \in 0..N - 1
    BY <1>3, <1>4, <1>5, <1>13, <2>2 DEF k
  <2>9. Wrp!Items(reader.shm)' = Wrp!Items(s)
    BY <1>2, <1>13 DEF Wrp!Items
  <2>10. Searching'
    BY <1>4, <1>13, <2>2, <2>7, <2>8, <2>9 DEF Searching, Wrp!IndexOf, Wrp!MaxItemIndex
  <2> QED BY <1>8, <2>3, <2>4, <2>5, <2>10 DEF WrapInv
<1>14. e = Wrp!EntryAt(reader.shm, sent.at) /\ item = Wrp!Items(reader.shm)[e + 1]
  BY DEF e
<1> QED BY <1>11, <1>12, <1>13, <1>14 DEF Wrp!SearchStep, e

-----------------------------------------------------------------------------
\* In the beginning there is no memory.
LEMMA WrapInit == Wrp!Init => WrapInv
<1> SUFFICES ASSUME Wrp!Init PROVE WrapInv
  OBVIOUS
<1>1. <<>> \in Seq(Shm) /\ <<>> \in Seq(Nat) /\ Len(<<>>) = 0 /\ Len(Feed) \in Nat
  BY EmptySeq, Bounds
<1>2. /\ wire.shms = <<>> /\ wire.name = 0 /\ wire \in Memories
      /\ writer \in Writers /\ writer.shm = 0 /\ writer.sent = 0
      /\ reader \in Readers /\ ~reader.made /\ reader.shm = 0
      /\ sent = Wrp!Idle /\ sent.step = "idle"
      /\ got.read = <<>> /\ got.left = Wrp!NoLeave /\ got.search = Wrp!NoSearch /\ got \in Gots
  BY <1>1, CallTypes DEF Wrp!Init, Memories, Writers, Readers, Gots, Wrp!Idle
<1>3. got.left.shm = 0 /\ got.search.shm = 0
  BY <1>2 DEF Wrp!NoLeave, Wrp!NoSearch
<1>4. WrapTypes
  BY <1>1, <1>2, <1>3, CallTypes DEF WrapTypes
<1>5. Numbered
  BY <1>1, <1>2 DEF Numbered
<1>6. ReaderAttached
  BY <1>2, <1>3, CallTypes DEF ReaderAttached, Readers
<1>7. Placed /\ ControlInv
  BY <1>1, <1>2, <1>3 DEF Placed, ControlInv, ReadInOrder, LeftRead, Wrp!Ascending
<1>8. Searching /\ Searched /\ Wrp!SearchEndsAtNewest
  BY <1>2, <1>3 DEF Searching, Searched, Wrp!SearchEndsAtNewest
<1> QED BY <1>4, <1>5, <1>6, <1>7, <1>8 DEF WrapInv

\* No step of a handle breaks it.
LEMMA WrapInductive == WrapInv /\ [Wrp!Next]_(Wrp!vars) => WrapInv'
<1> SUFFICES ASSUME WrapInv, [Wrp!Next]_(Wrp!vars) PROVE WrapInv'
  OBVIOUS
<1>1. CASE Wrp!Create
  BY <1>1, CreateStep
<1>2. CASE Wrp!Write
  BY <1>2, WriteStep
<1>3. CASE Wrp!Destroy
  BY <1>3, DestroyStep
<1>4. CASE Wrp!Unlink \/ Wrp!Die \/ Wrp!RemoveShm
  BY <1>4, EndStep
<1>5. CASE Wrp!Open
  BY <1>5, OpenStep
<1>6. CASE Wrp!Read
  BY <1>6, ReadStep
<1>7. CASE Wrp!Look
  BY <1>7, LookStep
<1>8. CASE Wrp!LookAtFlag
  BY <1>8, LookAtFlagStep
<1>9. CASE Wrp!Take
  BY <1>9, TakeStep
<1>10. CASE Wrp!SeekReadIndexToWriteIndex
  BY <1>10, SeekStep
<1>11. CASE Wrp!SearchItems
  BY <1>11, SearchItemsStep
<1>12. CASE Wrp!SearchStep
  BY <1>12, SearchStepHolds
<1>13. CASE UNCHANGED Wrp!vars
  <2>1. WrapTypes /\ Numbered
    BY DEF WrapInv
  <2>2. UNCHANGED <<wire, writer, reader, sent, got>>
    BY <1>13 DEF Wrp!vars
  <2>3. WrapTypes' /\ Numbered'
    BY <2>1, <2>2 DEF WrapTypes, Numbered, Wrp!Items
  <2>4. Grown
    <3>1. Len(wire.shms) \in Nat /\ writer.sent \in Nat
      BY <2>1, Typed
    <3>2. \A t \in 1..Len(wire.shms) : Len(Wrp!Items(t)) \in Nat
      BY <2>1, ItemsType
    <3> QED BY <2>2, <3>1, <3>2 DEF Grown, Wrp!Items
  <2> QED BY <2>2, <2>3, <2>4, WriterHolds
<1> QED BY <1>1, <1>2, <1>3, <1>4, <1>5, <1>6, <1>7, <1>8, <1>9, <1>10, <1>11, <1>12, <1>13 DEF Wrp!Next

LEMMA WrapArrives == WrapInv => Wrp!CommandsArrive
<1> SUFFICES ASSUME WrapInv, reader.kind = "control"
             PROVE  /\ Wrp!Ascending(got.read)
                    /\ got.left.shm # 0 /\ got.left.looked - got.left.pos < Wrp!MaxItemIndex =>
                         \A i \in got.left.from..got.left.looked - 1 :
                           Wrp!Items(got.left.shm)[i + 1].m # 0
                             => Wrp!Items(got.left.shm)[i + 1].n \in Wrp!Range(got.read)
  BY DEF Wrp!CommandsArrive
<1>1. ReadInOrder /\ LeftRead
  BY DEF WrapInv, ControlInv
<1> QED BY <1>1 DEF ReadInOrder, LeftRead, Arrived

-----------------------------------------------------------------------------
\* The invariant of the handles, whatever is sent and however often memories end
\* and come back (libshmmedia_control_protocol.cpp, libshmmedia_tvulive_protocol.cpp).
THEOREM WrapInvariant == Wrp!Spec => []WrapInv
<1> QED BY WrapInit, WrapInductive, PTL DEF Wrp!Spec

\* Commands are read in the order they were sent, none of them twice, and no memory
\* is left with one unread unless the reader was lapped
\* (CLibShmmediaCtrlCmdWrapHandle::readBin).
THEOREM CommandsDoArrive == Wrp!Spec => []Wrp!CommandsArrive
<1> QED BY WrapInvariant, WrapArrives, PTL

\* A search backwards ends at the newest item wanted, or behind all there is
\* (CTvuVariableItemBaseShm::SearchWholeItems).
THEOREM SearchesEndAtNewest == Wrp!Spec => []Wrp!SearchEndsAtNewest
<1>1. WrapInv => Wrp!SearchEndsAtNewest
  BY DEF WrapInv
<1> QED BY <1>1, WrapInvariant, PTL

-----------------------------------------------------------------------------
(***************************************************************************)
(* The header of a memory.  Its cells are those of MemoryHead.             *)
(***************************************************************************)

HeadRecords == [vbr : Nat, sar : Nat, src : Nat, dst : Nat, other : Nat]
HeadMemories == [cells : [Hdr!Cells -> Nat], length : Nat, build : Builds]
HandlesOfHead == [open : BOOLEAN, build : Builds \cup {Hdr!None},
                  head : HeadRecords \cup {Hdr!None}]
Tolds == [close : BOOLEAN, head : HeadRecords \cup {Hdr!None}, vbr : Nat, alone : BOOLEAN,
          asked : Nat]
Answers == [asked : Nat, now : Nat, timeout : Nat, stamped : BOOLEAN, room : BOOLEAN,
            has : BOOLEAN]

HeaderTypes ==
  /\ wire \in HeadMemories \cup {Hdr!None}
  /\ writer \in [Creators -> HandlesOfHead]
  /\ sent \in Tolds
  /\ got \in Answers \cup {Hdr!None}
  /\ uses \in [calls : Nat, clock : Nat]

\* The version stays that of the build which made the memory, the header has room
\* for what that build knows, and what lies where the extension would be does not
\* look like one.
Laid ==
  wire # Hdr!None =>
    /\ wire.cells[0] = wire.build.version
    /\ wire.build.ext => wire.length >= 120 /\ wire.cells[24] = 1 /\ wire.cells[28] = sent.asked
    /\ ~wire.build.ext /\ wire.length > 96 => wire.cells[24] = 0

\* A handle is of a memory.  A creator that is alone has a copy of what it sent last,
\* but for the vbr, and has none when it has sent nothing.
Copies ==
  /\ reader # 0 => wire # Hdr!None
  /\ \A c \in Creators : writer[c].open =>
       /\ wire # Hdr!None
       /\ sent.alone =>
            /\ \A d \in Creators : writer[d].open => d = c
            /\ (writer[c].head = Hdr!None) = (sent.head = Hdr!None)
            /\ writer[c].head # Hdr!None =>
                 /\ writer[c].head.vbr = sent.vbr
                 /\ \A f \in {"sar", "src", "dst", "other"} : writer[c].head[f] = sent.head[f]

HeaderInv ==
  HeaderTypes /\ Laid /\ Copies /\ Hdr!HeaderSaysLast /\ Hdr!PresenceIsTold

-----------------------------------------------------------------------------
\* A field has one place among those of its version.
LEMMA FieldPlace ==
    ASSUME NEW v, NEW f, NEW k \in DOMAIN Hdr!FieldsOf(v), Hdr!FieldsOf(v)[k] = f,
           \A i \in DOMAIN Hdr!FieldsOf(v) : Hdr!FieldsOf(v)[i] = f => i = k
    PROVE  Hdr!CellOf(v, f) = 4 + k
<1>1. (CHOOSE i \in DOMAIN Hdr!FieldsOf(v) : Hdr!FieldsOf(v)[i] = f) = k
  OBVIOUS
<1> QED BY <1>1 DEF Hdr!CellOf

LEMMA PlacesOfV2 ==
  /\ Hdr!CellOf(2, "close") = 5 /\ Hdr!CellOf(2, "init") = 6 /\ Hdr!CellOf(2, "vbr") = 7
  /\ Hdr!CellOf(2, "sar") = 8 /\ Hdr!CellOf(2, "src") = 9 /\ Hdr!CellOf(2, "dst") = 10
<1> DEFINE F == Hdr!FieldsOf(2)
<1>1. /\ Len(F) = 6 /\ DOMAIN F = 1..6
      /\ F[1] = "close" /\ F[2] = "init" /\ F[3] = "vbr" /\ F[4] = "sar" /\ F[5] = "src"
      /\ F[6] = "dst"
  BY DEF Hdr!FieldsOf, Hdr!HeadFields
<1>2. /\ 1 \in DOMAIN F /\ 2 \in DOMAIN F /\ 3 \in DOMAIN F /\ 4 \in DOMAIN F /\ 5 \in DOMAIN F
      /\ 6 \in DOMAIN F /\ \A i \in DOMAIN F : i \in {1, 2, 3, 4, 5, 6}
  BY <1>1
<1> HIDE DEF F
<1>3. Hdr!CellOf(2, "close") = 4 + 1 /\ Hdr!CellOf(2, "init") = 4 + 2
  BY <1>1, <1>2, FieldPlace DEF F
<1>4. Hdr!CellOf(2, "vbr") = 4 + 3 /\ Hdr!CellOf(2, "sar") = 4 + 4
  BY <1>1, <1>2, FieldPlace DEF F
<1>5. Hdr!CellOf(2, "src") = 4 + 5 /\ Hdr!CellOf(2, "dst") = 4 + 6
  BY <1>1, <1>2, FieldPlace DEF F
<1> QED BY <1>3, <1>4, <1>5

LEMMA PlacesOfLater ==
    ASSUME NEW v \in {3, 4}
    PROVE  /\ Hdr!CellOf(v, "sub") = 5
           /\ Hdr!CellOf(v, "close") = 6 /\ Hdr!CellOf(v, "init") = 7 /\ Hdr!CellOf(v, "vbr") = 8
           /\ Hdr!CellOf(v, "sar") = 9 /\ Hdr!CellOf(v, "src") = 10 /\ Hdr!CellOf(v, "dst") = 11
<1> DEFINE F == Hdr!FieldsOf(v)
<1>1. /\ Len(F) = 7 /\ DOMAIN F = 1..7
      /\ F[1] = "sub" /\ F[2] = "close" /\ F[3] = "init" /\ F[4] = "vbr" /\ F[5] = "sar"
      /\ F[6] = "src" /\ F[7] = "dst"
  BY DEF Hdr!FieldsOf, Hdr!HeadFields
<1>2. /\ 1 \in DOMAIN F /\ 2 \in DOMAIN F /\ 3 \in DOMAIN F /\ 4 \in DOMAIN F /\ 5 \in DOMAIN F
      /\ 6 \in DOMAIN F /\ 7 \in DOMAIN F /\ \A i \in DOMAIN F : i \in {1, 2, 3, 4, 5, 6, 7}
  BY <1>1
<1> HIDE DEF F
<1>3. Hdr!CellOf(v, "sub") = 4 + 1 /\ Hdr!CellOf(v, "close") = 4 + 2
  BY <1>1, <1>2, FieldPlace DEF F
<1>4. Hdr!CellOf(v, "init") = 4 + 3 /\ Hdr!CellOf(v, "vbr") = 4 + 4
  BY <1>1, <1>2, FieldPlace DEF F
<1>5. Hdr!CellOf(v, "sar") = 4 + 5 /\ Hdr!CellOf(v, "src") = 4 + 6
  BY <1>1, <1>2, FieldPlace DEF F
<1>6. Hdr!CellOf(v, "dst") = 4 + 7
  BY <1>1, <1>2, FieldPlace DEF F
<1> QED BY <1>3, <1>4, <1>5, <1>6

\* The fields of one version lie one behind the other.
LEMMA Places ==
    ASSUME NEW v \in 2..4
    PROVE  LET k == IF v = 2 THEN 5 ELSE 6 IN
             /\ Hdr!CellOf(v, "close") = k /\ Hdr!CellOf(v, "init") = k + 1
             /\ Hdr!CellOf(v, "vbr") = k + 2 /\ Hdr!CellOf(v, "sar") = k + 3
             /\ Hdr!CellOf(v, "src") = k + 4 /\ Hdr!CellOf(v, "dst") = k + 5
             /\ v # 2 => Hdr!CellOf(v, "sub") = 5
<1>1. CASE v = 2
  BY <1>1, PlacesOfV2
<1>2. CASE v \in {3, 4}
  BY <1>2, PlacesOfLater
<1> QED BY <1>1, <1>2

\* What a store to one field of a header leaves.
LEMMA PutFacts ==
    ASSUME NEW m \in HeadMemories, NEW f, NEW x \in Nat, NEW k \in 4..15,
           Hdr!CellOf(m.cells[0], f) = k
    PROVE  LET n == Hdr!Put(m, f, x) IN
             /\ n \in HeadMemories /\ n.length = m.length /\ n.build = m.build
             /\ n.cells[k] = x /\ \A c \in Hdr!Cells \ {k} : n.cells[c] = m.cells[c]
<1>1. Hdr!Put(m, f, x) = [m EXCEPT !.cells[k] = x] /\ k \in Hdr!Cells
  BY DEF Hdr!Put, Hdr!Version, Hdr!Cells
<1> QED BY <1>1 DEF HeadMemories

\* What a store leaves where it does not store; Version, ExtVersion and ReadTime
\* are among the cells no field has.
Unmoved(m, n) ==
  /\ n \in HeadMemories /\ n.length = m.length /\ n.build = m.build
  /\ \A c \in Hdr!Cells : c \notin 5..15 => n.cells[c] = m.cells[c]

HasHead(m, h, vbr) ==
  /\ Hdr!Get(m, "vbr") = vbr
  /\ \A f \in {"sar", "src", "dst"} : Hdr!Get(m, f) = h[f]

LEMMA FlagFacts ==
    ASSUME NEW m \in HeadMemories, m.cells[0] \in 1..4, NEW closed \in BOOLEAN
    PROVE  LET n == Hdr!SetCloseFlag(m, closed) IN
             /\ Unmoved(m, n)
             /\ m.cells[0] # 1 =>
                  /\ Hdr!CheckCloseFlag(n) = closed
                  /\ \A h, vbr : HasHead(m, h, vbr) => HasHead(n, h, vbr)
<1> DEFINE v == m.cells[0]
           n == Hdr!SetCloseFlag(m, closed)
           x == IF closed THEN 1 ELSE 0
<1>1. v \in Nat /\ m.cells \in [Hdr!Cells -> Nat] /\ 5 \in Hdr!Cells /\ 0 \in Hdr!Cells
  BY DEF HeadMemories, Hdr!Cells
<1>2. CASE v = 1
  <2>1. Hdr!MapVer(m) = 1
    BY <1>2 DEF Hdr!MapVer, Hdr!Version
  <2> QED BY <1>2, <2>1 DEF Hdr!SetCloseFlag, Unmoved
<1>3. CASE v \in 2..4
  <2>1. Hdr!MapVer(m) # 1
    <3>1. v # 2 => Hdr!Get(m, "sub") = m.cells[5]
      BY <1>3, Places DEF Hdr!Get, Hdr!Version
    <3> QED BY <1>1, <1>3, <3>1 DEF Hdr!MapVer, Hdr!Version
  <2>2. n = Hdr!Put(m, "close", x)
    BY <2>1 DEF Hdr!SetCloseFlag
  <2>3. PICK k \in 5..6 :
          /\ Hdr!CellOf(v, "close") = k /\ Hdr!CellOf(v, "vbr") = k + 2
          /\ Hdr!CellOf(v, "sar") = k + 3 /\ Hdr!CellOf(v, "src") = k + 4
          /\ Hdr!CellOf(v, "dst") = k + 5
    BY <1>3, Places
  <2>4. x \in Nat /\ k \in 4..15
    OBVIOUS
  <2> HIDE DEF x
  <2>5. /\ n \in HeadMemories /\ n.length = m.length /\ n.build = m.build
        /\ n.cells[k] = x /\ \A c \in Hdr!Cells \ {k} : n.cells[c] = m.cells[c]
    BY <2>2, <2>3, <2>4, PutFacts
  <2> HIDE DEF n
  <2>6. Unmoved(m, n)
    BY <2>5 DEF Unmoved
  <2>7. n.cells[0] = v
    BY <1>1, <2>5
  <2>8. Hdr!CheckCloseFlag(n) = closed
    <3>1. Hdr!Get(n, "close") = x
      BY <2>3, <2>5, <2>7 DEF Hdr!Get, Hdr!Version
    <3> QED BY <1>3, <2>7, <3>1 DEF Hdr!CheckCloseFlag, Hdr!Version, x
  <2>9. \A f \in {"vbr", "sar", "src", "dst"} : Hdr!Get(n, f) = Hdr!Get(m, f)
    <3>1. k + 2 \in Hdr!Cells \ {k} /\ k + 3 \in Hdr!Cells \ {k} /\ k + 4 \in Hdr!Cells \ {k}
          /\ k + 5 \in Hdr!Cells \ {k}
      BY DEF Hdr!Cells
    <3> QED BY <2>3, <2>5, <2>7, <3>1 DEF Hdr!Get, Hdr!Version
  <2> QED BY <2>6, <2>8, <2>9 DEF HasHead, n
<1> QED BY <1>2, <1>3

\* A handle that creates clears the close flag, and writes nothing behind the media
\* head (initShmV2, initShmV3, initShmV4).
LEMMA InitFacts ==
    ASSUME NEW m \in HeadMemories, m.cells[0] \in 1..4, NEW b \in Builds
    PROVE  LET n == Hdr!InitToWrite(m, b) IN
             /\ Unmoved(m, n)
             /\ m.cells[0] # 1 => Hdr!CheckCloseFlag(n) = FALSE
<1> DEFINE v == m.cells[0]
<1>1. /\ m.cells \in [Hdr!Cells -> Nat] /\ m.length \in Nat /\ b.sub \in Nat
      /\ 0 \in Hdr!Cells /\ 15 \in Hdr!Cells /\ 3 \in Nat /\ 0 \in Nat
  BY HeadAssumption DEF HeadMemories, Hdr!Cells
<1> DEFINE V2(p) == Hdr!Put(Hdr!Put(p, "close", 0), "init", 3)
<1>2. \A p \in HeadMemories : Unmoved(m, p) /\ v \in 2..4 =>
        Unmoved(m, V2(p)) /\ Hdr!CheckCloseFlag(V2(p)) = FALSE
  <2> SUFFICES ASSUME NEW p \in HeadMemories, Unmoved(m, p), v \in 2..4
               PROVE  Unmoved(m, V2(p)) /\ Hdr!CheckCloseFlag(V2(p)) = FALSE
    OBVIOUS
  <2> DEFINE o == Hdr!Put(p, "close", 0)
             n == Hdr!Put(o, "init", 3)
  <2>1. PICK k \in 5..6 : Hdr!CellOf(v, "close") = k /\ Hdr!CellOf(v, "init") = k + 1
    BY Places
  <2>2. p.cells[0] = v
    BY <1>1 DEF Unmoved
  <2>3. /\ o \in HeadMemories /\ o.length = p.length /\ o.build = p.build
        /\ o.cells[k] = 0 /\ \A c \in Hdr!Cells \ {k} : o.cells[c] = p.cells[c]
    <3>1. k \in 4..15 /\ Hdr!CellOf(p.cells[0], "close") = k
      BY <2>1, <2>2
    <3> QED BY <1>1, <3>1, PutFacts
  <2> HIDE DEF o
  <2>4. o.cells[0] = v
    BY <1>1, <2>2, <2>3
  <2>5. /\ n \in HeadMemories /\ n.length = o.length /\ n.build = o.build
        /\ \A c \in Hdr!Cells \ {k + 1} : n.cells[c] = o.cells[c]
    <3>1. k + 1 \in 4..15 /\ Hdr!CellOf(o.cells[0], "init") = k + 1
      BY <2>1, <2>4
    <3> QED BY <1>1, <2>3, <3>1, PutFacts
  <2> HIDE DEF n
  <2>6. Unmoved(m, n)
    BY <2>3, <2>5 DEF Unmoved
  <2>7. n.cells[0] = v /\ n.cells[k] = 0
    <3>1. k \in Hdr!Cells \ {k + 1} /\ 0 \in Hdr!Cells \ {k + 1}
      BY DEF Hdr!Cells
    <3> QED BY <2>3, <2>4, <2>5, <3>1
  <2>8. Hdr!CheckCloseFlag(n) = FALSE
    BY <2>1, <2>7 DEF Hdr!CheckCloseFlag, Hdr!Get, Hdr!Version
  <2> QED BY <2>6, <2>8 DEF n, o
<1>3. Unmoved(m, m)
  BY DEF Unmoved
<1>4. \A p \in HeadMemories : Unmoved(m, p) /\ v \in 3..4 =>
        Unmoved(m, Hdr!Put(p, "sub", b.sub)) /\ Hdr!Put(p, "sub", b.sub) \in HeadMemories
  <2> SUFFICES ASSUME NEW p \in HeadMemories, Unmoved(m, p), v \in 3..4
               PROVE  Unmoved(m, Hdr!Put(p, "sub", b.sub)) /\ Hdr!Put(p, "sub", b.sub) \in HeadMemories
    OBVIOUS
  <2>1. p.cells[0] = v
    BY <1>1 DEF Unmoved
  <2>2. Hdr!CellOf(p.cells[0], "sub") = 5 /\ 5 \in 4..15
    BY <2>1, Places
  <2> QED BY <1>1, <2>2, PutFacts DEF Unmoved
<1> HIDE DEF V2
<1>5. CASE v = 1
  BY <1>3, <1>5 DEF Hdr!InitToWrite, Hdr!Version
<1>6. CASE v = 2
  <2>1. Hdr!InitToWrite(m, b) = V2(m)
    BY <1>6 DEF Hdr!InitToWrite, Hdr!InitShmV2, Hdr!Version, Hdr!Finished, V2
  <2> QED BY <1>2, <1>3, <1>6, <2>1
<1>7. CASE v = 3
  <2>1. Hdr!InitToWrite(m, b) = V2(Hdr!Put(m, "sub", b.sub))
    BY <1>7 DEF Hdr!InitToWrite, Hdr!InitShmV3, Hdr!Version, Hdr!Finished, V2
  <2>2. Unmoved(m, Hdr!Put(m, "sub", b.sub)) /\ Hdr!Put(m, "sub", b.sub) \in HeadMemories
    BY <1>3, <1>4, <1>7
  <2> QED BY <1>2, <1>7, <2>1, <2>2
<1>8. CASE v = 4
  <2> DEFINE p == [m EXCEPT !.cells[15] = m.length]
  <2>1. p \in HeadMemories /\ Unmoved(m, p)
    BY <1>1 DEF HeadMemories, Unmoved
  <2>2. Hdr!InitToWrite(m, b) = V2(Hdr!Put(p, "sub", b.sub))
    BY <1>8 DEF Hdr!InitToWrite, Hdr!InitShmV4, Hdr!InitShmV3, Hdr!Version, Hdr!Finished,
                Hdr!HeadDataSize, V2
  <2> HIDE DEF p
  <2>3. Unmoved(m, Hdr!Put(p, "sub", b.sub)) /\ Hdr!Put(p, "sub", b.sub) \in HeadMemories
    BY <1>4, <1>8, <2>1
  <2> QED BY <1>2, <1>8, <2>2, <2>3
<1>9. v = 1 \/ v = 2 \/ v = 3 \/ v = 4
  OBVIOUS
<1> QED BY <1>5, <1>6, <1>7, <1>8, <1>9

\* A media head is copied whole, and with it nothing else (copy_media_head_from_param).
LEMMA CopyFacts ==
    ASSUME NEW m \in HeadMemories, m.cells[0] \in 1..4, NEW h \in HeadRecords
    PROVE  LET n == Hdr!CopyFromParam(m, h) IN
             /\ Unmoved(m, n)
             /\ m.cells[0] # 1 => HasHead(n, h, h.vbr)
                                  /\ Hdr!CheckCloseFlag(n) = Hdr!CheckCloseFlag(m)
<1> DEFINE v == m.cells[0]
<1>1. /\ m.cells \in [Hdr!Cells -> Nat] /\ 0 \in Hdr!Cells
      /\ h.vbr \in Nat /\ h.sar \in Nat /\ h.src \in Nat /\ h.dst \in Nat
  BY DEF HeadMemories, Hdr!Cells, HeadRecords
<1>2. CASE v = 1
  BY <1>2 DEF Hdr!CopyFromParam, Hdr!Version, Unmoved
<1>3. CASE v \in 2..4
  <2> DEFINE a == Hdr!Put(m, "vbr", h.vbr)
             b == Hdr!Put(a, "sar", h.sar)
             d == Hdr!Put(b, "src", h.src)
             n == Hdr!Put(d, "dst", h.dst)
  <2>1. Hdr!CopyFromParam(m, h) = n
    BY <1>3 DEF Hdr!CopyFromParam, Hdr!Version
  <2>2. PICK k \in 5..6 :
          /\ Hdr!CellOf(v, "close") = k /\ Hdr!CellOf(v, "vbr") = k + 2
          /\ Hdr!CellOf(v, "sar") = k + 3 /\ Hdr!CellOf(v, "src") = k + 4
          /\ Hdr!CellOf(v, "dst") = k + 5
    BY <1>3, Places
  <2>3. /\ k + 2 \in 4..15 /\ k + 3 \in 4..15 /\ k + 4 \in 4..15 /\ k + 5 \in 4..15
        /\ \A c \in {0, k, k + 2, k + 3, k + 4, k + 5} : c \in Hdr!Cells
    BY DEF Hdr!Cells
  <2>4. /\ a \in HeadMemories /\ a.length = m.length /\ a.build = m.build
        /\ a.cells[k + 2] = h.vbr /\ \A c \in Hdr!Cells \ {k + 2} : a.cells[c] = m.cells[c]
    BY <1>1, <2>2, <2>3, PutFacts
  <2> HIDE DEF a
  <2>5. /\ b \in HeadMemories /\ b.length = m.length /\ b.build = m.build
        /\ b.cells[k + 3] = h.sar /\ \A c \in Hdr!Cells \ {k + 3} : b.cells[c] = a.cells[c]
    <3>1. Hdr!CellOf(a.cells[0], "sar") = k + 3
      BY <2>2, <2>3, <2>4
    <3> QED BY <1>1, <2>3, <2>4, <3>1, PutFacts
  <2> HIDE DEF b
  <2>6. /\ d \in HeadMemories /\ d.length = m.length /\ d.build = m.build
        /\ d.cells[k + 4] = h.src /\ \A c \in Hdr!Cells \ {k + 4} : d.cells[c] = b.cells[c]
    <3>1. Hdr!CellOf(b.cells[0], "src") = k + 4
      BY <2>2, <2>3, <2>4, <2>5
    <3> QED BY <1>1, <2>3, <2>5, <3>1, PutFacts
  <2> HIDE DEF d
  <2>7. /\ n \in HeadMemories /\ n.length = m.length /\ n.build = m.build
        /\ n.cells[k + 5] = h.dst /\ \A c \in Hdr!Cells \ {k + 5} : n.cells[c] = d.cells[c]
    <3>1. Hdr!CellOf(d.cells[0], "dst") = k + 5
      BY <2>2, <2>3, <2>4, <2>5, <2>6
    <3> QED BY <1>1, <2>3, <2>6, <3>1, PutFacts
  <2> HIDE DEF n
  <2>8. /\ n.cells[0] = v /\ n.cells[k] = m.cells[k] /\ n.cells[k + 2] = h.vbr
        /\ n.cells[k + 3] = h.sar /\ n.cells[k + 4] = h.src
    BY <2>3, <2>4, <2>5, <2>6, <2>7
  <2>9. Unmoved(m, n)
    BY <2>4, <2>5, <2>6, <2>7 DEF Unmoved
  <2>10. HasHead(n, h, h.vbr)
    BY <2>2, <2>7, <2>8 DEF HasHead, Hdr!Get, Hdr!Version
  <2>11. Hdr!CheckCloseFlag(n) = Hdr!CheckCloseFlag(m)
    BY <2>2, <2>8 DEF Hdr!CheckCloseFlag, Hdr!Get, Hdr!Version
  <2> QED BY <2>1, <2>9, <2>10, <2>11
<1> QED BY <1>2, <1>3

\* A header that was just made: it is long enough for what its build knows, and
\* what it has no extension for is zero or of the first item (InitCreateShm).
LEMMA MadeFacts ==
    \A b \in Builds, asked \in HeadLengths, byte \in {0, 1} :
      LET n == Hdr!InitCreateShm(b, Hdr!HeaderLength(b, asked), byte) IN
        /\ n \in HeadMemories /\ n.build = b /\ n.cells[0] = b.version
        /\ b.ext => n.length >= 120 /\ n.cells[24] = 1 /\ n.cells[28] = 0
        /\ ~b.ext /\ n.length > 96 => n.cells[24] = 0
        /\ b.version # 1 => Hdr!CheckCloseFlag(n) = FALSE
<1> TAKE b \in Builds, asked \in HeadLengths, byte \in {0, 1}
<1> DEFINE len == Hdr!HeaderLength(b, asked)
           n == Hdr!InitCreateShm(b, len, byte)
<1>1. /\ b.version \in 1..4 /\ b.ext \in BOOLEAN /\ (b.ext => b.version = 4) /\ asked \in Nat
      /\ byte \in Nat
  BY HeadAssumption
<1>2. len \in Nat /\ len >= 56 /\ (b.ext => len >= 120)
  <2> DEFINE pre == Hdr!PreRequireHeadLength(b)
  <2>1. pre \in Nat /\ pre >= 56 /\ (b.ext => pre >= 120)
    BY <1>1 DEF Hdr!PreRequireHeadLength
  <2> HIDE DEF pre
  <2>2. PICK x \in Nat : len = Hdr!Align16(x) /\ x >= pre
    BY <1>1, <2>1 DEF Hdr!HeaderLength, pre
  <2>3. Hdr!Align16(x) \in Nat /\ Hdr!Align16(x) >= x
    BY <2>2 DEF Hdr!Align16
  <2> HIDE DEF len
  <2> QED BY <2>1, <2>2, <2>3
<1> HIDE DEF len
<1>3. n.length = len /\ n.build = b
  BY DEF Hdr!InitCreateShm
<1> DEFINE bare == [c \in Hdr!Cells |-> IF 4 * c < len THEN 0 ELSE IF c = 24 THEN byte ELSE 7]
           made == [bare EXCEPT ![0] = b.version]
<1>4. n.cells = IF b.ext THEN [made EXCEPT ![24] = 1, ![28] = 0] ELSE made
  BY DEF Hdr!InitCreateShm, Hdr!Version, Hdr!ExtVersion, Hdr!ReadTime, Hdr!Item
<1>5. 0 \in Hdr!Cells /\ 5 \in Hdr!Cells /\ 6 \in Hdr!Cells /\ 24 \in Hdr!Cells /\ 28 \in Hdr!Cells
  BY DEF Hdr!Cells
<1>6. bare \in [Hdr!Cells -> Nat] /\ bare[5] = 0 /\ bare[6] = 0 /\ (len > 96 => bare[24] = 0)
  BY <1>1, <1>2, <1>5 DEF Hdr!Cells
<1> HIDE DEF bare
<1>7. n \in HeadMemories
  <2>1. made \in [Hdr!Cells -> Nat]
    <3>1. b.version \in Nat
      BY <1>1
    <3> QED BY <1>6, <3>1
  <2>2. [made EXCEPT ![24] = 1, ![28] = 0] \in [Hdr!Cells -> Nat]
    <3> HIDE DEF made
    <3>1. 0 \in Nat /\ 1 \in Nat
      OBVIOUS
    <3> QED BY <2>1, <3>1
  <2>3. n.cells \in [Hdr!Cells -> Nat]
    BY <1>4, <2>1, <2>2
  <2> QED BY <1>2, <2>3 DEF Hdr!InitCreateShm, HeadMemories
<1>8. /\ n.cells[0] = b.version /\ n.cells[5] = 0 /\ n.cells[6] = 0
      /\ b.ext => n.cells[24] = 1 /\ n.cells[28] = 0
      /\ ~b.ext /\ len > 96 => n.cells[24] = 0
  BY <1>1, <1>4, <1>5, <1>6
<1> HIDE DEF n
<1>9. b.version # 1 => Hdr!CheckCloseFlag(n) = FALSE
  <2> SUFFICES ASSUME b.version # 1 PROVE Hdr!CheckCloseFlag(n) = FALSE
    OBVIOUS
  <2>1. PICK k \in 5..6 : Hdr!CellOf(b.version, "close") = k
    <3>1. b.version \in 2..4
      BY <1>1
    <3> QED BY <3>1, Places
  <2>2. Hdr!Get(n, "close") = 0
    BY <1>8, <2>1 DEF Hdr!Get, Hdr!Version
  <2> QED BY <2>2 DEF Hdr!CheckCloseFlag
<1> QED BY <1>2, <1>3, <1>7, <1>8, <1>9 DEF n, len

-----------------------------------------------------------------------------
\* What every step of the header keeps, when it stores only to fields.
LEMMA LaidHolds ==
    ASSUME HeaderTypes, Laid, wire # Hdr!None, Unmoved(wire, wire'), sent'.asked = sent.asked
    PROVE  Laid' /\ wire' \in HeadMemories
<1>1. 0 \in Hdr!Cells /\ 24 \in Hdr!Cells /\ 28 \in Hdr!Cells
  BY DEF Hdr!Cells
<1>2. /\ wire'.cells[0] = wire.cells[0] /\ wire'.cells[24] = wire.cells[24]
      /\ wire'.cells[28] = wire.cells[28] /\ wire'.length = wire.length
      /\ wire'.build = wire.build /\ wire' \in HeadMemories
  BY <1>1 DEF Unmoved
<1> QED BY <1>2 DEF Laid

LEMMA MemoryFacts ==
    ASSUME HeaderTypes, Laid, wire # Hdr!None
    PROVE  wire \in HeadMemories /\ wire.cells[0] \in 1..4 /\ wire.build \in Builds
<1>1. wire \in HeadMemories
  BY DEF HeaderTypes
<1> QED BY <1>1, HeadAssumption DEF Laid, HeadMemories

\* A memory is not none, and neither is a media head.
LEMMA RecordsAreSome == Hdr!None \notin HeadMemories /\ Hdr!None \notin HeadRecords
<1>1. DOMAIN Hdr!None = {}
  BY DEF Hdr!None
<1>2. ASSUME NEW m \in HeadMemories PROVE "length" \in DOMAIN m
  BY DEF HeadMemories
<1>3. ASSUME NEW h \in HeadRecords PROVE "vbr" \in DOMAIN h
  BY DEF HeadRecords
<1> QED BY <1>1, <1>2, <1>3

\* Making a memory (Create).
LEMMA CreateHolds == ASSUME HeaderInv, NEW c \in Creators, Hdr!Create(c) PROVE HeaderInv'
<1>1. /\ HeaderTypes /\ Laid /\ Copies /\ Hdr!PresenceIsTold
      /\ wire = Hdr!None /\ got' = got /\ uses' = [uses EXCEPT !.calls = @ + 1]
      /\ sent' = [sent EXCEPT !.close = FALSE, !.head = Hdr!None, !.alone = TRUE, !.asked = 0]
  BY DEF HeaderInv, Hdr!Create, Hdr!Calling
<1>2. PICK b \in Builds, asked \in HeadLengths, byte \in {0, 1}, dies \in BOOLEAN :
        LET made == Hdr!InitCreateShm(b, Hdr!HeaderLength(b, asked), byte) IN
          /\ wire' = IF dies THEN made ELSE Hdr!InitToWrite(made, b)
          /\ writer' = IF dies THEN writer
                       ELSE [writer EXCEPT ![c] = [open |-> TRUE, build |-> b, head |-> Hdr!None]]
  BY DEF Hdr!Create
<1> DEFINE made == Hdr!InitCreateShm(b, Hdr!HeaderLength(b, asked), byte)
<1>3. /\ made \in HeadMemories /\ made.build = b /\ made.cells[0] = b.version
      /\ b.ext => made.length >= 120 /\ made.cells[24] = 1 /\ made.cells[28] = 0
      /\ ~b.ext /\ made.length > 96 => made.cells[24] = 0
      /\ b.version # 1 => Hdr!CheckCloseFlag(made) = FALSE
      /\ b.version \in 1..4
  <2>1. b.version \in 1..4
    BY HeadAssumption
  <2>2. /\ made \in HeadMemories /\ made.build = b /\ made.cells[0] = b.version
        /\ b.ext => made.length >= 120 /\ made.cells[24] = 1 /\ made.cells[28] = 0
        /\ ~b.ext /\ made.length > 96 => made.cells[24] = 0
        /\ b.version # 1 => Hdr!CheckCloseFlag(made) = FALSE
    BY MadeFacts, SMT
  <2> HIDE DEF made
  <2> QED BY <2>1, <2>2
<1>4. /\ Unmoved(made, wire')
      /\ b.version # 1 => Hdr!CheckCloseFlag(wire') = FALSE
  <2> HIDE DEF made
  <2>1. CASE dies
    BY <1>2, <1>3, <2>1 DEF Unmoved, made
  <2>2. CASE ~dies
    BY <1>2, <1>3, <2>2, InitFacts DEF made
  <2> QED BY <2>1, <2>2
<1> HIDE DEF made
<1>5. /\ sent' \in Tolds /\ sent'.close = FALSE /\ sent'.head = Hdr!None /\ sent'.asked = 0
  BY <1>1 DEF HeaderTypes, Tolds
<1>6. wire' \in HeadMemories /\ wire' # Hdr!None
  <2>1. wire' \in HeadMemories
    BY <1>4 DEF Unmoved
  <2> QED BY <2>1, RecordsAreSome
<1>7. Laid'
  <2>1. 0 \in Hdr!Cells /\ 24 \in Hdr!Cells /\ 28 \in Hdr!Cells
    BY DEF Hdr!Cells
  <2>2. /\ wire'.cells[0] = made.cells[0] /\ wire'.cells[24] = made.cells[24]
        /\ wire'.cells[28] = made.cells[28] /\ wire'.length = made.length
        /\ wire'.build = b
    BY <1>3, <1>4, <2>1 DEF Unmoved
  <2> QED BY <1>3, <1>5, <2>2 DEF Laid
<1>8. HeaderTypes'
  <2>1. uses' \in [calls : Nat, clock : Nat]
    BY <1>1 DEF HeaderTypes
  <2>2. writer' \in [Creators -> HandlesOfHead]
    BY <1>1, <1>2 DEF HeaderTypes, HandlesOfHead
  <2> QED BY <1>1, <1>5, <1>6, <2>1, <2>2 DEF HeaderTypes
<1>9. Copies'
  <2>1. \A d \in Creators : ~writer[d].open
    BY <1>1 DEF Copies
  <2>2. \A d \in Creators : writer'[d].open => d = c /\ writer'[d].head = Hdr!None
    BY <1>1, <1>2, <2>1 DEF HeaderTypes
  <2> QED BY <1>5, <1>6, <2>2 DEF Copies
<1>10. Hdr!HeaderSaysLast'
  <2>1. wire'.cells[0] = b.version
    BY <1>3, <1>4 DEF Unmoved, Hdr!Cells
  <2> QED BY <1>4, <1>5, <2>1 DEF Hdr!HeaderSaysLast, Hdr!Version
<1>11. Hdr!PresenceIsTold'
  BY <1>1 DEF Hdr!PresenceIsTold
<1> QED BY <1>7, <1>8, <1>9, <1>10, <1>11 DEF HeaderInv

\* The close flag set or cleared, by whoever: the media head stays.
LEMMA FlagHolds ==
    ASSUME HeaderInv, wire # Hdr!None, NEW closed \in BOOLEAN,
           wire' = Hdr!SetCloseFlag(wire, closed), sent' = [sent EXCEPT !.close = closed],
           writer' \in [Creators -> HandlesOfHead],
           \A d \in Creators : writer'[d].open => writer'[d] = writer[d],
           uses' \in [calls : Nat, clock : Nat], got' = got
    PROVE  HeaderInv'
<1>1. HeaderTypes /\ Laid /\ Copies /\ Hdr!HeaderSaysLast /\ Hdr!PresenceIsTold
  BY DEF HeaderInv
<1>2. wire \in HeadMemories /\ wire.cells[0] \in 1..4
  BY <1>1, MemoryFacts
<1>3. /\ Unmoved(wire, wire')
      /\ wire.cells[0] # 1 =>
           /\ Hdr!CheckCloseFlag(wire') = closed
           /\ \A h, vbr : HasHead(wire, h, vbr) => HasHead(wire', h, vbr)
  BY <1>2, FlagFacts
<1>4. /\ sent' \in Tolds /\ sent'.close = closed /\ sent'.head = sent.head /\ sent'.vbr = sent.vbr
      /\ sent'.alone = sent.alone /\ sent'.asked = sent.asked
  BY <1>1 DEF HeaderTypes, Tolds
<1>5. Laid' /\ wire' \in HeadMemories
  BY <1>1, <1>3, <1>4, LaidHolds
<1>6. wire' # Hdr!None
  BY <1>5, RecordsAreSome
<1>7. HeaderTypes'
  BY <1>1, <1>4, <1>5 DEF HeaderTypes
<1>8. Copies'
  BY <1>1, <1>4, <1>6 DEF Copies
<1>9. Hdr!HeaderSaysLast'
  <2>1. wire'.cells[0] = wire.cells[0]
    BY <1>3 DEF Unmoved, Hdr!Cells
  <2> SUFFICES ASSUME wire.cells[0] # 1 PROVE Hdr!HeaderSaysLast'
    BY <2>1 DEF Hdr!HeaderSaysLast, Hdr!Version
  <2>2. sent.alone /\ sent.head # Hdr!None => HasHead(wire, sent.head, sent.vbr)
    BY <1>1 DEF Hdr!HeaderSaysLast, Hdr!Version, HasHead
  <2>3. sent'.alone /\ sent'.head # Hdr!None => HasHead(wire', sent'.head, sent'.vbr)
    BY <1>3, <1>4, <2>2
  <2> QED BY <1>3, <1>4, <2>3 DEF Hdr!HeaderSaysLast, HasHead
<1>10. Hdr!PresenceIsTold'
  BY <1>1 DEF Hdr!PresenceIsTold
<1> QED BY <1>5, <1>7, <1>8, <1>9, <1>10 DEF HeaderInv

\* A creator that comes to a memory (Attach).
LEMMA AttachHolds == ASSUME HeaderInv, NEW c \in Creators, Hdr!Attach(c) PROVE HeaderInv'
<1>1. /\ HeaderTypes /\ Laid /\ Copies /\ Hdr!PresenceIsTold
      /\ wire # Hdr!None /\ ~writer[c].open /\ got' = got
      /\ uses' = [uses EXCEPT !.calls = @ + 1] /\ uses' \in [calls : Nat, clock : Nat]
  BY DEF HeaderInv, HeaderTypes, Hdr!Attach, Hdr!Calling
<1>2. PICK b \in Builds :
        \/ /\ wire' = Hdr!SetCloseFlag(wire, TRUE)
           /\ sent' = [sent EXCEPT !.close = TRUE] /\ writer' = writer
        \/ /\ wire' = Hdr!InitToWrite(wire, b)
           /\ sent' = [sent EXCEPT !.close = FALSE, !.head = Hdr!None, !.alone = ~Hdr!Others(c)]
           /\ writer' = [writer EXCEPT ![c] = [open |-> TRUE, build |-> b, head |-> Hdr!None]]
  BY DEF Hdr!Attach
<1>3. wire \in HeadMemories /\ wire.cells[0] \in 1..4
  BY <1>1, MemoryFacts
<1>4. CASE /\ wire' = Hdr!SetCloseFlag(wire, TRUE)
           /\ sent' = [sent EXCEPT !.close = TRUE] /\ writer' = writer
  <2>1. writer' \in [Creators -> HandlesOfHead]
    BY <1>1, <1>4 DEF HeaderTypes
  <2> QED BY <1>1, <1>4, <2>1, FlagHolds
<1>5. CASE /\ wire' = Hdr!InitToWrite(wire, b)
           /\ sent' = [sent EXCEPT !.close = FALSE, !.head = Hdr!None, !.alone = ~Hdr!Others(c)]
           /\ writer' = [writer EXCEPT ![c] = [open |-> TRUE, build |-> b, head |-> Hdr!None]]
  <2>1. /\ Unmoved(wire, wire')
        /\ wire.cells[0] # 1 => Hdr!CheckCloseFlag(wire') = FALSE
    BY <1>3, <1>5, InitFacts
  <2>2. Hdr!Others(c) \in BOOLEAN
    BY DEF Hdr!Others
  <2>3. /\ sent' \in Tolds /\ sent'.close = FALSE /\ sent'.head = Hdr!None
        /\ sent'.asked = sent.asked /\ sent'.alone = ~Hdr!Others(c)
    <3>1. PICK o \in BOOLEAN : o = ~Hdr!Others(c)
      BY <2>2
    <3>2. sent' = [sent EXCEPT !.close = FALSE, !.head = Hdr!None, !.alone = o]
      BY <1>5, <3>1
    <3>3. sent' \in Tolds /\ sent'.close = FALSE /\ sent'.head = Hdr!None
          /\ sent'.asked = sent.asked /\ sent'.alone = o
      BY <1>1, <3>2 DEF HeaderTypes, Tolds
    <3> QED BY <3>1, <3>3
  <2>4. Laid' /\ wire' \in HeadMemories
    BY <1>1, <2>1, <2>3, LaidHolds
  <2>5. writer' \in [Creators -> HandlesOfHead]
    <3>1. writer \in [Creators -> HandlesOfHead]
      BY <1>1 DEF HeaderTypes
    <3>2. [open |-> TRUE, build |-> b, head |-> Hdr!None] \in HandlesOfHead
      BY DEF HandlesOfHead
    <3> QED BY <1>5, <3>1, <3>2
  <2>6. HeaderTypes'
    BY <1>1, <2>3, <2>4, <2>5 DEF HeaderTypes
  <2>7. Copies'
    <3>1. /\ \A d \in Creators \ {c} : writer'[d] = writer[d]
          /\ writer'[c].head = Hdr!None
      BY <1>1, <1>5 DEF HeaderTypes
    <3>2. wire' # Hdr!None
      BY <2>4, RecordsAreSome
    <3>3. sent'.alone => \A d \in Creators : writer'[d].open => d = c
      BY <2>3, <3>1 DEF Hdr!Others
    <3> QED BY <2>3, <3>1, <3>2, <3>3 DEF Copies
  <2>8. Hdr!HeaderSaysLast'
    <3>1. wire'.cells[0] = wire.cells[0]
      BY <2>1 DEF Unmoved, Hdr!Cells
    <3> QED BY <2>1, <2>3, <3>1 DEF Hdr!HeaderSaysLast, Hdr!Version
  <2>9. Hdr!PresenceIsTold'
    BY <1>1 DEF Hdr!PresenceIsTold
  <2> QED BY <2>4, <2>6, <2>7, <2>8, <2>9 DEF HeaderInv
<1> QED BY <1>2, <1>4, <1>5

\* A creator that destroys its handle, and a flag set by hand (Destroy, SetFlag).
LEMMA CloseHolds ==
    ASSUME HeaderInv, Hdr!SetFlag \/ \E c \in Creators : Hdr!Destroy(c)
    PROVE  HeaderInv'
<1>1. HeaderTypes /\ Copies
  BY DEF HeaderInv
<1>2. CASE Hdr!SetFlag
  <2>1. /\ wire # Hdr!None /\ uses' = [uses EXCEPT !.calls = @ + 1]
        /\ writer' = writer /\ got' = got
    BY <1>2 DEF Hdr!SetFlag, Hdr!Calling
  <2>2. PICK closed \in BOOLEAN :
          /\ wire' = Hdr!SetCloseFlag(wire, closed) /\ sent' = [sent EXCEPT !.close = closed]
    BY <1>2 DEF Hdr!SetFlag
  <2>3. uses' \in [calls : Nat, clock : Nat] /\ writer' \in [Creators -> HandlesOfHead]
    BY <1>1, <2>1 DEF HeaderTypes
  <2> QED BY <2>1, <2>2, <2>3, FlagHolds
<1>3. ASSUME NEW c \in Creators, Hdr!Destroy(c) PROVE HeaderInv'
  <2>1. /\ writer[c].open /\ writer' = [writer EXCEPT ![c] = Hdr!NoHandle]
        /\ wire' = Hdr!SetCloseFlag(wire, TRUE) /\ sent' = [sent EXCEPT !.close = TRUE]
        /\ uses' = [uses EXCEPT !.calls = @ + 1] /\ got' = got
    BY <1>3 DEF Hdr!Destroy, Hdr!Calling
  <2>2. wire # Hdr!None
    BY <1>1, <2>1 DEF Copies
  <2>3. Hdr!NoHandle \in HandlesOfHead /\ ~Hdr!NoHandle.open
    BY DEF Hdr!NoHandle, HandlesOfHead
  <2>4. /\ writer' \in [Creators -> HandlesOfHead]
        /\ \A d \in Creators : writer'[d].open => writer'[d] = writer[d]
        /\ uses' \in [calls : Nat, clock : Nat]
    BY <1>1, <2>1, <2>3 DEF HeaderTypes
  <2> QED BY <2>1, <2>2, <2>4, FlagHolds
<1> QED BY <1>2, <1>3

\* Steps that leave the header as it is (Die, Open, Tick).
LEMMA StillHolds ==
    ASSUME HeaderInv, (\E c \in Creators : Hdr!Die(c)) \/ Hdr!Open \/ Hdr!Tick
                        \/ UNCHANGED Hdr!vars
    PROVE  HeaderInv'
<1>1. HeaderTypes /\ Laid /\ Copies /\ Hdr!HeaderSaysLast /\ Hdr!PresenceIsTold
  BY DEF HeaderInv
<1>2. /\ wire' = wire /\ sent' = sent /\ got' = got
      /\ uses' \in [calls : Nat, clock : Nat] /\ writer' \in [Creators -> HandlesOfHead]
      /\ \A d \in Creators : writer'[d].open => writer'[d] = writer[d]
  <2>1. CASE \E c \in Creators : Hdr!Die(c)
    <3>1. Hdr!NoHandle \in HandlesOfHead /\ ~Hdr!NoHandle.open
      BY DEF Hdr!NoHandle, HandlesOfHead
    <3> QED BY <1>1, <2>1, <3>1 DEF Hdr!Die, Hdr!Calling, HeaderTypes
  <2>2. CASE Hdr!Open \/ Hdr!Tick \/ UNCHANGED Hdr!vars
    BY <1>1, <2>2 DEF Hdr!Open, Hdr!Tick, Hdr!Calling, Hdr!vars, HeaderTypes
  <2> QED BY <2>1, <2>2
<1>3. HeaderTypes' /\ Laid'
  BY <1>1, <1>2 DEF HeaderTypes, Laid
<1>4. Copies'
  <2>1. reader' # 0 => wire # Hdr!None
    BY <1>1 DEF Copies, Hdr!Die, Hdr!Open, Hdr!Tick, Hdr!vars
  <2> QED BY <1>1, <1>2, <2>1 DEF Copies
<1>5. Hdr!HeaderSaysLast' /\ Hdr!PresenceIsTold'
  BY <1>1, <1>2 DEF Hdr!HeaderSaysLast, Hdr!PresenceIsTold, Hdr!CheckCloseFlag, Hdr!Get, Hdr!Version
<1> QED BY <1>3, <1>4, <1>5 DEF HeaderInv

\* What a creator copies of a head: all but the vbr (_copy_shm_header).
LEMMA CopiedFacts ==
    ASSUME NEW mine \in HeadRecords, NEW h \in HeadRecords
    PROVE  LET n == Hdr!CopyHeader(mine, h) IN
             /\ n \in HeadRecords /\ n.vbr = mine.vbr
             /\ n.sar = h.sar /\ n.src = h.src /\ n.dst = h.dst /\ n.other = h.other
<1> DEFINE n == Hdr!CopyHeader(mine, h)
<1>1. DOMAIN mine = {"vbr", "sar", "src", "dst", "other"}
  BY DEF HeadRecords
<1>2. n = [f \in {"vbr", "sar", "src", "dst", "other"} |->
             IF f \in {"sar", "src", "dst", "other"} THEN h[f] ELSE mine[f]]
  BY <1>1 DEF Hdr!CopyHeader, Hdr!Compared
<1> HIDE DEF n
<1>3. n = [vbr |-> mine.vbr, sar |-> h.sar, src |-> h.src, dst |-> h.dst, other |-> h.other]
  BY <1>2
<1> QED BY <1>3 DEF HeadRecords, n

\* A media head is sent (SendHead).
LEMMA SendHeadHolds == ASSUME HeaderInv, NEW c \in Creators, Hdr!SendHead(c) PROVE HeaderInv'
<1> DEFINE mine == writer[c].head
<1>1. /\ HeaderTypes /\ Laid /\ Copies /\ Hdr!HeaderSaysLast /\ Hdr!PresenceIsTold
      /\ writer[c].open /\ got' = got
      /\ uses' = [uses EXCEPT !.calls = @ + 1] /\ uses' \in [calls : Nat, clock : Nat]
  BY DEF HeaderInv, HeaderTypes, Hdr!SendHead, Hdr!Calling
<1>2. PICK h \in Heads :
        /\ wire' = Hdr!WriteHead(wire, mine, h)
        /\ writer' = [writer EXCEPT ![c].head = Hdr!Copied(mine, h)]
        /\ sent' = [sent EXCEPT !.head = h, !.vbr = IF mine = Hdr!None THEN h.vbr ELSE @]
  BY DEF Hdr!SendHead
<1>3. /\ wire # Hdr!None /\ h \in HeadRecords /\ h # Hdr!None
      /\ mine = Hdr!None \/ mine \in HeadRecords
  <2>1. mine \in HeadRecords \cup {Hdr!None}
    BY <1>1 DEF HeaderTypes, HandlesOfHead
  <2>2. h \in HeadRecords
    BY HeadAssumption DEF HeadRecords
  <2> QED BY <1>1, <2>1, <2>2, RecordsAreSome DEF Copies
<1>4. wire \in HeadMemories /\ wire.cells[0] \in 1..4
  BY <1>1, <1>3, MemoryFacts
<1>5. PICK k : k = Hdr!Copied(mine, h)
  OBVIOUS
<1>6. /\ k \in HeadRecords /\ k.sar = h.sar /\ k.src = h.src /\ k.dst = h.dst /\ k.other = h.other
      /\ k.vbr = IF mine = Hdr!None THEN h.vbr ELSE mine.vbr
  <2> HIDE DEF mine
  <2>1. CASE mine = Hdr!None
    BY <1>3, <1>5, <2>1 DEF Hdr!Copied
  <2>2. CASE mine # Hdr!None
    BY <1>3, <1>5, <2>2, CopiedFacts DEF Hdr!Copied
  <2> QED BY <2>1, <2>2
<1>7. /\ sent' \in Tolds /\ sent'.head = h /\ sent'.close = sent.close
      /\ sent'.alone = sent.alone /\ sent'.asked = sent.asked
      /\ sent'.vbr = IF mine = Hdr!None THEN h.vbr ELSE sent.vbr
  <2>1. h.vbr \in Nat /\ sent \in Tolds
    BY <1>1, <1>3 DEF HeadRecords, HeaderTypes
  <2> HIDE DEF mine
  <2> QED BY <1>2, <1>3, <2>1 DEF Tolds
<1>8. sent.alone /\ mine # Hdr!None =>
        /\ sent.head # Hdr!None /\ mine.vbr = sent.vbr /\ mine.sar = sent.head.sar
        /\ mine.src = sent.head.src /\ mine.dst = sent.head.dst
  BY <1>1 DEF Copies
<1>9. /\ Unmoved(wire, wire')
      /\ wire.cells[0] # 1 => Hdr!CheckCloseFlag(wire') = Hdr!CheckCloseFlag(wire)
      /\ wire.cells[0] # 1 /\ sent.alone => HasHead(wire', h, sent'.vbr)
  <2> HIDE DEF mine
  <2>1. CASE mine = Hdr!None \/ Hdr!HeaderChanged(mine, h)
    <3>1. wire' = Hdr!CopyFromParam(wire, k)
      BY <1>2, <1>5, <2>1 DEF Hdr!WriteHead
    <3>2. /\ Unmoved(wire, wire')
          /\ wire.cells[0] # 1 => HasHead(wire', k, k.vbr)
                                  /\ Hdr!CheckCloseFlag(wire') = Hdr!CheckCloseFlag(wire)
      BY <1>4, <1>6, <3>1, CopyFacts
    <3>3. wire.cells[0] # 1 /\ sent.alone => HasHead(wire', h, sent'.vbr)
      BY <1>6, <1>7, <1>8, <3>2 DEF HasHead
    <3> QED BY <3>2, <3>3
  <2>2. CASE mine # Hdr!None /\ ~Hdr!HeaderChanged(mine, h)
    <3>1. wire' = wire
      BY <1>2, <2>2 DEF Hdr!WriteHead
    <3>2. mine.sar = h.sar /\ mine.src = h.src /\ mine.dst = h.dst
      BY <2>2 DEF Hdr!HeaderChanged, Hdr!Compared
    <3>3. wire.cells[0] # 1 /\ sent.alone => HasHead(wire, sent.head, sent.vbr)
      BY <1>1, <1>3, <1>8, <2>2 DEF Hdr!HeaderSaysLast, Hdr!Version, HasHead
    <3>4. wire.cells[0] # 1 /\ sent.alone => HasHead(wire', h, sent'.vbr)
      BY <1>7, <1>8, <2>2, <3>1, <3>2, <3>3 DEF HasHead
    <3> QED BY <1>4, <3>1, <3>4 DEF Unmoved
  <2> QED BY <2>1, <2>2
<1>10. Laid' /\ wire' \in HeadMemories /\ wire' # Hdr!None
  BY <1>1, <1>3, <1>7, <1>9, LaidHolds, RecordsAreSome
<1>11. /\ writer' \in [Creators -> HandlesOfHead] /\ writer'[c].head = k
       /\ \A d \in Creators : writer'[d].open = writer[d].open /\ (d # c => writer'[d] = writer[d])
  <2>1. writer' = [writer EXCEPT ![c].head = k] /\ writer \in [Creators -> HandlesOfHead]
    BY <1>1, <1>2, <1>5 DEF HeaderTypes
  <2>2. [writer[c] EXCEPT !.head = k] \in HandlesOfHead
    BY <1>6, <2>1 DEF HandlesOfHead
  <2> QED BY <2>1, <2>2 DEF HandlesOfHead
<1>12. HeaderTypes'
  BY <1>1, <1>7, <1>10, <1>11 DEF HeaderTypes
<1>13. Copies'
  <2> SUFFICES ASSUME NEW d \in Creators, writer'[d].open, sent'.alone
               PROVE  /\ \A e \in Creators : writer'[e].open => e = d
                      /\ (writer'[d].head = Hdr!None) = (sent'.head = Hdr!None)
                      /\ writer'[d].head # Hdr!None =>
                           /\ writer'[d].head.vbr = sent'.vbr
                           /\ \A f \in {"sar", "src", "dst", "other"} :
                                writer'[d].head[f] = sent'.head[f]
    BY <1>10 DEF Copies
  <2>1. \A e \in Creators : writer[e].open => e = d
    BY <1>1, <1>7, <1>11 DEF Copies
  <2>2. d = c
    BY <1>1, <2>1
  <2>3. k.vbr = sent'.vbr
    BY <1>6, <1>7, <1>8
  <2>4. k # Hdr!None
    BY <1>6, RecordsAreSome
  <2> QED BY <1>3, <1>6, <1>7, <1>11, <2>1, <2>2, <2>3, <2>4
<1>14. Hdr!HeaderSaysLast'
  <2>1. wire'.cells[0] = wire.cells[0]
    BY <1>9 DEF Unmoved, Hdr!Cells
  <2>2. wire.cells[0] # 1 => Hdr!CheckCloseFlag(wire') = sent'.close
    BY <1>1, <1>3, <1>7, <1>9 DEF Hdr!HeaderSaysLast, Hdr!Version
  <2> QED BY <1>7, <1>9, <2>1, <2>2 DEF Hdr!HeaderSaysLast, Hdr!Version, HasHead
<1>15. Hdr!PresenceIsTold'
  BY <1>1 DEF Hdr!PresenceIsTold
<1> QED BY <1>10, <1>12, <1>13, <1>14, <1>15 DEF HeaderInv

\* A reader asks, and says when (Readable).
LEMMA ReadableHolds == ASSUME HeaderInv, Hdr!Readable PROVE HeaderInv'
<1>1. /\ HeaderTypes /\ Laid /\ Copies /\ Hdr!HeaderSaysLast /\ Hdr!PresenceIsTold
      /\ uses' = [uses EXCEPT !.calls = @ + 1] /\ uses' \in [calls : Nat, clock : Nat]
      /\ wire' = Hdr!SetReadTime(wire, uses.clock) /\ uses.clock \in Nat
      /\ sent' = [sent EXCEPT !.asked = uses.clock] /\ writer' = writer /\ got' = got
      /\ reader # 0 /\ reader' = reader /\ wire # Hdr!None
  BY DEF HeaderInv, HeaderTypes, Copies, Hdr!Readable, Hdr!Calling
<1>2. wire \in HeadMemories /\ wire.cells[0] \in 1..4
  BY <1>1, MemoryFacts
<1>3. /\ wire' \in HeadMemories /\ wire'.length = wire.length /\ wire'.build = wire.build
      /\ \A x \in Hdr!Cells \ {28} : wire'.cells[x] = wire.cells[x]
      /\ wire.cells[24] = 1 => wire'.cells[28] = uses.clock
  BY <1>1, <1>2 DEF Hdr!SetReadTime, Hdr!ExtVersion, Hdr!ReadTime, HeadMemories, Hdr!Cells
<1>4. wire'.cells[0] = wire.cells[0] /\ wire'.cells[24] = wire.cells[24] /\ wire' # Hdr!None
  BY <1>3, RecordsAreSome DEF Hdr!Cells
<1>5. /\ sent' \in Tolds /\ sent'.asked = uses.clock /\ sent'.head = sent.head
      /\ sent'.close = sent.close /\ sent'.vbr = sent.vbr /\ sent'.alone = sent.alone
  BY <1>1 DEF HeaderTypes, Tolds
<1>6. HeaderTypes' /\ Laid' /\ Copies'
  <2>1. HeaderTypes'
    BY <1>1, <1>3, <1>5 DEF HeaderTypes
  <2>2. Laid'
    BY <1>1, <1>3, <1>4, <1>5 DEF Laid
  <2>3. Copies'
    BY <1>1, <1>4, <1>5 DEF Copies
  <2> QED BY <2>1, <2>2, <2>3
<1>7. Hdr!HeaderSaysLast'
  <2> SUFFICES ASSUME wire.cells[0] # 1 PROVE Hdr!HeaderSaysLast'
    BY <1>4 DEF Hdr!HeaderSaysLast, Hdr!Version
  <2>1. PICK k \in 5..6 :
          LET v == wire.cells[0] IN
          /\ Hdr!CellOf(v, "close") = k /\ Hdr!CellOf(v, "vbr") = k + 2
          /\ Hdr!CellOf(v, "sar") = k + 3 /\ Hdr!CellOf(v, "src") = k + 4
          /\ Hdr!CellOf(v, "dst") = k + 5
    <3>1. wire.cells[0] \in 2..4
      BY <1>2
    <3> QED BY <3>1, Places
  <2>2. \A x \in {k, k + 2, k + 3, k + 4, k + 5} : x \in Hdr!Cells \ {28}
    BY DEF Hdr!Cells
  <2>3. \A f \in {"close", "vbr", "sar", "src", "dst"} : Hdr!Get(wire', f) = Hdr!Get(wire, f)
    BY <1>3, <1>4, <2>1, <2>2 DEF Hdr!Get, Hdr!Version
  <2> QED BY <1>1, <1>4, <1>5, <2>3 DEF Hdr!HeaderSaysLast, Hdr!CheckCloseFlag, Hdr!Version
<1>8. Hdr!PresenceIsTold'
  BY <1>1 DEF Hdr!PresenceIsTold
<1> QED BY <1>6, <1>7, <1>8 DEF HeaderInv

\* A creator is told whether somebody reads (HasReaders).
LEMMA HasReadersHolds == ASSUME HeaderInv, NEW c \in Creators, Hdr!HasReaders(c) PROVE HeaderInv'
<1>1. /\ HeaderTypes /\ Laid /\ Copies /\ Hdr!HeaderSaysLast
      /\ writer[c].open /\ wire' = wire /\ sent' = sent /\ writer' = writer
      /\ uses' = [uses EXCEPT !.calls = @ + 1] /\ uses' \in [calls : Nat, clock : Nat]
      /\ uses.clock \in Nat /\ reader' = reader
  BY DEF HeaderInv, HeaderTypes, Hdr!HasReaders, Hdr!Calling
<1>2. wire # Hdr!None
  BY <1>1 DEF Copies
<1>3. wire \in HeadMemories /\ wire.build \in Builds /\ wire.build.ext \in BOOLEAN
  BY <1>1, <1>2, MemoryFacts, HeadAssumption
<1>4. PICK timeout \in Timeouts, room \in BOOLEAN, has \in BOOLEAN :
        /\ room = (wire.length > 96) /\ has = ~Hdr!NobodyReads(wire, uses.clock, timeout)
        /\ got' = [asked |-> sent.asked, now |-> uses.clock, timeout |-> timeout,
                   stamped |-> wire.build.ext, room |-> room, has |-> has]
  <2>1. PICK timeout \in Timeouts :
          got' = [asked |-> sent.asked, now |-> uses.clock, timeout |-> timeout,
                  stamped |-> wire.build.ext, room |-> wire.length > 4 * 24,
                  has |-> ~Hdr!NobodyReads(wire, uses.clock, timeout)]
    BY DEF Hdr!HasReaders, Hdr!ExtVersion
  <2>2. (wire.length > 4 * 24) = (wire.length > 96)
    OBVIOUS
  <2>3. PICK room \in BOOLEAN : room = (wire.length > 96)
    <3>1. CASE wire.length > 96
      <4>1. TRUE = (wire.length > 96)
        BY <3>1
      <4> QED BY <4>1, Zenon
    <3>2. CASE ~(wire.length > 96)
      <4>1. FALSE = (wire.length > 96)
        BY <3>2
      <4> QED BY <4>1, Zenon
    <3> QED BY <3>1, <3>2
  <2>4. PICK has \in BOOLEAN : has = ~Hdr!NobodyReads(wire, uses.clock, timeout)
    OBVIOUS
  <2> QED BY <2>1, <2>2, <2>3, <2>4
<1>5. sent.asked \in Nat /\ timeout \in Nat
  BY <1>1, HeadAssumption DEF HeaderTypes, Tolds
<1>6. got' \in Answers
  BY <1>1, <1>3, <1>4, <1>5 DEF Answers
<1>7. HeaderTypes' /\ Laid' /\ Copies' /\ Hdr!HeaderSaysLast'
  BY <1>1, <1>6 DEF HeaderTypes, Laid, Copies, Hdr!HeaderSaysLast, Hdr!CheckCloseFlag, Hdr!Get,
                    Hdr!Version
<1>8. Hdr!PresenceIsTold'
  <2>1. CASE wire.build.ext
    <3>1. has = (sent.asked # 0 /\ uses.clock - sent.asked <= timeout)
      BY <1>1, <1>2, <1>4, <1>5, <2>1 DEF Laid, Hdr!NobodyReads, Hdr!ExtVersion, Hdr!ReadTime
    <3> QED BY <1>4, <2>1, <3>1 DEF Hdr!PresenceIsTold
  <2>2. CASE ~wire.build.ext
    <3>1. wire.length > 96 => ~Hdr!NobodyReads(wire, uses.clock, timeout)
      BY <1>1, <1>2, <2>2 DEF Laid, Hdr!NobodyReads, Hdr!ExtVersion
    <3> QED BY <1>4, <2>2, <3>1, Zenon DEF Hdr!PresenceIsTold
  <2> QED BY <2>1, <2>2
<1> QED BY <1>7, <1>8 DEF HeaderInv

-----------------------------------------------------------------------------
\* No step of any handle breaks it.
LEMMA HeaderInductive ==
  /\ Hdr!Init => HeaderInv
  /\ HeaderInv /\ [Hdr!Next]_(Hdr!vars) => HeaderInv'
<1>1. Hdr!Init => HeaderInv
  <2> SUFFICES ASSUME Hdr!Init PROVE HeaderInv
    OBVIOUS
  <2>1. Hdr!NoHandle \in HandlesOfHead /\ ~Hdr!NoHandle.open
    BY DEF Hdr!NoHandle, HandlesOfHead
  <2>2. HeaderTypes
    BY <2>1 DEF Hdr!Init, HeaderTypes, Tolds
  <2>3. Laid /\ Copies /\ Hdr!HeaderSaysLast /\ Hdr!PresenceIsTold
    BY <2>1 DEF Hdr!Init, Laid, Copies, Hdr!HeaderSaysLast, Hdr!PresenceIsTold
  <2> QED BY <2>2, <2>3 DEF HeaderInv
<1>2. HeaderInv /\ [Hdr!Next]_(Hdr!vars) => HeaderInv'
  <2> SUFFICES ASSUME HeaderInv, [Hdr!Next]_(Hdr!vars) PROVE HeaderInv'
    OBVIOUS
  <2>1. ASSUME NEW c \in Creators,
               \/ Hdr!Create(c) \/ Hdr!Attach(c) \/ Hdr!Destroy(c)
               \/ Hdr!Die(c) \/ Hdr!SendHead(c) \/ Hdr!HasReaders(c)
        PROVE  HeaderInv'
    BY <2>1, CreateHolds, AttachHolds, CloseHolds, StillHolds, SendHeadHolds, HasReadersHolds
  <2>2. CASE Hdr!Open \/ Hdr!Tick \/ UNCHANGED Hdr!vars
    BY <2>2, StillHolds
  <2>3. CASE Hdr!SetFlag
    BY <2>3, CloseHolds
  <2>4. CASE Hdr!Readable
    BY <2>4, ReadableHolds
  <2> QED BY <2>1, <2>2, <2>3, <2>4 DEF Hdr!Next
<1> QED BY <1>1, <1>2

-----------------------------------------------------------------------------
(***************************************************************************)
(* The nodes of a manager: its free list and its counts are right, and the *)
(* data of every node is destructed once.                                  *)
(***************************************************************************)

NodeRecords == [data : 0..NodeCalls, used : BOOLEAN]
ManagerRecords ==
  [nodes : Seq(NodeRecords), storage : Nat, free : Seq(Nat), capacity : Nat, used : Nat]
Pointers == [storage : Nat, index : Nat]

NodeTypes ==
  /\ writer \in [NodeHandles -> [manager : Nod!Managers, node : Pointers] \cup {Nod!Null}]
  /\ reader \in SUBSET Pointers
  /\ uses \in [nodes : Nat, calls : Nat] /\ uses.nodes <= uses.calls /\ uses.calls <= NodeCalls

\* The free list of a manager and its counts.
Pooled(s) ==
  /\ Nod!IsInjective(s.free)
  /\ Nod!ToSet(s.free) = (0..Len(s.nodes) - 1) \ Nod!UsedNodes(s)
  /\ s.used = Cardinality(Nod!UsedNodes(s))
  /\ s.capacity = Len(s.nodes)

\* The data of used nodes was given out.
Given == \A m \in Nod!Managers : \A i \in Nod!UsedNodes(wire[m]) : Nod!Node(m, i).data \in 1..uses.nodes

\* No two nodes have the same data.
Apart ==
  \A m, n \in Nod!Managers : \A i \in Nod!UsedNodes(wire[m]), j \in Nod!UsedNodes(wire[n]) :
    Nod!Node(m, i).data = Nod!Node(n, j).data => m = n /\ i = j

\* Data d is in a node.
Held(d) == \E m \in Nod!Managers : \E i \in Nod!UsedNodes(wire[m]) : Nod!Node(m, i).data = d

\* Data that is in no node any more was destructed once, other data never.
Destructed ==
  \A d \in 0..NodeCalls : got[d] = IF d \in 1..uses.nodes /\ ~Held(d) THEN 1 ELSE 0

\* A manager without a storage was moved or not made yet.
Moved == \A m \in Nod!Managers : wire[m].storage = 0 => wire[m] = Nod!MovedFrom

NodesHold ==
  /\ wire \in [Nod!Managers -> ManagerRecords] /\ got \in [0..NodeCalls -> Nat]
  /\ \A m \in Nod!Managers : Pooled(wire[m])
  /\ Given /\ Apart /\ Destructed /\ Moved

NodeInv == NodeTypes /\ NodesHold

-----------------------------------------------------------------------------
\* The nodes are counted as the facts about finite sets count.
LEMMA Counts == \A S : Nod!Cardinality(S) = Cardinality(S)
BY DEF Nod!Cardinality, Cardinality

\* push_front of fresh places leaves each place in the list once.
LEMMA FreePushed ==
    ASSUME NEW free \in Seq(Nat), NEW a \in Nat, NEW b \in Int, a <= b + 1,
           Nod!IsInjective(free), Nod!ToSet(free) \subseteq 0..a - 1
    PROVE  /\ Nod!PushFront(free, a, b) \in Seq(Nat)
           /\ Len(Nod!PushFront(free, a, b)) = Len(free) + b - a + 1
           /\ Nod!IsInjective(Nod!PushFront(free, a, b))
           /\ Nod!ToSet(Nod!PushFront(free, a, b)) = Nod!ToSet(free) \cup a..b
<1> DEFINE f == [i \in 1..b - a + 1 |-> b - i + 1]
           n == b - a + 1
           g == f \o free
<1>1. n \in Nat /\ f \in Seq(Nat) /\ Len(f) = n /\ \A i \in 1..n : f[i] = b - i + 1
  OBVIOUS
<1>2. g = Nod!PushFront(free, a, b)
  BY DEF Nod!PushFront
<1>3. \A i \in 1..Len(free) : free[i] \in Nat /\ free[i] <= a - 1
  BY DEF Nod!ToSet
<1>4. \A i, j \in 1..Len(free) : free[i] = free[j] => i = j
  BY DEF Nod!IsInjective
<1> HIDE DEF f, n
<1>5. /\ g \in Seq(Nat) /\ Len(g) = n + Len(free)
      /\ \A i \in 1..n : g[i] = b - i + 1
      /\ \A i \in 1..Len(free) : g[i + n] = free[i]
  <2>1. g \in Seq(Nat) /\ Len(g) = n + Len(free) /\ Len(free) \in Nat
    BY <1>1
  <2>2. \A i \in 1..n + Len(free) : g[i] = IF i <= n THEN f[i] ELSE free[i - n]
    BY <1>1
  <2>3. ASSUME NEW i \in 1..Len(free) PROVE g[i + n] = free[i]
    <3>1. PICK k \in 1..n + Len(free) : k = i + n /\ ~(k <= n) /\ k - n = i
      BY <1>1, <2>1
    <3>2. g[k] = free[k - n]
      BY <3>1, <2>2
    <3> QED BY <3>1, <3>2
  <2> QED BY <1>1, <2>1, <2>2, <2>3
<1> HIDE DEF g
<1>6. DOMAIN g = 1..n + Len(free) /\ Len(free) \in Nat
  BY <1>5, <1>1
<1>9. \A i \in DOMAIN g : i > n => i - n \in 1..Len(free) /\ g[i] = free[i - n]
  <2> SUFFICES ASSUME NEW i \in DOMAIN g, i > n
               PROVE  i - n \in 1..Len(free) /\ g[i] = free[i - n]
    OBVIOUS
  <2>1. i - n \in 1..Len(free) /\ i - n + n = i
    BY <1>1, <1>6
  <2> QED BY <2>1, <1>5
<1>7. \A i, j \in DOMAIN g : g[i] = g[j] => i = j
  <2> SUFFICES ASSUME NEW i \in DOMAIN g, NEW j \in DOMAIN g, g[i] = g[j]
               PROVE  i = j
    OBVIOUS
  <2>0. n = b - a + 1 /\ n \in Nat
    BY <1>1 DEF n
  <2>1. CASE i <= n /\ j <= n
    BY <2>1, <2>0, <1>5, <1>6
  <2>2. CASE i > n /\ j > n
    <3>1. i - n \in 1..Len(free) /\ j - n \in 1..Len(free) /\ free[i - n] = free[j - n]
      BY <2>2, <1>9
    <3> QED BY <3>1, <1>4, <2>0, <1>6
  <2>3. CASE i <= n /\ j > n
    <3>1. j - n \in 1..Len(free) /\ g[j] = free[j - n] /\ g[i] = b - i + 1
      BY <2>3, <2>0, <1>5, <1>6, <1>9
    <3> QED BY <3>1, <1>3, <2>0, <2>3, <1>6
  <2>4. CASE i > n /\ j <= n
    <3>1. PICK k \in 1..Len(free) : g[i] = free[k]
      BY <2>4, <1>9
    <3>2. j \in 1..n /\ g[j] = b - j + 1
      BY <2>4, <2>0, <1>5, <1>6
    <3>3. free[k] \in Nat /\ free[k] <= a - 1
      BY <1>3
    <3>4. b - j + 1 >= a
      BY <3>2, <2>0
    <3>5. free[k] = b - j + 1
      BY <3>1, <3>2
    <3> QED BY <3>3, <3>4, <3>5
  <2> QED BY <2>1, <2>2, <2>3, <2>4, <2>0, <1>6
<1>8. Nod!ToSet(g) = Nod!ToSet(free) \cup a..b
  <2>0. n = b - a + 1 /\ n \in Nat
    BY <1>1 DEF n
  <2>1. ASSUME NEW x \in Nod!ToSet(g) PROVE x \in Nod!ToSet(free) \cup a..b
    <3>1. PICK i \in DOMAIN g : g[i] = x
      BY DEF Nod!ToSet
    <3>2. CASE i <= n
      BY <3>1, <3>2, <2>0, <1>5, <1>6
    <3>3. CASE i > n
      <4>1. i - n \in 1..Len(free) /\ x = free[i - n]
        BY <3>1, <3>3, <1>9
      <4> QED BY <4>1 DEF Nod!ToSet
    <3> QED BY <3>2, <3>3, <2>0, <1>6
  <2>2. ASSUME NEW x \in a..b PROVE x \in Nod!ToSet(g)
    <3>1. b - x + 1 \in 1..n /\ g[b - x + 1] = x
      BY <2>0, <1>5
    <3> QED BY <3>1, <1>6, <2>0 DEF Nod!ToSet
  <2>3. ASSUME NEW x \in Nod!ToSet(free) PROVE x \in Nod!ToSet(g)
    <3>1. PICK i \in 1..Len(free) : free[i] = x
      BY DEF Nod!ToSet
    <3>2. i + n \in DOMAIN g /\ g[i + n] = x
      BY <3>1, <2>0, <1>5, <1>6
    <3> QED BY <3>2 DEF Nod!ToSet
  <2> QED BY <2>1, <2>2, <2>3
<1> QED BY <1>1, <1>2, <1>5, <1>7, <1>8 DEF Nod!IsInjective, n

\* The used nodes of a manager can be counted.
LEMMA UsedAreFinite ==
    ASSUME NEW s \in ManagerRecords
    PROVE  IsFiniteSet(Nod!UsedNodes(s))
<1>1. Nod!UsedNodes(s) \in SUBSET (0..Len(s.nodes) - 1)
  BY DEF Nod!UsedNodes
<1>2. 0 \in Int /\ Len(s.nodes) - 1 \in Int
  BY DEF ManagerRecords
<1>3. IsFiniteSet(0..Len(s.nodes) - 1)
  BY <1>2, FS_Interval
<1> QED BY <1>1, <1>3, FS_Subset

\* A new manager has all its nodes free.
LEMMA ConstructedHolds ==
    ASSUME NEW n \in Nat
    PROVE  Nod!Constructed(n) \in ManagerRecords /\ Pooled(Nod!Constructed(n)) /\ Nod!UsedNodes(Nod!Constructed(n)) = {}
<1> DEFINE s == Nod!Constructed(n)
           none == <<>>
<1>1. /\ none \in Seq(Nat) /\ Nod!IsInjective(none) /\ Nod!ToSet(none) = {} /\ Len(none) = 0
      /\ 0 \in Nat /\ n - 1 \in Int /\ 0 <= n - 1 + 1
  BY DEF Nod!IsInjective, Nod!ToSet
<1>2. Nod!ToSet(none) \subseteq 0..0 - 1
  BY <1>1
<1> HIDE DEF none
<1>3. /\ Nod!PushFront(none, 0, n - 1) \in Seq(Nat) /\ Nod!IsInjective(Nod!PushFront(none, 0, n - 1))
      /\ Nod!ToSet(Nod!PushFront(none, 0, n - 1)) = 0..n - 1
  <2>1. PICK a \in Nat, b \in Int : a = 0 /\ b = n - 1
    OBVIOUS
  <2>2. a <= b + 1 /\ Nod!ToSet(none) \subseteq 0..a - 1
    BY <2>1, <1>1
  <2>3. /\ Nod!PushFront(none, a, b) \in Seq(Nat) /\ Nod!IsInjective(Nod!PushFront(none, a, b))
        /\ Nod!ToSet(Nod!PushFront(none, a, b)) = Nod!ToSet(none) \cup a..b
    BY <2>2, <1>1, FreePushed
  <2> QED BY <2>1, <2>3, <1>1
<1>4. s = [nodes |-> [i \in 1..n |-> Nod!FreeNode], storage |-> 1,
           free |-> Nod!PushFront(none, 0, n - 1), capacity |-> n, used |-> 0]
  BY DEF Nod!Constructed, none
<1> HIDE DEF s
<1>5. Nod!FreeNode \in NodeRecords /\ ~Nod!FreeNode.used
  BY NodeAssumption DEF Nod!FreeNode, NodeRecords
<1>6. s.nodes \in Seq(NodeRecords) /\ Len(s.nodes) = n /\ \A i \in 1..n : s.nodes[i] = Nod!FreeNode
  BY <1>4, <1>5
<1>7. s \in ManagerRecords
  BY <1>4, <1>6, <1>3 DEF ManagerRecords
<1>8. Nod!UsedNodes(s) = {}
  BY <1>5, <1>6 DEF Nod!UsedNodes
<1>9. Cardinality(Nod!UsedNodes(s)) = 0
  BY <1>8, FS_EmptySet
<1>10. Nod!ToSet(s.free) = 0..Len(s.nodes) - 1 /\ Nod!IsInjective(s.free) /\ s.used = 0 /\ s.capacity = n
  BY <1>3, <1>4, <1>6
<1>11. Pooled(s)
  BY <1>6, <1>8, <1>9, <1>10 DEF Pooled
<1> QED BY <1>7, <1>8, <1>11 DEF s

\* A manager that was moved has nothing.
LEMMA MovedFromHolds ==
  Nod!MovedFrom \in ManagerRecords /\ Pooled(Nod!MovedFrom) /\ Nod!UsedNodes(Nod!MovedFrom) = {}
<1> DEFINE s == Nod!MovedFrom
           none == <<>>
<1>1. s = [nodes |-> none, storage |-> 0, free |-> none, capacity |-> 0, used |-> 0]
  BY DEF Nod!MovedFrom
<1>2. none \in Seq(NodeRecords) /\ none \in Seq(Nat) /\ Nod!IsInjective(none) /\ Nod!ToSet(none) = {} /\ Len(none) = 0
  BY DEF Nod!IsInjective, Nod!ToSet
<1> HIDE DEF s, none
<1>3. s \in ManagerRecords
  BY <1>1, <1>2 DEF ManagerRecords
<1>4. Nod!UsedNodes(s) = {}
  BY <1>1, <1>2 DEF Nod!UsedNodes
<1>5. Cardinality(Nod!UsedNodes(s)) = 0
  BY <1>4, FS_EmptySet
<1>6. 0..Len(s.nodes) - 1 = {}
  BY <1>1, <1>2
<1>7. Pooled(s)
  BY <1>1, <1>2, <1>4, <1>5, <1>6 DEF Pooled
<1> QED BY <1>3, <1>4, <1>7 DEF s

\* A manager that grows keeps its nodes where they are and gets free ones.
LEMMA ExpandedHolds ==
    ASSUME NEW s \in ManagerRecords, Pooled(s), Nod!CanExpand(s)
    PROVE  /\ Nod!Expanded(s) \in ManagerRecords /\ Pooled(Nod!Expanded(s))
           /\ Nod!UsedNodes(Nod!Expanded(s)) = Nod!UsedNodes(s)
           /\ \A i \in Nod!UsedNodes(s) : Nod!Expanded(s).nodes[i + 1] = s.nodes[i + 1]
           /\ Nod!Expanded(s).free # <<>>
<1> DEFINE t == Nod!Expanded(s)
           n == Len(s.nodes)
           more == [i \in 1..2 * s.capacity - n |-> Nod!FreeNode]
           free == Nod!PushFront(s.free, n, 2 * s.capacity - 1)
<1>1. /\ s.nodes \in Seq(NodeRecords) /\ n \in Nat /\ s.capacity = n /\ n > 0 /\ s.storage \in Nat
      /\ s.free \in Seq(Nat) /\ s.used \in Nat
  BY DEF ManagerRecords, Pooled, Nod!CanExpand
<1>2. t = [nodes |-> s.nodes \o more, storage |-> s.storage + 1, free |-> free,
           capacity |-> 2 * n, used |-> s.used]
  <2>1. t = [s EXCEPT !.nodes = s.nodes \o more, !.storage = s.storage + 1, !.free = free,
                      !.capacity = 2 * s.capacity]
    BY DEF Nod!Expanded
  <2>2. PICK x, y, z : x = s.nodes \o more /\ y = s.storage + 1 /\ z = 2 * s.capacity
    OBVIOUS
  <2> HIDE DEF t, more, free, n
  <2>3. t = [s EXCEPT !.nodes = x, !.storage = y, !.free = free, !.capacity = z]
    BY <2>1, <2>2
  <2>4. t = [nodes |-> x, storage |-> y, free |-> free, capacity |-> z, used |-> s.used]
    BY <2>3 DEF ManagerRecords
  <2> QED BY <2>2, <2>4, <1>1
<1>3. /\ free \in Seq(Nat) /\ Nod!IsInjective(free) /\ Len(free) = Len(s.free) + n
      /\ Nod!ToSet(free) = Nod!ToSet(s.free) \cup n..2 * n - 1
  <2>1. /\ 2 * s.capacity - 1 \in Int /\ n <= 2 * s.capacity - 1 + 1 /\ Nod!IsInjective(s.free)
        /\ Nod!ToSet(s.free) \subseteq 0..n - 1
    BY <1>1 DEF Pooled
  <2>2. Len(s.free) \in Nat
    BY <1>1
  <2>3. PICK b \in Int : b = 2 * s.capacity - 1
    BY <2>1
  <2> HIDE DEF n
  <2>4. /\ Nod!PushFront(s.free, n, b) \in Seq(Nat) /\ Nod!IsInjective(Nod!PushFront(s.free, n, b))
        /\ Len(Nod!PushFront(s.free, n, b)) = Len(s.free) + b - n + 1
        /\ Nod!ToSet(Nod!PushFront(s.free, n, b)) = Nod!ToSet(s.free) \cup n..b
    BY <2>1, <2>3, <1>1, FreePushed
  <2>5. free = Nod!PushFront(s.free, n, b) /\ b = 2 * n - 1
    BY <2>3, <1>1
  <2> HIDE DEF free
  <2>6. Len(s.free) + b - n + 1 = Len(s.free) + n
    <3>1. \A l \in Nat : l + b - n + 1 = l + n
      BY <2>5, <1>1
    <3> QED BY <3>1, <2>2
  <2> QED BY <2>4, <2>5, <2>6
<1>4. Nod!FreeNode \in NodeRecords /\ ~Nod!FreeNode.used
  BY NodeAssumption DEF Nod!FreeNode, NodeRecords
<1>5. more \in Seq(NodeRecords) /\ Len(more) = n /\ \A i \in 1..n : more[i] = Nod!FreeNode
  <2>1. 2 * s.capacity - n = n
    BY <1>1
  <2> QED BY <2>1, <1>1, <1>4
<1> HIDE DEF n, more, free, t
<1>6. /\ t.nodes \in Seq(NodeRecords) /\ Len(t.nodes) = 2 * n
      /\ \A i \in 1..n : t.nodes[i] = s.nodes[i]
      /\ \A i \in n + 1..2 * n : t.nodes[i] = Nod!FreeNode
  <2>1. t.nodes = s.nodes \o more /\ Len(s.nodes) = n
    BY <1>2 DEF n
  <2>2. t.nodes \in Seq(NodeRecords) /\ Len(t.nodes) = 2 * n
    <3>1. s.nodes \o more \in Seq(NodeRecords) /\ Len(s.nodes \o more) = Len(s.nodes) + Len(more)
      <4>1. PICK q \in Seq(NodeRecords), r \in Seq(NodeRecords) : q = s.nodes /\ r = more
        BY <1>1, <1>5
      <4>2. q \o r \in Seq(NodeRecords) /\ Len(q \o r) = Len(q) + Len(r)
        BY <4>1
      <4> QED BY <4>1, <4>2
    <3>2. Len(s.nodes) = n /\ Len(more) = n /\ n + n = 2 * n
      BY <2>1, <1>1, <1>5
    <3> QED BY <2>1, <3>1, <3>2
  <2>3. \A i \in 1..2 * n : t.nodes[i] = IF i <= n THEN s.nodes[i] ELSE more[i - n]
    <3>1. Len(s.nodes) + Len(more) = 2 * n
      <4>1. Len(s.nodes) = n /\ Len(more) = n
        BY <2>1, <1>5
      <4>2. n + n = 2 * n
        BY <1>1
      <4> QED BY <4>1, <4>2
    <3>2. \A i \in 1..Len(s.nodes) + Len(more) :
            t.nodes[i] = IF i <= Len(s.nodes) THEN s.nodes[i] ELSE more[i - Len(s.nodes)]
      <4>1. PICK q \in Seq(NodeRecords), r \in Seq(NodeRecords) : q = s.nodes /\ r = more
        BY <1>1, <1>5
      <4>2. \A i \in 1..Len(q) + Len(r) :
              (q \o r)[i] = IF i <= Len(q) THEN q[i] ELSE r[i - Len(q)]
        BY <4>1
      <4> QED BY <4>1, <4>2, <2>1
    <3> QED BY <2>1, <3>1, <3>2
  <2>4. ASSUME NEW i \in n + 1..2 * n PROVE t.nodes[i] = Nod!FreeNode
    <3>1. i \in 1..2 * n /\ ~(i <= n) /\ i - n \in 1..n
      BY <1>1
    <3> QED BY <3>1, <2>3, <1>5
  <2>5. ASSUME NEW i \in 1..n PROVE t.nodes[i] = s.nodes[i]
    <3>1. i \in 1..2 * n /\ i <= n
      BY <1>1
    <3> QED BY <3>1, <2>3
  <2> QED BY <2>2, <2>4, <2>5
<1>7. t \in ManagerRecords
  BY <1>1, <1>2, <1>3, <1>6 DEF ManagerRecords
<1>8. Nod!UsedNodes(t) = Nod!UsedNodes(s) /\ \A i \in Nod!UsedNodes(s) : i \in 0..n - 1 /\ i + 1 \in 1..n
  <2>1. ASSUME NEW i \in 0..2 * n - 1
        PROVE  t.nodes[i + 1].used <=> i <= n - 1 /\ s.nodes[i + 1].used
    <3>1. CASE i <= n - 1
      <4>1. i + 1 \in 1..n
        BY <3>1, <1>1
      <4> QED BY <3>1, <4>1, <1>6
    <3>2. CASE i > n - 1
      <4>1. i + 1 \in n + 1..2 * n /\ ~(i <= n - 1)
        BY <3>2, <1>1
      <4> QED BY <4>1, <1>6, <1>4
    <3> QED BY <3>1, <3>2, <1>1
  <2>2. Nod!UsedNodes(t) = {i \in 0..2 * n - 1 : t.nodes[i + 1].used}
    BY <1>6 DEF Nod!UsedNodes
  <2>3. Nod!UsedNodes(s) = {i \in 0..n - 1 : s.nodes[i + 1].used}
    BY DEF Nod!UsedNodes, n
  <2> QED BY <2>1, <2>2, <2>3, <1>1
<1>9. Nod!ToSet(t.free) = (0..Len(t.nodes) - 1) \ Nod!UsedNodes(t)
  <2>1. Nod!ToSet(s.free) = (0..n - 1) \ Nod!UsedNodes(s)
    BY DEF Pooled, n
  <2>2. t.free = free /\ Len(t.nodes) = 2 * n
    BY <1>2, <1>6
  <2> QED BY <2>1, <2>2, <1>1, <1>3, <1>8
<1>10. Pooled(t)
  <2>1. t.free = free /\ t.used = s.used /\ t.capacity = 2 * n
    BY <1>2
  <2>2. s.used = Cardinality(Nod!UsedNodes(s))
    BY DEF Pooled
  <2> QED BY <2>1, <2>2, <1>3, <1>6, <1>8, <1>9 DEF Pooled
<1>11. t.free # <<>>
  <2>1. t.free = free /\ Len(free) # 0
    BY <1>1, <1>2, <1>3
  <2> QED BY <2>1
<1> QED BY <1>6, <1>7, <1>8, <1>10, <1>11 DEF t

\* The first of the free list is taken off it, a node that is freed is put there.
LEMMA FrontFacts ==
  ASSUME NEW free \in Seq(Nat), Nod!IsInjective(free)
  PROVE  /\ free # <<>> =>
              /\ Head(free) \in Nod!ToSet(free) /\ Head(free) \in Nat
              /\ Tail(free) \in Seq(Nat) /\ Nod!IsInjective(Tail(free))
              /\ Nod!ToSet(Tail(free)) = Nod!ToSet(free) \ {Head(free)}
         /\ \A x \in Nat : x \notin Nod!ToSet(free) =>
              /\ <<x>> \o free \in Seq(Nat) /\ Nod!IsInjective(<<x>> \o free)
              /\ Nod!ToSet(<<x>> \o free) = Nod!ToSet(free) \cup {x}
<1>1. ASSUME free # <<>>
      PROVE  /\ Head(free) \in Nod!ToSet(free) /\ Head(free) \in Nat
             /\ Tail(free) \in Seq(Nat) /\ Nod!IsInjective(Tail(free))
             /\ Nod!ToSet(Tail(free)) = Nod!ToSet(free) \ {Head(free)}
  <2>1. PICK t \in Seq(Nat), n \in Nat :
          /\ t = Tail(free) /\ Len(free) = n + 1 /\ Len(t) = n
          /\ \A i \in 1..n : t[i] = free[i + 1]
    <3>1. /\ Tail(free) \in Seq(Nat) /\ Len(Tail(free)) = Len(free) - 1
          /\ \A i \in 1..Len(free) - 1 : Tail(free)[i] = free[i + 1]
      BY <1>1
    <3>2. Len(free) - 1 \in Nat /\ Len(free) = Len(free) - 1 + 1
      BY <1>1
    <3> QED BY <3>1, <3>2
  <2>2. Head(free) = free[1] /\ DOMAIN free = 1..n + 1 /\ DOMAIN t = 1..n /\ 1 \in 1..n + 1
    BY <1>1, <2>1
  <2>3. Head(free) \in Nod!ToSet(free) /\ Head(free) \in Nat
    BY <2>2 DEF Nod!ToSet
  <2>4. \A i, j \in 1..n + 1 : free[i] = free[j] => i = j
    BY <2>2 DEF Nod!IsInjective
  <2>5. \A i \in 1..n : i + 1 \in 1..n + 1 /\ i + 1 # 1
    OBVIOUS
  <2>6. ASSUME NEW i \in 1..n, NEW j \in 1..n, t[i] = t[j] PROVE i = j
    <3>1. i + 1 = j + 1
      BY <2>1, <2>4, <2>5, <2>6
    <3> QED BY <3>1
  <2>7. \A x \in Nod!ToSet(t) : x \in Nod!ToSet(free) /\ x # free[1]
    <3> SUFFICES ASSUME NEW i \in 1..n PROVE t[i] \in Nod!ToSet(free) /\ t[i] # free[1]
      BY <2>2 DEF Nod!ToSet
    <3> QED BY <2>1, <2>2, <2>4, <2>5 DEF Nod!ToSet
  <2>8. \A x \in Nod!ToSet(free) : x # free[1] => x \in Nod!ToSet(t)
    <3> SUFFICES ASSUME NEW i \in 1..n + 1, free[i] # free[1] PROVE free[i] \in Nod!ToSet(t)
      BY <2>2 DEF Nod!ToSet
    <3>1. PICK j \in 1..n : i = j + 1
      <4>1. i # 1 /\ i - 1 \in 1..n /\ i = i - 1 + 1
        OBVIOUS
      <4> QED BY <4>1
    <3> QED BY <2>1, <2>2, <3>1 DEF Nod!ToSet
  <2>9. Nod!ToSet(t) = Nod!ToSet(free) \ {free[1]}
    BY <2>7, <2>8
  <2> QED BY <2>1, <2>2, <2>3, <2>6, <2>9 DEF Nod!IsInjective
<1>2. ASSUME NEW x \in Nat, x \notin Nod!ToSet(free)
      PROVE  /\ <<x>> \o free \in Seq(Nat) /\ Nod!IsInjective(<<x>> \o free)
             /\ Nod!ToSet(<<x>> \o free) = Nod!ToSet(free) \cup {x}
  <2>1. PICK t \in Seq(Nat), n \in Nat :
          /\ t = <<x>> \o free /\ Len(free) = n /\ Len(t) = n + 1
          /\ t[1] = x /\ \A i \in 1..n : t[i + 1] = free[i]
    <3>1. <<x>> \in Seq(Nat) /\ Len(<<x>>) = 1 /\ <<x>>[1] = x
      OBVIOUS
    <3>2. PICK o \in Seq(Nat) : o = <<x>>
      BY <3>1
    <3>3. /\ o \o free \in Seq(Nat) /\ Len(o \o free) = 1 + Len(free)
          /\ \A i \in 1..1 + Len(free) : (o \o free)[i] = IF i <= 1 THEN o[i] ELSE free[i - 1]
      BY <3>1, <3>2
    <3>4. Len(free) \in Nat
      OBVIOUS
    <3>5. ASSUME NEW i \in 1..Len(free) PROVE (o \o free)[i + 1] = free[i]
      <4>1. PICK k \in 1..1 + Len(free) : k = i + 1 /\ ~(k <= 1) /\ k - 1 = i
        BY <3>4
      <4> QED BY <4>1, <3>3
    <3>6. (o \o free)[1] = x /\ Len(free) + 1 = 1 + Len(free)
      BY <3>1, <3>2, <3>3, <3>4
    <3> QED BY <3>2, <3>3, <3>4, <3>5, <3>6
  <2>2. DOMAIN free = 1..n /\ DOMAIN t = 1..n + 1
    BY <2>1
  <2>3. \A i \in 1..n + 1 : i = 1 \/ \E j \in 1..n : i = j + 1
    <3> SUFFICES ASSUME NEW i \in 1..n + 1, i # 1 PROVE i - 1 \in 1..n /\ i = i - 1 + 1
      OBVIOUS
    <3> QED OBVIOUS
  <2>4. \A j \in 1..n : free[j] # x
    BY <1>2, <2>2 DEF Nod!ToSet
  <2>5. \A i, j \in 1..n : free[i] = free[j] => i = j
    BY <2>2 DEF Nod!IsInjective
  <2>6. ASSUME NEW i \in 1..n + 1, NEW j \in 1..n + 1, t[i] = t[j] PROVE i = j
    BY <2>1, <2>3, <2>4, <2>5, <2>6
  <2>7. Nod!ToSet(t) = Nod!ToSet(free) \cup {x}
    <3>1. ASSUME NEW i \in 1..n + 1 PROVE t[i] \in Nod!ToSet(free) \cup {x}
      <4>1. CASE i # 1
        <5>1. PICK j \in 1..n : i = j + 1
          BY <2>3, <4>1
        <5>2. t[i] = free[j]
          BY <2>1, <5>1
        <5> QED BY <2>2, <5>2 DEF Nod!ToSet
      <4> QED BY <2>1, <4>1
    <3>2. \A i \in 1..n : i + 1 \in 1..n + 1
      OBVIOUS
    <3>3. x \in Nod!ToSet(t) /\ \A i \in 1..n : free[i] \in Nod!ToSet(t)
      <4>1. 1 \in 1..n + 1
        OBVIOUS
      <4> QED BY <2>1, <2>2, <3>2, <4>1 DEF Nod!ToSet
    <3>4. Nod!ToSet(t) \subseteq Nod!ToSet(free) \cup {x}
      BY <2>2, <3>1 DEF Nod!ToSet
    <3>5. Nod!ToSet(free) \cup {x} \subseteq Nod!ToSet(t)
      BY <2>2, <3>3 DEF Nod!ToSet
    <3> QED BY <3>4, <3>5
  <2> QED BY <2>1, <2>2, <2>6, <2>7 DEF Nod!IsInjective
<1> QED BY <1>1, <1>2

\* The nodes after one of them is taken or freed: the one at i is r now.
LEMMA NodesChanged ==
    ASSUME NEW s \in ManagerRecords, NEW t \in ManagerRecords,
           NEW i \in 0..Len(s.nodes) - 1, NEW r \in NodeRecords,
           t.nodes = [s.nodes EXCEPT ![i + 1] = r]
    PROVE  /\ Len(t.nodes) = Len(s.nodes)
           /\ Nod!UsedNodes(t) = IF r.used THEN Nod!UsedNodes(s) \cup {i} ELSE Nod!UsedNodes(s) \ {i}
           /\ t.nodes[i + 1] = r
           /\ \A j \in Nod!UsedNodes(s) : j # i => t.nodes[j + 1] = s.nodes[j + 1]
<1>1. PICK n \in Nat, p \in Seq(NodeRecords) : p = s.nodes /\ n = Len(p) /\ DOMAIN p = 1..n
  BY DEF ManagerRecords
<1>2. Len(t.nodes) = n /\ i + 1 \in 1..n
  BY <1>1
<1>3. t.nodes[i + 1] = r
  BY <1>1, <1>2
<1>4. \A j \in 0..n - 1 : j # i => t.nodes[j + 1] = p[j + 1]
  <2> SUFFICES ASSUME NEW j \in 0..n - 1, j # i PROVE t.nodes[j + 1] = p[j + 1]
    OBVIOUS
  <2>1. PICK k \in 1..n : k = j + 1 /\ k # i + 1
    BY <1>1
  <2> QED BY <2>1, <1>1
<1>5. Nod!UsedNodes(t) = {j \in 0..n - 1 : t.nodes[j + 1].used}
  BY <1>2 DEF Nod!UsedNodes
<1>6. Nod!UsedNodes(s) = {j \in 0..n - 1 : p[j + 1].used}
  BY <1>1 DEF Nod!UsedNodes
<1>7. i \in 0..n - 1
  BY <1>1
<1>8. \A j \in 0..n - 1 : j # i => (t.nodes[j + 1].used <=> p[j + 1].used)
  BY <1>4
<1>9. t.nodes[i + 1].used <=> r.used
  BY <1>3
<1>10. CASE r.used
  BY <1>10, <1>1, <1>2, <1>3, <1>4, <1>5, <1>6, <1>7, <1>8, <1>9
<1>11. CASE ~r.used
  BY <1>11, <1>1, <1>2, <1>3, <1>4, <1>5, <1>6, <1>7, <1>8, <1>9
<1> QED BY <1>10, <1>11

\* Nodes with one of them put anew are still nodes.
LEMMA NodePut ==
    ASSUME NEW p \in Seq(NodeRecords), NEW k, NEW r \in NodeRecords
    PROVE  [p EXCEPT ![k] = r] \in Seq(NodeRecords)
<1>1. PICK n \in Nat : p \in [1..n -> NodeRecords]
  OBVIOUS
<1>2. [p EXCEPT ![k] = r] \in [1..n -> NodeRecords]
  BY <1>1
<1> QED BY <1>2

\* A node that is taken was free, and is used from now on.
LEMMA TakenHolds ==
    ASSUME NEW s \in ManagerRecords, Pooled(s), s.free # <<>>, NEW d \in 0..NodeCalls
    PROVE  /\ Nod!Taken(s, d) \in ManagerRecords /\ Pooled(Nod!Taken(s, d))
           /\ Head(s.free) \in Nat /\ Head(s.free) \notin Nod!UsedNodes(s)
           /\ Nod!UsedNodes(Nod!Taken(s, d)) = Nod!UsedNodes(s) \cup {Head(s.free)}
           /\ Nod!Taken(s, d).nodes[Head(s.free) + 1].data = d
           /\ \A j \in Nod!UsedNodes(s) : Nod!Taken(s, d).nodes[j + 1] = s.nodes[j + 1]
<1> DEFINE t == Nod!Taken(s, d)
           i == Head(s.free)
           r == [data |-> d, used |-> TRUE]
<1>1. /\ s.nodes \in Seq(NodeRecords) /\ s.free \in Seq(Nat) /\ s.used \in Nat /\ s.capacity \in Nat
      /\ s.storage \in Nat
  BY DEF ManagerRecords
<1>2. /\ i \in Nod!ToSet(s.free) /\ i \in Nat /\ Tail(s.free) \in Seq(Nat) /\ Nod!IsInjective(Tail(s.free))
      /\ Nod!ToSet(Tail(s.free)) = Nod!ToSet(s.free) \ {i}
  BY <1>1, FrontFacts DEF Pooled
<1>3. Nod!ToSet(s.free) = (0..Len(s.nodes) - 1) \ Nod!UsedNodes(s)
  BY DEF Pooled
<1>4. i \in 0..Len(s.nodes) - 1 /\ i \notin Nod!UsedNodes(s)
  BY <1>2, <1>3
<1>5. r \in NodeRecords /\ r.used /\ r.data = d
  BY DEF NodeRecords
<1>6. PICK x, y, z : x = Tail(s.free) /\ y = s.used + 1 /\ z = [s.nodes EXCEPT ![i + 1] = r]
  OBVIOUS
<1>7. t = [s EXCEPT !.free = x, !.used = y, !.nodes = z]
  BY <1>6 DEF Nod!Taken, ManagerRecords
<1> HIDE DEF t, i, r
<1>8. t = [nodes |-> z, storage |-> s.storage, free |-> x, capacity |-> s.capacity, used |-> y]
  BY <1>7 DEF ManagerRecords
<1>9. z \in Seq(NodeRecords)
  BY <1>1, <1>5, <1>6, NodePut
<1>10. t \in ManagerRecords
  BY <1>1, <1>2, <1>6, <1>8, <1>9 DEF ManagerRecords
<1>11. /\ t.nodes = [s.nodes EXCEPT ![i + 1] = r] /\ t.free = Tail(s.free) /\ t.used = s.used + 1
       /\ t.capacity = s.capacity
  BY <1>6, <1>8
<1>12. /\ Len(t.nodes) = Len(s.nodes) /\ Nod!UsedNodes(t) = Nod!UsedNodes(s) \cup {i} /\ t.nodes[i + 1] = r
       /\ \A j \in Nod!UsedNodes(s) : j # i => t.nodes[j + 1] = s.nodes[j + 1]
  BY <1>4, <1>5, <1>10, <1>11, NodesChanged
<1>13. Cardinality(Nod!UsedNodes(t)) = Cardinality(Nod!UsedNodes(s)) + 1
  BY <1>4, <1>12, UsedAreFinite, FS_AddElement
<1>14. Nod!ToSet(t.free) = (0..Len(t.nodes) - 1) \ Nod!UsedNodes(t)
  BY <1>2, <1>3, <1>11, <1>12
<1>15. t.used = Cardinality(Nod!UsedNodes(t)) /\ t.capacity = Len(t.nodes)
  BY <1>11, <1>12, <1>13 DEF Pooled
<1>16. Pooled(t)
  BY <1>2, <1>11, <1>14, <1>15 DEF Pooled
<1>17. t.nodes[i + 1].data = d /\ \A j \in Nod!UsedNodes(s) : t.nodes[j + 1] = s.nodes[j + 1]
  BY <1>4, <1>5, <1>12
<1> QED BY <1>2, <1>4, <1>10, <1>12, <1>16, <1>17 DEF t, i

\* A node that is freed was used.
LEMMA DeallocatedHolds ==
    ASSUME NEW s \in ManagerRecords, Pooled(s), NEW i \in Nat, Nod!Deallocatable(s, i)
    PROVE  /\ Nod!Deallocated(s, i) \in ManagerRecords /\ Pooled(Nod!Deallocated(s, i))
           /\ i \in Nod!UsedNodes(s) /\ Nod!UsedNodes(Nod!Deallocated(s, i)) = Nod!UsedNodes(s) \ {i}
           /\ \A j \in Nod!UsedNodes(s) : j # i => Nod!Deallocated(s, i).nodes[j + 1] = s.nodes[j + 1]
<1> DEFINE t == Nod!Deallocated(s, i)
<1>1. /\ s.nodes \in Seq(NodeRecords) /\ s.free \in Seq(Nat) /\ s.used \in Nat /\ s.capacity \in Nat
      /\ s.storage \in Nat
  BY DEF ManagerRecords
<1>2. i \in 0..Len(s.nodes) - 1 /\ i \in Nod!UsedNodes(s)
  BY <1>1 DEF Nod!Deallocatable, Nod!UsedNodes
<1>3. Nod!ToSet(s.free) = (0..Len(s.nodes) - 1) \ Nod!UsedNodes(s)
  BY DEF Pooled
<1>4. /\ <<i>> \o s.free \in Seq(Nat) /\ Nod!IsInjective(<<i>> \o s.free)
      /\ Nod!ToSet(<<i>> \o s.free) = Nod!ToSet(s.free) \cup {i}
  BY <1>1, <1>2, <1>3, FrontFacts DEF Pooled
<1>5. Nod!FreeNode \in NodeRecords /\ ~Nod!FreeNode.used
  BY NodeAssumption DEF Nod!FreeNode, NodeRecords
<1>6. PICK x, y, z : x = <<i>> \o s.free /\ y = s.used - 1 /\ z = [s.nodes EXCEPT ![i + 1] = Nod!FreeNode]
  OBVIOUS
<1>7. t = [s EXCEPT !.nodes = z, !.free = x, !.used = y]
  BY <1>6 DEF Nod!Deallocated, ManagerRecords
<1> HIDE DEF t
<1>8. t = [nodes |-> z, storage |-> s.storage, free |-> x, capacity |-> s.capacity, used |-> y]
  BY <1>7 DEF ManagerRecords
<1>9. z \in Seq(NodeRecords)
  BY <1>1, <1>5, <1>6, NodePut
<1>10. Cardinality(Nod!UsedNodes(s) \ {i}) = s.used - 1 /\ s.used - 1 \in Nat
  <2>1. /\ IsFiniteSet(Nod!UsedNodes(s)) /\ IsFiniteSet(Nod!UsedNodes(s) \ {i})
        /\ Cardinality(Nod!UsedNodes(s) \ {i}) = Cardinality(Nod!UsedNodes(s)) - 1
    BY <1>2, UsedAreFinite, FS_RemoveElement
  <2>2. Cardinality(Nod!UsedNodes(s) \ {i}) \in Nat
    BY <2>1, FS_CardinalityType
  <2> QED BY <2>1, <2>2 DEF Pooled
<1>11. t \in ManagerRecords
  BY <1>1, <1>4, <1>6, <1>8, <1>9, <1>10 DEF ManagerRecords
<1>12. /\ t.nodes = [s.nodes EXCEPT ![i + 1] = Nod!FreeNode] /\ t.free = <<i>> \o s.free
       /\ t.used = s.used - 1 /\ t.capacity = s.capacity
  BY <1>6, <1>8
<1>13. /\ Len(t.nodes) = Len(s.nodes) /\ Nod!UsedNodes(t) = Nod!UsedNodes(s) \ {i}
       /\ \A j \in Nod!UsedNodes(s) : j # i => t.nodes[j + 1] = s.nodes[j + 1]
  BY <1>2, <1>5, <1>11, <1>12, NodesChanged
<1>14. Nod!ToSet(t.free) = (0..Len(t.nodes) - 1) \ Nod!UsedNodes(t)
  BY <1>2, <1>3, <1>4, <1>12, <1>13
<1>15. t.used = Cardinality(Nod!UsedNodes(t)) /\ t.capacity = Len(t.nodes)
  BY <1>10, <1>12, <1>13 DEF Pooled
<1>16. Pooled(t)
  BY <1>4, <1>12, <1>14, <1>15 DEF Pooled
<1> QED BY <1>2, <1>11, <1>13, <1>16 DEF t

\* clear frees every node.
LEMMA ClearedHolds ==
    ASSUME NEW s \in ManagerRecords, Pooled(s)
    PROVE  Nod!Cleared(s) \in ManagerRecords /\ Pooled(Nod!Cleared(s)) /\ Nod!UsedNodes(Nod!Cleared(s)) = {}
<1> DEFINE t == Nod!Cleared(s)
           none == <<>>
<1>1. PICK n \in Nat, b \in Int, a \in Nat : n = Len(s.nodes) /\ b = Len(s.nodes) - 1 /\ a = 0
  <2>1. Len(s.nodes) \in Nat
    BY DEF ManagerRecords
  <2>2. Len(s.nodes) - 1 \in Int
    BY <2>1
  <2> QED BY <2>1, <2>2
<1>2. /\ s.nodes \in Seq(NodeRecords) /\ s.storage \in Nat /\ s.capacity = n /\ DOMAIN s.nodes = 1..n
  BY <1>1 DEF ManagerRecords, Pooled
<1>3. /\ none \in Seq(Nat) /\ Nod!IsInjective(none) /\ Nod!ToSet(none) = {} /\ a <= b + 1
  BY <1>1 DEF Nod!IsInjective, Nod!ToSet
<1>4. PICK x : x = Nod!PushFront(none, 0, Len(s.nodes) - 1)
  OBVIOUS
<1>5. x \in Seq(Nat) /\ Nod!IsInjective(x) /\ Nod!ToSet(x) = 0..n - 1
  <2> HIDE DEF none
  <2>1. Nod!ToSet(none) \subseteq 0..a - 1
    BY <1>3
  <2>2. /\ Nod!PushFront(none, a, b) \in Seq(Nat) /\ Nod!IsInjective(Nod!PushFront(none, a, b))
        /\ Nod!ToSet(Nod!PushFront(none, a, b)) = Nod!ToSet(none) \cup a..b
    BY <1>3, <2>1, FreePushed
  <2> QED BY <1>1, <1>3, <1>4, <2>2
<1>6. Nod!FreeNode \in NodeRecords /\ ~Nod!FreeNode.used
  BY NodeAssumption DEF Nod!FreeNode, NodeRecords
<1>7. PICK z : z = [i \in DOMAIN s.nodes |-> Nod!FreeNode]
  OBVIOUS
<1>8. z \in Seq(NodeRecords) /\ Len(z) = n /\ \A i \in 1..n : z[i] = Nod!FreeNode
  BY <1>2, <1>6, <1>7
<1>9. t = [s EXCEPT !.nodes = z, !.free = x, !.used = 0]
  BY <1>4, <1>7 DEF Nod!Cleared, ManagerRecords
<1> HIDE DEF t
<1>10. t = [nodes |-> z, storage |-> s.storage, free |-> x, capacity |-> s.capacity, used |-> 0]
  BY <1>9 DEF ManagerRecords
<1>11. t \in ManagerRecords
  BY <1>2, <1>5, <1>8, <1>10 DEF ManagerRecords
<1>12. Len(t.nodes) = n /\ t.free = x /\ t.used = 0 /\ t.capacity = n
  BY <1>2, <1>8, <1>10
<1>13. Nod!UsedNodes(t) = {}
  <2>1. \A i \in 0..n - 1 : i + 1 \in 1..n
    OBVIOUS
  <2> QED BY <2>1, <1>6, <1>8, <1>10 DEF Nod!UsedNodes
<1>14. Cardinality(Nod!UsedNodes(t)) = 0
  BY <1>13, FS_EmptySet
<1>15. Pooled(t)
  BY <1>5, <1>12, <1>13, <1>14 DEF Pooled
<1> QED BY <1>11, <1>13, <1>15 DEF t

-----------------------------------------------------------------------------
\* Where nodes are only freed, what is left stays given and apart.
LEMMA FewerHold ==
    ASSUME Given, Apart, uses'.nodes = uses.nodes,
           \A n \in Nod!Managers : \A i \in Nod!UsedNodes(wire'[n]) :
             i \in Nod!UsedNodes(wire[n]) /\ Nod!Node(n, i)'.data = Nod!Node(n, i).data
    PROVE  Given' /\ Apart'
<1>1. Given'
  BY DEF Given
<1>2. Apart'
  BY DEF Apart
<1> QED BY <1>1, <1>2

\* Freeing a node calls the destructor_ with its data, which no other node has.
LEMMA FreeAtHolds ==
    ASSUME NodesHold, NEW m \in Nod!Managers, NEW p, p.index \in Nat, Nod!FreeAt(m, p), uses'.nodes = uses.nodes
    PROVE  NodesHold'
<1> DEFINE i == p.index
           s == wire[m]
           t == Nod!Deallocated(s, i)
<1>0. PICK e : e = Nod!Node(m, i).data
  OBVIOUS
<1>1. CASE ~Nod!Deallocatable(s, i)
  BY <1>1 DEF Nod!FreeAt, NodesHold, Given, Apart, Destructed, Held, Moved, Nod!Node
<1>2. CASE Nod!Deallocatable(s, i)
  <2>1. wire' = [wire EXCEPT ![m] = t] /\ got' = [got EXCEPT ![e] = @ + 1]
    BY <1>0, <1>2 DEF Nod!FreeAt
  <2>2. s \in ManagerRecords /\ Pooled(s) /\ i \in Nat
    BY DEF NodesHold
  <2>3. /\ t \in ManagerRecords /\ Pooled(t) /\ i \in Nod!UsedNodes(s) /\ Nod!UsedNodes(t) = Nod!UsedNodes(s) \ {i}
        /\ \A j \in Nod!UsedNodes(s) : j # i => t.nodes[j + 1] = s.nodes[j + 1]
    BY <1>2, <2>2, DeallocatedHolds
  <2>4. t.storage = s.storage
    BY <2>2 DEF Nod!Deallocated, ManagerRecords
  <2>5. e \in 1..uses.nodes /\ e \in 0..NodeCalls
    <3>1. e \in 1..uses.nodes
      BY <1>0, <2>3 DEF NodesHold, Given
    <3>2. s.nodes[i + 1] \in NodeRecords
      BY <1>2, <2>2 DEF ManagerRecords, Nod!Deallocatable
    <3> QED BY <1>0, <3>1, <3>2 DEF NodeRecords, Nod!Node
  <2> HIDE DEF t, i
  <2>6. /\ wire' \in [Nod!Managers -> ManagerRecords] /\ wire'[m] = t
        /\ \A n \in Nod!Managers : n # m => wire'[n] = wire[n]
    BY <2>1, <2>3 DEF NodesHold
  <2>7. \A n \in Nod!Managers : Pooled(wire'[n])
    BY <2>3, <2>6 DEF NodesHold
  <2>8. Moved'
    <3>1. s.storage # 0
      <4>1. s # Nod!MovedFrom
        BY <2>3, MovedFromHolds
      <4> QED BY <4>1 DEF NodesHold, Moved
    <3> QED BY <2>4, <2>6, <3>1 DEF NodesHold, Moved
  <2>9. \A n \in Nod!Managers : \A j \in Nod!UsedNodes(wire'[n]) :
          j \in Nod!UsedNodes(wire[n]) /\ Nod!Node(n, j)'.data = Nod!Node(n, j).data
    BY <2>3, <2>6 DEF Nod!Node
  <2>10. Given' /\ Apart'
    BY <2>9, FewerHold DEF NodesHold
  <2>11. ~Held(e)' /\ Held(e)
    <3>1. Held(e)
      BY <1>0, <2>3 DEF Held
    <3>2. SUFFICES ASSUME NEW n \in Nod!Managers, NEW j \in Nod!UsedNodes(wire'[n]), Nod!Node(n, j)'.data = e
                   PROVE  FALSE
      BY <3>1 DEF Held
    <3>3. j \in Nod!UsedNodes(wire[n]) /\ Nod!Node(n, j).data = Nod!Node(m, i).data
      BY <1>0, <2>9, <3>2
    <3>4. n = m /\ j = i
      BY <2>3, <3>3 DEF NodesHold, Apart
    <3> QED BY <2>3, <2>6, <3>2, <3>4
  <2>12. ASSUME NEW d, d # e PROVE Held(d)' <=> Held(d)
    <3>1. ASSUME Held(d)' PROVE Held(d)
      BY <2>9, <3>1 DEF Held
    <3>2. ASSUME Held(d) PROVE Held(d)'
      <4>0. PICK n \in Nod!Managers : \E j \in Nod!UsedNodes(wire[n]) : Nod!Node(n, j).data = d
        BY <3>2 DEF Held
      <4>1. PICK j \in Nod!UsedNodes(wire[n]) : Nod!Node(n, j).data = d
        BY <4>0
      <4>2. ~(n = m /\ j = i)
        BY <1>0, <2>12, <4>1
      <4>3. j \in Nod!UsedNodes(wire'[n]) /\ Nod!Node(n, j)' = Nod!Node(n, j)
        BY <2>3, <2>6, <4>1, <4>2 DEF Nod!Node
      <4> QED BY <4>1, <4>3 DEF Held
    <3> QED BY <3>1, <3>2
  <2>13. got' \in [0..NodeCalls -> Nat]
    BY <2>1, <2>5 DEF NodesHold
  <2>14. Destructed'
    <3> SUFFICES ASSUME NEW d \in 0..NodeCalls
                 PROVE  got'[d] = IF d \in 1..uses'.nodes /\ ~Held(d)' THEN 1 ELSE 0
      BY DEF Destructed
    <3>1. CASE d = e
      <4>1. got[e] = 0
        BY <2>5, <2>11 DEF NodesHold, Destructed
      <4>2. got'[e] = 1
        BY <2>1, <2>5, <4>1 DEF NodesHold
      <4> QED BY <2>5, <2>11, <3>1, <4>2
    <3>2. CASE d # e
      <4>1. got'[d] = got[d]
        BY <2>1, <3>2 DEF NodesHold
      <4> QED BY <2>12, <3>2, <4>1 DEF NodesHold, Destructed
    <3> QED BY <3>1, <3>2
  <2> QED BY <2>6, <2>7, <2>8, <2>10, <2>13, <2>14 DEF NodesHold
<1> QED BY <1>1, <1>2

\* Data that is given out goes to a node that had none.
LEMMA AllocateHolds ==
    ASSUME NodeInv, NEW m \in Nod!Managers, NEW h \in NodeHandles, Nod!Allocate(m, h)
    PROVE  NodeInv'
<1>1. PICK s, d : /\ s = IF wire[m].free = <<>> THEN Nod!Expanded(wire[m]) ELSE wire[m]
                  /\ d = uses.nodes + 1
  OBVIOUS
<1>2. PICK t, i : t = Nod!Taken(s, d) /\ i = Head(s.free)
  OBVIOUS
<1>3. /\ wire[m].free # <<>> \/ Nod!CanExpand(wire[m])
      /\ wire' = [wire EXCEPT ![m] = t]
      /\ writer' = [writer EXCEPT ![h] = [manager |-> m, node |-> [storage |-> s.storage, index |-> i]]]
      /\ uses' = [nodes |-> d, calls |-> uses.calls + 1] /\ uses.calls < NodeCalls
      /\ reader' = reader /\ got' = got
  BY <1>1, <1>2 DEF Nod!Allocate
<1>4. wire[m] \in ManagerRecords /\ Pooled(wire[m])
  BY DEF NodeInv, NodesHold
<1>5. /\ s \in ManagerRecords /\ Pooled(s) /\ s.free # <<>> /\ Nod!UsedNodes(s) = Nod!UsedNodes(wire[m])
      /\ \A j \in Nod!UsedNodes(wire[m]) : s.nodes[j + 1] = wire[m].nodes[j + 1]
  <2>1. CASE wire[m].free = <<>>
    BY <1>1, <1>3, <1>4, <2>1, ExpandedHolds
  <2>2. CASE wire[m].free # <<>>
    BY <1>1, <1>4, <2>2
  <2> QED BY <2>1, <2>2
<1>6. d \in 0..NodeCalls /\ d = uses.nodes + 1 /\ uses.nodes \in Nat /\ d <= uses.calls + 1
  BY <1>1, <1>3, NodeAssumption DEF NodeInv, NodeTypes
<1>7. /\ t \in ManagerRecords /\ Pooled(t) /\ i \in Nat /\ i \notin Nod!UsedNodes(s)
      /\ Nod!UsedNodes(t) = Nod!UsedNodes(s) \cup {i} /\ t.nodes[i + 1].data = d
      /\ \A j \in Nod!UsedNodes(s) : t.nodes[j + 1] = s.nodes[j + 1]
  BY <1>2, <1>5, <1>6, TakenHolds
<1>8. /\ wire' \in [Nod!Managers -> ManagerRecords] /\ wire'[m] = t
      /\ \A n \in Nod!Managers : n # m => wire'[n] = wire[n]
  BY <1>3, <1>7 DEF NodeInv, NodesHold
<1>9. \A n \in Nod!Managers : Pooled(wire'[n])
  BY <1>7, <1>8 DEF NodeInv, NodesHold
<1>10. NodeTypes'
  <2>1. [storage |-> s.storage, index |-> i] \in Pointers
    BY <1>5, <1>7 DEF ManagerRecords, Pointers
  <2>2. writer' \in [NodeHandles -> [manager : Nod!Managers, node : Pointers] \cup {Nod!Null}]
    BY <1>3, <2>1 DEF NodeInv, NodeTypes
  <2>3. reader' \in SUBSET Pointers
    BY <1>3 DEF NodeInv, NodeTypes
  <2>4. /\ uses' \in [nodes : Nat, calls : Nat] /\ uses'.nodes <= uses'.calls
        /\ uses'.calls <= NodeCalls
    BY <1>3, <1>6, NodeAssumption DEF NodeInv, NodeTypes
  <2> QED BY <2>2, <2>3, <2>4 DEF NodeTypes
<1>11. uses'.nodes = d
  BY <1>3
<1>12. /\ i \in Nod!UsedNodes(wire'[m]) /\ Nod!Node(m, i)'.data = d
       /\ \A n \in Nod!Managers : \A j \in Nod!UsedNodes(wire[n]) :
            j \in Nod!UsedNodes(wire'[n]) /\ Nod!Node(n, j)'.data = Nod!Node(n, j).data
       /\ \A n \in Nod!Managers : \A j \in Nod!UsedNodes(wire'[n]) :
            j \in Nod!UsedNodes(wire[n]) \/ (n = m /\ j = i)
  <2>1. i \in Nod!UsedNodes(wire'[m]) /\ Nod!Node(m, i)'.data = d
    BY <1>7, <1>8 DEF Nod!Node
  <2>2. ASSUME NEW n \in Nod!Managers, NEW j \in Nod!UsedNodes(wire[n])
        PROVE  j \in Nod!UsedNodes(wire'[n]) /\ Nod!Node(n, j)'.data = Nod!Node(n, j).data
    BY <1>5, <1>7, <1>8 DEF Nod!Node
  <2>3. ASSUME NEW n \in Nod!Managers, NEW j \in Nod!UsedNodes(wire'[n])
        PROVE  j \in Nod!UsedNodes(wire[n]) \/ (n = m /\ j = i)
    <3>1. CASE n = m
      <4>1. Nod!UsedNodes(wire'[n]) = Nod!UsedNodes(wire[n]) \cup {i}
        BY <1>5, <1>7, <1>8, <3>1
      <4> QED BY <3>1, <4>1
    <3>2. CASE n # m
      <4>1. wire'[n] = wire[n]
        BY <1>8, <3>2
      <4> QED BY <4>1
    <3> QED BY <3>1, <3>2
  <2> QED BY <2>1, <2>2, <2>3
<1>13. \A n \in Nod!Managers : \A j \in Nod!UsedNodes(wire[n]) : Nod!Node(n, j).data \in 1..uses.nodes
  BY DEF NodeInv, NodesHold, Given
<1>14. Given'
  <2> SUFFICES ASSUME NEW n \in Nod!Managers, NEW j \in Nod!UsedNodes(wire'[n])
               PROVE  Nod!Node(n, j)'.data \in 1..d
    BY <1>11 DEF Given
  <2>1. CASE j \in Nod!UsedNodes(wire[n])
    BY <1>6, <1>12, <1>13, <2>1
  <2>2. CASE n = m /\ j = i
    BY <1>6, <1>12, <2>2
  <2> QED BY <1>12, <2>1, <2>2
<1>15. Apart'
  <2> SUFFICES ASSUME NEW n \in Nod!Managers, NEW k \in Nod!Managers, NEW j \in Nod!UsedNodes(wire'[n]),
                      NEW l \in Nod!UsedNodes(wire'[k]), Nod!Node(n, j)'.data = Nod!Node(k, l)'.data
               PROVE  n = k /\ j = l
    BY DEF Apart
  <2>1. ASSUME NEW x \in Nod!Managers, NEW y \in Nod!UsedNodes(wire'[x])
        PROVE  (x = m /\ y = i) <=> Nod!Node(x, y)'.data = d
    <3>1. CASE y \in Nod!UsedNodes(wire[x])
      <4>1. Nod!Node(x, y)'.data # d
        BY <1>6, <1>12, <1>13, <3>1
      <4>2. ~(x = m /\ y = i)
        BY <1>5, <1>7, <3>1
      <4> QED BY <4>1, <4>2
    <3>2. CASE x = m /\ y = i
      BY <1>12, <3>2
    <3> QED BY <1>12, <3>1, <3>2
  <2>2. CASE Nod!Node(n, j)'.data = d
    BY <2>1, <2>2
  <2>3. CASE Nod!Node(n, j)'.data # d
    <3>1. j \in Nod!UsedNodes(wire[n]) /\ l \in Nod!UsedNodes(wire[k])
      BY <1>12, <2>3
    <3>2. Nod!Node(n, j).data = Nod!Node(k, l).data
      BY <1>12, <3>1
    <3> QED BY <3>1, <3>2 DEF NodeInv, NodesHold, Apart
  <2> QED BY <2>2, <2>3
<1>16. Destructed'
  <2> SUFFICES ASSUME NEW e \in 0..NodeCalls
               PROVE  got[e] = IF e \in 1..d /\ ~Held(e)' THEN 1 ELSE 0
    BY <1>3, <1>11 DEF Destructed
  <2>1. CASE e = d
    <3>1. Held(e)'
      BY <1>12, <2>1 DEF Held
    <3>2. got[e] = 0
      BY <1>6, <2>1 DEF NodeInv, NodesHold, Destructed
    <3> QED BY <3>1, <3>2
  <2>2. CASE e # d
    <3>1. Held(e)' <=> Held(e)
      BY <1>12, <2>2 DEF Held
    <3>2. e \in 1..d <=> e \in 1..uses.nodes
      BY <1>6, <2>2
    <3> QED BY <3>1, <3>2 DEF NodeInv, NodesHold, Destructed
  <2> QED BY <2>1, <2>2
<1>17. Moved'
  <2>1. t.storage = s.storage
    BY <1>2, <1>5 DEF Nod!Taken, ManagerRecords
  <2>2. s.storage # 0
    <3>1. wire[m] # Nod!MovedFrom
      BY <1>3 DEF Nod!MovedFrom, Nod!CanExpand
    <3>2. wire[m].storage \in Nat \ {0}
      BY <1>4, <3>1 DEF NodeInv, NodesHold, Moved, ManagerRecords
    <3>3. Nod!Expanded(wire[m]).storage = wire[m].storage + 1
      BY <1>4 DEF Nod!Expanded, ManagerRecords
    <3> QED BY <1>1, <3>2, <3>3
  <2> QED BY <1>8, <2>1, <2>2 DEF NodeInv, NodesHold, Moved
<1>18. got' \in [0..NodeCalls -> Nat]
  BY <1>3 DEF NodeInv, NodesHold
<1> QED BY <1>8, <1>9, <1>10, <1>14, <1>15, <1>16, <1>17, <1>18 DEF NodeInv, NodesHold

\* clear calls the destructor_ once with all that is given out and not yet destructed.
LEMMA ClearHolds ==
    ASSUME NodeInv, NEW m \in Nod!Managers, Nod!Clear(m)
    PROVE  NodesHold'
<1>1. PICK s, t : s = wire[m] /\ t = Nod!Cleared(s)
  OBVIOUS
<1>2. /\ wire' = [wire EXCEPT ![m] = t] /\ s.nodes # <<>> /\ uses'.nodes = uses.nodes
      /\ got' = [d \in DOMAIN got |->
                   got[d] + Cardinality({i \in Nod!UsedNodes(wire[m]) : Nod!Node(m, i).data = d})]
  BY <1>1, Counts DEF Nod!Clear, Nod!Calling, NodeInv, NodeTypes
<1>3. s \in ManagerRecords /\ Pooled(s)
  BY <1>1 DEF NodeInv, NodesHold
<1>4. t \in ManagerRecords /\ Pooled(t) /\ Nod!UsedNodes(t) = {}
  BY <1>1, <1>3, ClearedHolds
<1>5. /\ wire' \in [Nod!Managers -> ManagerRecords] /\ wire'[m] = t
      /\ \A n \in Nod!Managers : n # m => wire'[n] = wire[n]
  BY <1>2, <1>4 DEF NodeInv, NodesHold
<1>6. \A n \in Nod!Managers : Pooled(wire'[n])
  BY <1>4, <1>5 DEF NodeInv, NodesHold
<1>7. Given' /\ Apart'
  <2>1. \A n \in Nod!Managers : \A j \in Nod!UsedNodes(wire'[n]) :
          j \in Nod!UsedNodes(wire[n]) /\ Nod!Node(n, j)'.data = Nod!Node(n, j).data
    BY <1>4, <1>5 DEF Nod!Node
  <2> QED BY <1>2, <2>1, FewerHold DEF NodeInv, NodesHold
<1>8. Moved'
  <2>1. t.storage = s.storage
    BY <1>1, <1>3 DEF Nod!Cleared, ManagerRecords
  <2>2. s.storage # 0
    BY <1>1, <1>2 DEF Nod!MovedFrom, NodeInv, NodesHold, Moved
  <2> QED BY <1>5, <2>1, <2>2 DEF NodeInv, NodesHold, Moved
<1>9. ASSUME NEW d \in 0..NodeCalls
      PROVE  got'[d] = IF d \in 1..uses'.nodes /\ ~Held(d)' THEN 1 ELSE 0
  <2>1. PICK I : I = {i \in Nod!UsedNodes(wire[m]) : Nod!Node(m, i).data = d}
    OBVIOUS
  <2>2. got'[d] = got[d] + Cardinality(I) /\ got[d] \in Nat
    BY <1>2, <2>1 DEF NodeInv, NodesHold
  <2>3. CASE I = {}
    <3>1. Cardinality(I) = 0
      BY <2>3, FS_EmptySet
    <3>2. Held(d)' <=> Held(d)
      BY <1>4, <1>5, <2>1, <2>3 DEF Held, Nod!Node
    <3> QED BY <1>2, <2>2, <3>1, <3>2 DEF NodeInv, NodesHold, Destructed
  <2>4. CASE I # {}
    <3>1. PICK i \in Nod!UsedNodes(wire[m]) : Nod!Node(m, i).data = d
      BY <2>1, <2>4
    <3>2. \A n \in Nod!Managers : \A j \in Nod!UsedNodes(wire[n]) : Nod!Node(n, j).data = d => n = m /\ j = i
      BY <3>1 DEF NodeInv, NodesHold, Apart
    <3>3. I = {i}
      BY <2>1, <3>1, <3>2
    <3>4. Cardinality(I) = 1
      BY <3>3, FS_Singleton
    <3>5. got[d] = 0
      BY <3>1 DEF NodeInv, NodesHold, Destructed, Held
    <3>6. ~Held(d)'
      BY <1>4, <1>5, <3>2 DEF Held, Nod!Node
    <3>7. d \in 1..uses.nodes
      BY <3>1 DEF NodeInv, NodesHold, Given
    <3> QED BY <1>2, <2>2, <3>4, <3>5, <3>6, <3>7
  <2> QED BY <2>3, <2>4
<1>10. got' \in [0..NodeCalls -> Nat]
  <2>1. \A d \in 0..NodeCalls : got'[d] \in Nat
    BY <1>9
  <2>2. DOMAIN got = 0..NodeCalls
    BY DEF NodeInv, NodesHold
  <2>3. got' = [d \in 0..NodeCalls |-> got'[d]]
    BY <1>2, <2>2
  <2> QED BY <2>1, <2>3
<1> QED BY <1>5, <1>6, <1>7, <1>8, <1>9, <1>10 DEF NodesHold, Destructed

\* A manager that is moved takes its nodes along.
LEMMA MoveManagerHolds ==
    ASSUME NodeInv, Nod!MoveManager
    PROVE  NodesHold'
<1>1. /\ wire' = [first |-> Nod!MovedFrom, second |-> wire["first"]]
      /\ got' = got /\ uses'.nodes = uses.nodes
  BY DEF Nod!MoveManager, Nod!Calling, NodeInv, NodeTypes
<1>2. wire["second"] = Nod!MovedFrom
  BY DEF Nod!MoveManager, NodeInv, NodesHold, Moved, Nod!Managers
<1>3. Nod!MovedFrom \in ManagerRecords /\ Pooled(Nod!MovedFrom) /\ Nod!UsedNodes(Nod!MovedFrom) = {}
  BY MovedFromHolds
<1>4. /\ wire["first"] \in ManagerRecords /\ Pooled(wire["first"])
      /\ wire["first"].storage = 0 => wire["first"] = Nod!MovedFrom
  BY DEF NodeInv, NodesHold, Moved, Nod!Managers
<1>5. /\ wire'["first"] = Nod!MovedFrom /\ wire'["second"] = wire["first"]
      /\ wire' \in [Nod!Managers -> ManagerRecords]
  BY <1>1, <1>3, <1>4 DEF Nod!Managers
<1>6. (\A n \in Nod!Managers : Pooled(wire'[n])) /\ Moved'
  BY <1>3, <1>4, <1>5 DEF Moved, Nod!Managers
<1>7. \A n \in Nod!Managers : \A j \in Nod!UsedNodes(wire'[n]) :
        n = "second" /\ j \in Nod!UsedNodes(wire["first"]) /\ Nod!Node(n, j)' = Nod!Node("first", j)
  BY <1>3, <1>5 DEF Nod!Node, Nod!Managers
<1>8. \A n \in Nod!Managers : \A j \in Nod!UsedNodes(wire[n]) :
        n = "first" /\ j \in Nod!UsedNodes(wire'["second"]) /\ Nod!Node("second", j)' = Nod!Node(n, j)
  BY <1>2, <1>3, <1>5 DEF Nod!Node, Nod!Managers
<1>9. "first" \in Nod!Managers /\ "second" \in Nod!Managers
  BY DEF Nod!Managers
<1>10. Given'
  BY <1>1, <1>7, <1>9 DEF NodeInv, NodesHold, Given
<1>11. Apart'
  BY <1>7, <1>9 DEF NodeInv, NodesHold, Apart
<1>12. \A d : Held(d)' <=> Held(d)
  BY <1>7, <1>8, <1>9 DEF Held
<1>13. Destructed'
  BY <1>1, <1>12 DEF NodeInv, NodesHold, Destructed
<1> QED BY <1>1, <1>5, <1>6, <1>10, <1>11, <1>13 DEF NodeInv, NodesHold

\* No call of a manager or of a handle breaks it.
LEMMA NodesInductive ==
  /\ Nod!Init => NodeInv
  /\ NodeInv /\ [Nod!Next]_(Nod!vars) => NodeInv'
<1>1. ASSUME Nod!Init PROVE NodeInv
  <2>1. PICK n \in Capacities : wire = [first |-> Nod!Constructed(n), second |-> Nod!MovedFrom]
    BY <1>1 DEF Nod!Init
  <2>2. n \in Nat
    BY NodeAssumption
  <2>3. Nod!Constructed(n).storage = 1
    BY DEF Nod!Constructed
  <2>4. /\ \A m \in Nod!Managers : /\ wire[m] \in ManagerRecords /\ Pooled(wire[m])
                              /\ Nod!UsedNodes(wire[m]) = {}
        /\ wire \in [Nod!Managers -> ManagerRecords] /\ Moved
    BY <2>1, <2>2, <2>3, ConstructedHolds, MovedFromHolds DEF Nod!Managers, Moved
  <2>5. Given /\ Apart /\ \A d : ~Held(d)
    BY <2>4 DEF Given, Apart, Held
  <2>6. got = [d \in 0..NodeCalls |-> 0] /\ uses = [nodes |-> 0, calls |-> 0]
    BY <1>1 DEF Nod!Init
  <2>7. Destructed /\ got \in [0..NodeCalls -> Nat]
    BY <2>6 DEF Destructed
  <2>8. NodeTypes
    BY <1>1, <2>6, NodeAssumption DEF Nod!Init, NodeTypes
  <2> QED BY <2>4, <2>5, <2>7, <2>8 DEF NodeInv, NodesHold
<1>2. ASSUME NodeInv, Nod!Calling, writer' \in [NodeHandles -> [manager : Nod!Managers, node : Pointers] \cup {Nod!Null}],
             reader' \in SUBSET Pointers
      PROVE  NodeTypes' /\ uses'.nodes = uses.nodes
  BY <1>2, NodeAssumption DEF NodeInv, NodeTypes, Nod!Calling
<1>3. ASSUME NodeInv, UNCHANGED <<wire, got>>, uses'.nodes = uses.nodes
      PROVE  NodesHold'
  BY <1>3 DEF NodeInv, NodesHold, Given, Apart, Destructed, Held, Moved, Nod!Node
<1>4. ASSUME NodeInv, [Nod!Next]_(Nod!vars) PROVE NodeInv'
  <2>1. /\ writer \in [NodeHandles -> [manager : Nod!Managers, node : Pointers] \cup {Nod!Null}]
        /\ reader \in SUBSET Pointers
    BY <1>4 DEF NodeInv, NodeTypes
  <2>2. ASSUME NEW m \in Nod!Managers, NEW h \in NodeHandles, Nod!Allocate(m, h) PROVE NodeInv'
    BY <1>4, <2>2, AllocateHolds
  <2>3. ASSUME NEW m \in Nod!Managers, NEW h \in NodeHandles, Nod!AllocateFails(m, h) PROVE NodeInv'
    BY <1>2, <1>3, <1>4, <2>1, <2>3 DEF Nod!AllocateFails, NodeInv
  <2>4. ASSUME NEW m \in Nod!Managers, NEW i \in 0..wire[m].capacity, Nod!DeallocateIndex(m, i)
        PROVE  NodeInv'
    <3>1. PICK p : p = [index |-> i]
      OBVIOUS
    <3>2. NodeTypes' /\ uses'.nodes = uses.nodes /\ Nod!FreeAt(m, p) /\ p.index \in Nat
      BY <1>2, <1>4, <2>1, <2>4, <3>1 DEF Nod!DeallocateIndex
    <3> QED BY <1>4, <3>2, FreeAtHolds DEF NodeInv
  <2>5. ASSUME NEW m \in Nod!Managers, NEW p \in reader, Nod!DeallocateNode(m, p) PROVE NodeInv'
    <3>1. NodeTypes' /\ uses'.nodes = uses.nodes /\ Nod!FreeAt(m, p) /\ p.index \in Nat
      BY <1>2, <1>4, <2>1, <2>5 DEF Nod!DeallocateNode, Pointers
    <3> QED BY <1>4, <3>1, FreeAtHolds DEF NodeInv
  <2>6. ASSUME NEW m \in Nod!Managers, Nod!Clear(m) PROVE NodeInv'
    BY <1>2, <1>4, <2>1, <2>6, ClearHolds DEF Nod!Clear, NodeInv
  <2>7. ASSUME NEW h \in NodeHandles, writer[h] # Nod!Null
        PROVE  /\ writer[h].manager \in Nod!Managers /\ writer[h].node \in Pointers
               /\ writer[h].node.index \in Nat
    BY <2>1, <2>7 DEF Pointers
  <2>8. ASSUME NEW h \in NodeHandles, Nod!Reset(h) PROVE NodeInv'
    <3>1. PICK m \in Nod!Managers, p \in Pointers : m = writer[h].manager /\ p = writer[h].node /\ p.index \in Nat
      BY <2>7, <2>8 DEF Nod!Reset
    <3>2. NodeTypes' /\ uses'.nodes = uses.nodes /\ Nod!FreeAt(m, p)
      BY <1>2, <1>4, <2>1, <2>8, <3>1 DEF Nod!Reset
    <3> QED BY <1>4, <3>1, <3>2, FreeAtHolds DEF NodeInv
  <2>9. ASSUME NEW h \in NodeHandles, Nod!Release(h) PROVE NodeInv'
    <3>1. reader' \in SUBSET Pointers
      BY <2>1, <2>7, <2>9 DEF Nod!Release
    <3>2. writer' \in [NodeHandles -> [manager : Nod!Managers, node : Pointers] \cup {Nod!Null}]
      BY <2>1, <2>9 DEF Nod!Release
    <3> QED BY <1>2, <1>3, <1>4, <2>9, <3>1, <3>2 DEF Nod!Release, NodeInv
  <2>10. ASSUME NEW h \in NodeHandles, NEW k \in NodeHandles, Nod!MoveHandle(h, k) PROVE NodeInv'
    <3>1. writer' \in [NodeHandles -> [manager : Nod!Managers, node : Pointers] \cup {Nod!Null}]
      BY <2>1, <2>10 DEF Nod!MoveHandle
    <3>2. NodeTypes' /\ uses'.nodes = uses.nodes
      BY <1>2, <1>4, <2>1, <2>10, <3>1 DEF Nod!MoveHandle
    <3>3. CASE writer[k] = Nod!Null
      BY <1>3, <1>4, <2>10, <3>2, <3>3 DEF Nod!MoveHandle, NodeInv
    <3>4. CASE writer[k] # Nod!Null
      <4>1. PICK m \in Nod!Managers, p \in Pointers : m = writer[k].manager /\ p = writer[k].node /\ p.index \in Nat
        BY <2>7, <3>4
      <4>2. Nod!FreeAt(m, p)
        BY <2>10, <3>4, <4>1 DEF Nod!MoveHandle
      <4> QED BY <1>4, <3>2, <4>1, <4>2, FreeAtHolds DEF NodeInv
    <3> QED BY <3>3, <3>4
  <2>11. CASE Nod!MoveManager
    BY <1>2, <1>4, <2>1, <2>11, MoveManagerHolds DEF Nod!MoveManager, NodeInv
  <2>12. CASE UNCHANGED Nod!vars
    <3>1. NodeTypes'
      BY <1>4, <2>12 DEF Nod!vars, NodeInv, NodeTypes
    <3> QED BY <1>3, <1>4, <2>12, <3>1 DEF Nod!vars, NodeInv
  <2> QED BY <1>4, <2>2, <2>3, <2>4, <2>5, <2>6, <2>8, <2>9, <2>10, <2>11, <2>12 DEF Nod!Next
<1> QED BY <1>1, <1>4

\* What the invariant says of ownership.
LEMMA NodesOwned == NodeInv => Nod!NodesAreOwned
<1> SUFFICES ASSUME NodeInv PROVE Nod!NodesAreOwned
  OBVIOUS
<1>1. \A m \in Nod!Managers : Pooled(wire[m])
  BY DEF NodeInv, NodesHold
<1>2. ASSUME NEW d \in 0..NodeCalls
      PROVE  got[d] = IF d \in 1..uses.nodes
                         /\ \A m \in Nod!Managers : \A i \in Nod!UsedNodes(wire[m]) : Nod!Node(m, i).data # d
                      THEN 1 ELSE 0
  <2>1. got[d] = IF d \in 1..uses.nodes /\ ~Held(d) THEN 1 ELSE 0
    BY DEF NodeInv, NodesHold, Destructed
  <2>2. ~Held(d) <=> \A m \in Nod!Managers : \A i \in Nod!UsedNodes(wire[m]) : Nod!Node(m, i).data # d
    BY DEF Held
  <2> QED BY <2>1, <2>2
<1>3. DOMAIN got = 0..NodeCalls
  BY DEF NodeInv, NodesHold
<1>4. Apart
  BY DEF NodeInv, NodesHold
<1> QED BY <1>1, <1>2, <1>3, <1>4, Counts DEF Pooled, Apart, Nod!NodesAreOwned
=============================================================================
