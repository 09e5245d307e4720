-------------------------- MODULE FixedRingProofs --------------------------
(***************************************************************************)
(* Theorems about FixedRing, for every number of slots, index width and    *)
(* set of readers; at the end, that it implements LossyFeed.               *)
(***************************************************************************)
EXTENDS MCFixedRing, ModLemmas

-----------------------------------------------------------------------------
(***************************************************************************)
(* The writer's side.  A published item is safe because the writer only    *)
(* touches the slot of the next item, which no item of the window shares.  *)
(***************************************************************************)

Whole(i) == [length |-> i, head |-> i, body |-> i]

WriterTypeOK ==
    /\ item_current \in Indices
    /\ slots \in [Slots -> [length : Content, head : Content, body : Content]]
    /\ wpc \in {"idle", "cleared", "filled", "sealed", "failed", "down"}
    /\ published \in Nat
    /\ refused \in [Slots -> BOOLEAN]

\* How far the item being written has got.
Progress ==
    /\ wpc = "filled" => slots[WriteSlot].head = published /\ slots[WriteSlot].body = published
    /\ wpc = "sealed" => slots[WriteSlot] = Whole(published)
    /\ wpc = "failed" => slots[WriteSlot].length = Blank

\* The length stays zero until it is stored.
Unsealed == wpc \in {"cleared", "filled"} => slots[WriteSlot].length = Blank

\* What the window's slots hold, refused items included.
Kept ==
    NoSeam => \A i \in Window :
        IF refused[HomeOf(i)] THEN slots[HomeOf(i)].length = Blank
                              ELSE slots[HomeOf(i)] = Whole(i)

WriterInv ==
    /\ WriterTypeOK
    /\ item_current = published % IndexMod
    /\ Progress
    /\ Unsealed
    /\ Kept

\* The constants as the provers want them.
LEMMA Constants ==
    /\ Count \in Nat \ {0}
    /\ IndexMod \in Nat \ {0}
    /\ IndexMod > 2 * Count
    /\ 2 * (IndexMod \div 2) = IndexMod
    /\ IndexMod \div 2 \in Nat
BY RingAssumption

LEMMA SlotOfType ==
    ASSUME NEW x \in Int
    PROVE  SlotOf(x) \in Slots
BY Constants, ModRange DEF SlotOf, Slots

\* The writer's next slot is not the slot of an item in the window.
LEMMA WindowApart ==
    ASSUME published \in Nat, NoSeam, NEW i \in Window,
           item_current = published % IndexMod
    PROVE  HomeOf(i) # WriteSlot
<1>1. i \in Nat /\ i < published /\ published - i < Count /\ published \in Int /\ i \in Int
  BY Constants DEF Window
<1>2. i % Count # published % Count
  BY <1>1, Constants, ModClose
<1>3. CASE IndexMod % Count = 0
  <2>1. (i % IndexMod) % Count = i % Count
    BY <1>1, <1>3, Constants, ModMod
  <2>2. (published % IndexMod) % Count = published % Count
    BY <1>1, <1>3, Constants, ModMod
  <2> QED BY <1>2, <2>1, <2>2 DEF HomeOf, WriteSlot, SlotOf
<1>4. CASE published < IndexMod
  <2>1. i % IndexMod = i
    BY <1>1, <1>4, Constants, ModSmall
  <2>2. published % IndexMod = published
    BY <1>1, <1>4, Constants, ModSmall
  <2> QED BY <1>2, <2>1, <2>2 DEF HomeOf, WriteSlot, SlotOf
<1> QED BY <1>3, <1>4 DEF NoSeam

LEMMA HomeType ==
    ASSUME NEW i \in Int
    PROVE  HomeOf(i) \in Slots
BY Constants, ModRange, SlotOfType DEF HomeOf

LEMMA WindowType ==
    ASSUME published \in Nat
    PROVE  Window \subseteq Nat
BY Constants DEF Window

LEMMA WriterInit == Init => WriterInv
<1> SUFFICES ASSUME Init PROVE WriterInv
  OBVIOUS
<1>1. WriterTypeOK
  BY Constants DEF Init, WriterTypeOK, Indices, Content, Items, Blank, BlankSlot
<1>2. 0 % IndexMod = 0
  BY Constants, ModSmall
<1>3. Window = {}
  BY Constants DEF Init, Window
<1> QED BY <1>1, <1>2, <1>3 DEF Init, WriterInv, Progress, Unsealed, Kept

\* A store into the writer's slot leaves the window alone.
LEMMA StoreKeeps ==
    ASSUME WriterInv, published' = published, item_current' = item_current,
           refused' = refused, DOMAIN slots' = DOMAIN slots,
           \A k \in Slots : k # WriteSlot => slots'[k] = slots[k]
    PROVE  Kept'
<1> SUFFICES ASSUME NoSeam', NEW i \in Window'
             PROVE  IF refused'[HomeOf(i)] THEN slots'[HomeOf(i)].length = Blank
                                           ELSE slots'[HomeOf(i)] = Whole(i)
  BY DEF Kept, HomeOf, SlotOf, Whole
<1>1. NoSeam /\ i \in Window /\ published \in Nat
  BY DEF NoSeam, Window, WriterInv, WriterTypeOK
<1>2. HomeOf(i) # WriteSlot
  BY <1>1, WindowApart DEF WriterInv
<1>3. HomeOf(i) \in Slots
  BY <1>1, WindowType, HomeType
<1> QED BY <1>1, <1>2, <1>3 DEF WriterInv, Kept

LEMMA WriterNext == WriterInv /\ [Next]_vars => WriterInv'
<1> SUFFICES ASSUME WriterInv, [Next]_vars PROVE WriterInv'
  OBVIOUS
<1> USE Constants
<1>t. WriteSlot \in Slots /\ published \in Content /\ published \in Nat /\ Blank \in Content
  BY SlotOfType DEF WriterInv, WriterTypeOK, WriteSlot, Indices, Content, Items, Blank
<1>1. CASE ClearItem
  <2>1. WriterTypeOK'
    BY <1>1, <1>t DEF ClearItem, WriterInv, WriterTypeOK
  <2>2. \A k \in Slots : k # WriteSlot => slots'[k] = slots[k]
    BY <1>1, <1>t DEF ClearItem, WriterInv, WriterTypeOK
  <2>3. Kept'
    BY <1>1, <2>2, StoreKeeps DEF ClearItem, readerVars, WriterInv, WriterTypeOK
  <2>4. slots'[WriteSlot].length = Blank
    BY <1>1, <1>t DEF ClearItem, WriterInv, WriterTypeOK
  <2> QED BY <1>1, <2>1, <2>3, <2>4 DEF ClearItem, WriterInv, Progress, Unsealed, WriteSlot, SlotOf
<1>2. CASE FillItem
  <2>1. WriterTypeOK'
    BY <1>2, <1>t DEF FillItem, WriterInv, WriterTypeOK
  <2>2. \A k \in Slots : k # WriteSlot => slots'[k] = slots[k]
    BY <1>2, <1>t DEF FillItem, WriterInv, WriterTypeOK
  <2>3. Kept'
    BY <1>2, <2>2, StoreKeeps DEF FillItem, WriterInv, WriterTypeOK
  <2>4. /\ slots'[WriteSlot].length = slots[WriteSlot].length
        /\ slots'[WriteSlot].head = published /\ slots'[WriteSlot].body = published
    BY <1>2, <1>t DEF FillItem, WriterInv, WriterTypeOK
  <2> QED BY <1>2, <2>1, <2>3, <2>4 DEF FillItem, WriterInv, Progress, Unsealed, WriteSlot, SlotOf
<1>3. CASE SealItem
  <2>1. WriterTypeOK'
    BY <1>3, <1>t DEF SealItem, WriterInv, WriterTypeOK
  <2>2. \A k \in Slots : k # WriteSlot => slots'[k] = slots[k]
    BY <1>3, <1>t DEF SealItem, WriterInv, WriterTypeOK
  <2>3. Kept'
    BY <1>3, <2>2, StoreKeeps DEF SealItem, WriterInv, WriterTypeOK
  <2>4. slots'[WriteSlot] = Whole(published)
    BY <1>3, <1>t DEF SealItem, WriterInv, WriterTypeOK, Progress, Whole
  <2> QED BY <1>3, <2>1, <2>3, <2>4 DEF SealItem, WriterInv, Progress, Unsealed, WriteSlot, SlotOf, Whole
<1>4. CASE RejectItem
  BY <1>4 DEF RejectItem, WriterInv, WriterTypeOK, Progress, Unsealed, Kept, NoSeam, Window,
              HomeOf, SlotOf, WriteSlot, Whole
<1>5. CASE FinishWrite
  <2>1. item_current' = published' % IndexMod
    <3>1. ((published % IndexMod) + 1) % IndexMod = (published + 1) % IndexMod
      BY <1>t, 1 \in Int, published \in Int, ModPlus
    <3> QED BY <1>5, <3>1 DEF FinishWrite, WriterInv
  <2>2. WriterTypeOK'
    <3>1. item_current' \in Indices
      BY <1>5, <1>t, <2>1, published' \in Int, ModRange DEF FinishWrite, Indices
    <3>2. refused' \in [Slots -> BOOLEAN]
      BY <1>5, <1>t, Zenon DEF FinishWrite, WriterInv, WriterTypeOK
    <3> QED BY <1>5, <1>t, <3>1, <3>2 DEF FinishWrite, WriterInv, WriterTypeOK
  <2>3. Kept'
    <3> SUFFICES ASSUME NoSeam', NEW i \in Window'
                 PROVE  IF refused'[HomeOf(i)] THEN slots[HomeOf(i)].length = Blank
                                               ELSE slots[HomeOf(i)] = Whole(i)
      BY <1>5 DEF Kept, HomeOf, SlotOf, Whole, FinishWrite
    <3>1. NoSeam
      BY <1>5, <1>t DEF NoSeam, FinishWrite
    <3>2. i \in Nat /\ (i \in Window \/ i = published)
      BY <1>5, <1>t DEF Window, FinishWrite
    <3>3. CASE i = published
      <4>1. HomeOf(i) = WriteSlot
        BY <3>3 DEF WriterInv, HomeOf, WriteSlot, SlotOf
      <4>2. refused'[WriteSlot] = (wpc = "failed")
        BY <1>5, <1>t DEF FinishWrite, WriterInv, WriterTypeOK
      <4> QED BY <1>5, <3>3, <4>1, <4>2 DEF FinishWrite, WriterInv, Progress
    <3>4. CASE i \in Window
      <4>1. HomeOf(i) # WriteSlot
        BY <3>4, <3>1, <1>t, WindowApart DEF WriterInv
      <4>2. HomeOf(i) \in Slots
        BY <3>2, HomeType
      <4>3. refused'[HomeOf(i)] = refused[HomeOf(i)]
        BY <1>5, <4>1, <4>2 DEF FinishWrite, WriterInv, WriterTypeOK
      <4> QED BY <3>1, <3>4, <4>3 DEF WriterInv, Kept
    <3> QED BY <3>2, <3>3, <3>4
  <2> QED BY <1>5, <2>1, <2>2, <2>3 DEF FinishWrite, WriterInv, Progress, Unsealed
<1>6. CASE Crash
  BY <1>6 DEF Crash, WriterInv, WriterTypeOK, Progress, Unsealed, Kept, NoSeam, Window,
              HomeOf, SlotOf, WriteSlot, Whole
<1>7. CASE Reattach
  BY <1>7 DEF Reattach, WriterInv, WriterTypeOK, Progress, Unsealed, Kept, NoSeam, Window,
              HomeOf, SlotOf, WriteSlot, Whole
<1>8. CASE UNCHANGED writerVars
  BY <1>8 DEF writerVars, WriterInv, WriterTypeOK, Progress, Unsealed, Kept, NoSeam, Window,
              HomeOf, SlotOf, WriteSlot, Whole
<1>9. ASSUME NEW r \in Readers, ReaderStep(r) \/ Seek(r) PROVE UNCHANGED writerVars
  BY <1>9 DEF ReaderStep, Seek, BeginRead, PollFails, Poll, ReadLength, ParseHead, UsePayload,
              Release, Reopen, SeekReadIndexToWriteIndex, SeekReadIndexToRingStart
<1> QED
  BY <1>1, <1>2, <1>3, <1>4, <1>5, <1>6, <1>7, <1>8, <1>9 DEF Next, Writer, vars

\* The window's items are intact at all times, for every ring: crashes and
\* restarts of the writer included.
THEOREM WindowIsIntact == Spec => []WindowIntact
<1>1. WriterInv => WindowIntact
  BY DEF WriterInv, Kept, WindowIntact, Whole
<1> QED BY WriterInit, WriterNext, <1>1, PTL DEF Spec

-----------------------------------------------------------------------------
(***************************************************************************)
(* The readers' side.  First the arithmetic of one poll.                   *)
(***************************************************************************)

\* The 32-bit difference of two wrapped indices is the wrapped lag.
LEMMA GapIsLag ==
    ASSUME NEW p \in Nat, NEW c \in Nat
    PROVE  ((p % IndexMod) - (c % IndexMod)) % IndexMod = (p - c) % IndexMod
<1>1. ((p % IndexMod) + (-(c % IndexMod))) % IndexMod = (p + (-(c % IndexMod))) % IndexMod
  BY Constants, ModRange, p \in Int, c \in Int, -(c % IndexMod) \in Int, ModPlus
<1>2. (p - (c % IndexMod)) % IndexMod = (p - c) % IndexMod
  BY Constants, p \in Int, c \in Int, ModMinus
<1>3. p % IndexMod \in Int /\ c % IndexMod \in Int
  BY Constants, ModRange
<1> QED BY <1>1, <1>2, <1>3

LEMMA GapCases ==
    ASSUME NEW p \in Nat, NEW c \in Nat
    PROVE  LET d == (p - c) % IndexMod IN
           /\ d \in 0 .. IndexMod - 1
           /\ d < IndexMod \div 2 => Gap(p % IndexMod, c % IndexMod) = d
           /\ d >= IndexMod \div 2 => Gap(p % IndexMod, c % IndexMod) = d - IndexMod
<1> DEFINE d == (p - c) % IndexMod
<1>1. Gap(p % IndexMod, c % IndexMod) = IF d < IndexMod \div 2 THEN d ELSE d - IndexMod
  BY GapIsLag DEF Gap
<1>2. d \in 0 .. IndexMod - 1
  BY Constants, ModRange, p - c \in Int
<1> HIDE DEF d
<1>3. /\ d < IndexMod \div 2 => Gap(p % IndexMod, c % IndexMod) = d
      /\ d >= IndexMod \div 2 => Gap(p % IndexMod, c % IndexMod) = d - IndexMod
  BY <1>1, <1>2, Constants
<1> QED BY <1>2, <1>3 DEF d

\* A poll that fails has found a reader half the index range behind.
LEMMA FailIsLag ==
    ASSUME NEW p \in Nat, NEW c \in Nat, c <= p,
           Gap(p % IndexMod, c % IndexMod) < 0
    PROVE  p - c >= IndexMod \div 2
<1> DEFINE d == (p - c) % IndexMod
<1>1. d \in 0 .. IndexMod - 1 /\ IndexMod \div 2 \in Nat
  BY Constants, GapCases
<1>2. d >= IndexMod \div 2
  <2>1. d < IndexMod \div 2 => Gap(p % IndexMod, c % IndexMod) = d
    BY GapCases
  <2> HIDE DEF d
  <2> QED BY <1>1, <2>1
<1>3. CASE p - c < IndexMod
  <2>1. d = p - c
    BY <1>3, Constants, ModSmall
  <2> QED BY <2>1, <1>2
<1>4. CASE p - c >= IndexMod
  BY <1>4, Constants
<1> QED BY <1>3, <1>4, Constants

\* What any other poll does: the index it continues with belongs to an item
\* `left' behind the writer, not ahead of it and not before the reader.
LEMMA PollArithmetic ==
    ASSUME NEW p \in Nat, NEW c \in Nat, c <= p,
           NEW gap, gap = Gap(p % IndexMod, c % IndexMod), gap >= 0,
           NEW next, next = CatchUp(c % IndexMod, gap),
           NEW left, left = Gap(p % IndexMod, next)
    PROVE  /\ left \in Nat /\ left < MaxGap /\ left <= p - c
           /\ next = (p - left) % IndexMod
           /\ next \in Indices
           /\ (IndexMod % Count = 0 \/ p < IndexMod) => SlotOf(next) = SlotOf(c % IndexMod)
<1> DEFINE q == (p - c) \div IndexMod
           m == c % IndexMod
<1>1. gap = (p - c) % IndexMod /\ gap \in Nat /\ gap < IndexMod \div 2
  <2> DEFINE d == (p - c) % IndexMod
  <2>1. d \in 0 .. IndexMod - 1 /\ IndexMod \div 2 \in Nat
    BY Constants, GapCases
  <2>2. /\ d < IndexMod \div 2 => gap = d
        /\ d >= IndexMod \div 2 => gap = d - IndexMod
    BY GapCases
  <2> HIDE DEF d
  <2>3. gap = d /\ gap \in Nat /\ gap < IndexMod \div 2
    BY <2>1, <2>2, Constants
  <2> QED BY <2>3 DEF d
<1>2. p - c = IndexMod * q + gap /\ q \in Nat /\ IndexMod * q \in Nat
  BY <1>1, Constants, p - c \in Nat, DivMod
<1>3. m \in 0 .. IndexMod - 1
  BY Constants, ModRange
<1>4. CASE gap < MaxGap
  <2>1. next = m /\ left = gap
    BY <1>4, <1>1, <1>3, Constants DEF CatchUp, MaxGap
  <2>2. p - gap = c + IndexMod * q
    <3> DEFINE y == IndexMod * q
    <3>1. p - c = y + gap /\ y \in Nat
      BY <1>2
    <3> HIDE DEF y, q
    <3>2. p - gap = c + y
      BY <3>1, <1>1
    <3> QED BY <3>2 DEF y
  <2>3. (c + IndexMod * q) % IndexMod = m
    BY <1>2, Constants, ModShift, c \in Int, q \in Int
  <2>4. IndexMod * q >= 0
    BY <1>2, Constants
  <2> QED BY <2>1, <2>2, <2>3, <2>4, <1>1, <1>2, <1>3, <1>4, Constants DEF Indices
<1>5. CASE gap >= MaxGap
  <2> DEFINE k == gap \div Count
             x == Count * k
  <2>1. k \in Nat /\ gap = x + (gap % Count) /\ gap % Count \in 0 .. Count - 1 /\ x \in Nat
    BY <1>1, Constants, DivMod
  <2>2. next = (m + x) % IndexMod
    BY <1>5, <1>1, <1>3, Constants DEF CatchUp, MaxGap
  <2> HIDE DEF x
  <2>h. x <= gap /\ gap - x < Count
    BY <2>1, <1>1, Constants
  <2>3. next = (c + x) % IndexMod
    BY <2>1, <2>2, Constants, ModPlus, c \in Int, x \in Int
  <2>4. left = gap - x
    <3>1. ((p % IndexMod) - ((c + x) % IndexMod)) % IndexMod = (p - (c + x)) % IndexMod
      BY <2>1, GapIsLag, c + x \in Nat
    <3>2. p - (c + x) = (gap - x) + IndexMod * q
      BY <1>1, <1>2, <2>1, Constants
    <3>3. ((gap - x) + IndexMod * q) % IndexMod = (gap - x) % IndexMod
      BY <1>1, <1>2, <2>1, Constants, ModShift, gap - x \in Int, q \in Int
    <3>4. gap - x \in 0 .. IndexMod - 1 /\ gap - x < IndexMod \div 2
      BY <1>1, <2>1, <2>h, Constants
    <3>5. (gap - x) % IndexMod = gap - x
      BY <3>4, Constants, ModSmall
    <3> QED BY <2>3, <3>1, <3>2, <3>3, <3>4, <3>5 DEF Gap
  <2>5. next = (p - left) % IndexMod
    <3>1. p - left = (c + x) + IndexMod * q
      BY <2>4, <1>1, <1>2, <2>1, Constants
    <3>2. ((c + x) + IndexMod * q) % IndexMod = (c + x) % IndexMod
      BY <1>2, <2>1, Constants, ModShift, c + x \in Int, q \in Int
    <3> QED BY <2>3, <3>1, <3>2
  <2>6. next \in Indices
    BY <2>3, <2>1, c + x \in Int, Constants, ModRange DEF Indices
  <2>7. left \in Nat /\ left < MaxGap /\ left <= p - c
    <3>1. IndexMod * q >= 0
      BY <1>2, Constants
    <3> QED BY <2>4, <2>1, <2>h, <1>1, <1>2, <3>1, Constants DEF MaxGap
  <2>8. ASSUME IndexMod % Count = 0 PROVE SlotOf(next) = SlotOf(m)
    <3>1. ((m + x) % IndexMod) % Count = (m + x) % Count
      BY <2>8, <2>1, <1>3, Constants, ModMod, m + x \in Int
    <3>2. (m + Count * k) % Count = m % Count
      BY <2>1, <1>3, Constants, ModShift, m \in Int, k \in Int
    <3> QED BY <2>2, <3>1, <3>2 DEF SlotOf, x
  <2>9. ASSUME p < IndexMod PROVE SlotOf(next) = SlotOf(m)
    <3>1. m = c
      BY <2>9, Constants, ModSmall
    <3>2. gap = p - c
      BY <2>9, <1>1, Constants, ModSmall, p - c \in 0 .. IndexMod - 1
    <3>3. next = m + x
      <4>1. m + x \in 0 .. IndexMod - 1
        BY <3>1, <3>2, <2>1, <2>h, <2>9, Constants
      <4> QED BY <2>2, <4>1, Constants, ModSmall
    <3>4. (m + Count * k) % Count = m % Count
      BY <2>1, <1>3, Constants, ModShift, m \in Int, k \in Int
    <3> QED BY <3>3, <3>4 DEF SlotOf, x
  <2> QED BY <2>5, <2>6, <2>7, <2>8, <2>9
<1> QED BY <1>4, <1>5, <1>1, Constants DEF MaxGap

(***************************************************************************)
(* What is known of one reader.                                            *)
(***************************************************************************)

Lending == {"parsing", "header", "holding", "peeking"}

ReaderTypeOK(r) ==
    /\ m_uReadIndex[r] \in Indices
    /\ read_index[r] \in Indices
    /\ rpc[r] \in {"idle", "polling", "parsing", "header", "holding", "peeking", "error"}
    /\ took[r] \in [item : Content, head : Content, body : Content]
    /\ position[r] \in Nat

\* The item a reader polled is still one of the window's.
InWindow(r) == NoSeam /\ published - took[r].item < Count

ReaderInv(r) ==
    /\ ReaderTypeOK(r)
    /\ m_uReadIndex[r] = position[r] % IndexMod
    /\ position[r] <= published
    /\ rpc[r] \notin Lending => took[r] = Nothing
    /\ (rpc[r] = "polling" /\ NoSeam) => SlotOf(read_index[r]) = SlotOf(m_uReadIndex[r])
    /\ rpc[r] \in Lending =>
          /\ took[r].item \in Nat
          /\ took[r].item < published
          /\ NoSeam => SlotOf(read_index[r]) = HomeOf(took[r].item)
          /\ rpc[r] # "holding" => position[r] = took[r].item
    /\ rpc[r] \in {"parsing", "header"} => took[r].head = Blank /\ took[r].body = Blank
    /\ (rpc[r] \in {"header", "holding", "peeking"} /\ InWindow(r))
          => ~refused[HomeOf(took[r].item)]
    /\ rpc[r] \in {"holding", "peeking"} => took[r].head # Blank
    /\ (rpc[r] \in {"holding", "peeking"} /\ InWindow(r)) => took[r].head = took[r].item
    /\ (rpc[r] \in {"holding", "peeking"} /\ InWindow(r) /\ took[r].body # Blank)
          => took[r].body = took[r].item

\* Another reader's step.
LEMMA ReaderFrame ==
    ASSUME NEW r \in Readers, ReaderInv(r), UNCHANGED writerVars,
           m_uReadIndex'[r] = m_uReadIndex[r], read_index'[r] = read_index[r],
           rpc'[r] = rpc[r], took'[r] = took[r], position'[r] = position[r]
    PROVE  ReaderInv(r)'
BY DEF ReaderInv, ReaderTypeOK, InWindow, NoSeam, HomeOf, SlotOf, writerVars

\* A writer's step: an item that is still in the window afterwards was in it
\* before, and its slot is not the one FinishWrite marks.
LEMMA ReaderUnderWriter ==
    ASSUME WriterInv, NEW r \in Readers, ReaderInv(r), Writer
    PROVE  ReaderInv(r)'
<1> USE Constants
<1>1. UNCHANGED readerVars
  BY DEF Writer, ClearItem, FillItem, SealItem, RejectItem, FinishWrite, Crash, Reattach
<1>2. CASE UNCHANGED <<published, refused>>
  BY <1>1, <1>2 DEF ReaderInv, ReaderTypeOK, InWindow, NoSeam, HomeOf, SlotOf, readerVars
<1>3. CASE FinishWrite
  <2>1. published \in Nat /\ published' = published + 1
    BY <1>3 DEF FinishWrite, WriterInv, WriterTypeOK
  <2>2. NoSeam' => NoSeam
    BY <2>1 DEF NoSeam
  <2>3. ASSUME rpc[r] \in Lending, InWindow(r)'
        PROVE  InWindow(r) /\ refused'[HomeOf(took[r].item)] = refused[HomeOf(took[r].item)]
    <3> DEFINE i == took[r].item
    <3>1. NoSeam /\ i \in Nat /\ i < published /\ published + 1 - i < Count
      BY <2>1, <2>2, <2>3, <1>1 DEF InWindow, readerVars, ReaderInv
    <3>2. i \in Window
      BY <3>1, <2>1 DEF Window
    <3>3. HomeOf(i) # WriteSlot
      BY <3>1, <3>2, <2>1, WindowApart DEF WriterInv
    <3>4. HomeOf(i) \in Slots
      BY <3>1, HomeType
    <3> QED BY <1>3, <2>1, <3>1, <3>3, <3>4 DEF FinishWrite, WriterInv, WriterTypeOK, InWindow
  <2> QED BY <1>1, <2>1, <2>2, <2>3 DEF ReaderInv, ReaderTypeOK, HomeOf, SlotOf, readerVars, Lending
<1> QED BY <1>2, <1>3 DEF Writer, ClearItem, FillItem, SealItem, RejectItem, Crash, Reattach

\* A step of the wrapped index and of the number behind it.
LEMMA StepIndex ==
    ASSUME NEW c \in Nat
    PROVE  /\ ((c % IndexMod) + 1) % IndexMod = (c + 1) % IndexMod
           /\ ((c % IndexMod) + 1) % IndexMod \in Indices
<1>1. ((c % IndexMod) + 1) % IndexMod = (c + 1) % IndexMod
  BY Constants, c \in Int, 1 \in Int, ModPlus
<1>2. (c + 1) % IndexMod \in Indices
  BY Constants, c + 1 \in Int, ModRange DEF Indices
<1> QED BY <1>1, <1>2

\* A polled item of the window lies in the slot the reader looks at.
LEMMA PolledSlot ==
    ASSUME WriterInv, NEW r \in Readers, ReaderInv(r), rpc[r] \in Lending, InWindow(r)
    PROVE  /\ refused[HomeOf(took[r].item)] => slots[SlotOf(read_index[r])].length = Blank
           /\ ~refused[HomeOf(took[r].item)] =>
                 slots[SlotOf(read_index[r])] = Whole(took[r].item)
<1> DEFINE i == took[r].item
<1>1. NoSeam /\ i \in Nat /\ i < published /\ published - i < Count /\ published \in Nat
  BY DEF InWindow, ReaderInv, WriterInv, WriterTypeOK
<1>2. i \in Window
  BY <1>1, Constants DEF Window
<1>3. SlotOf(read_index[r]) = HomeOf(i)
  BY <1>1 DEF ReaderInv
<1> QED BY <1>1, <1>2, <1>3 DEF WriterInv, Kept

\* A lag counted back from the number of published items.
LEMMA LagBound ==
    ASSUME NEW p \in Nat, NEW c \in Nat, NEW lag \in Nat, lag <= p - c
    PROVE  p - lag \in Nat /\ p - lag <= p
OBVIOUS

LEMMA RingStartLagBound ==
    ASSUME item_current \in Nat
    PROVE  RingStartLag \in Nat /\ RingStartLag <= item_current
<1>1. Count \in Nat \ {0}
  BY Constants
<1> QED BY <1>1 DEF RingStartLag

\* Each action of a reader keeps what is known of it.
LEMMA ReaderOwnStep ==
    ASSUME WriterInv, NEW r \in Readers, ReaderInv(r), ReaderStep(r) \/ Seek(r),
           m_uReadIndex \in [Readers -> Indices], read_index \in [Readers -> Indices],
           rpc = [x \in Readers |-> rpc[x]], took = [x \in Readers |-> took[x]],
           position \in [Readers -> Nat]
    PROVE  ReaderInv(r)'
<1> USE Constants
<1>p. published \in Nat /\ item_current = published % IndexMod /\ item_current \in Indices
      /\ -1 \notin Nat
  BY DEF WriterInv, WriterTypeOK
<1>n. Nothing \in [item : Content, head : Content, body : Content]
      /\ Nat \subseteq Content /\ Blank \in Content /\ Blank = -1
  BY DEF Nothing, Content, Items, Blank
<1>w. SlotOf(read_index[r]) \in Slots
  BY SlotOfType DEF Indices
<1>1. CASE BeginRead(r)
  <2>1. rpc[r] = "idle" /\ rpc'[r] = "polling" /\ read_index'[r] = m_uReadIndex[r]
        /\ UNCHANGED <<m_uReadIndex, took, position, writerVars>>
    BY <1>1 DEF BeginRead
  <2> QED BY <2>1 DEF ReaderInv, ReaderTypeOK, InWindow, NoSeam, HomeOf, SlotOf, writerVars, Lending
<1>2. CASE PollFails(r)
  <2>1. rpc[r] = "polling" /\ rpc'[r] = "error"
        /\ UNCHANGED <<m_uReadIndex, read_index, took, position, writerVars>>
    BY <1>2 DEF PollFails
  <2> QED BY <2>1 DEF ReaderInv, ReaderTypeOK, InWindow, NoSeam, HomeOf, SlotOf, writerVars, Lending
<1>3. CASE Poll(r)
  <2> DEFINE gap  == Gap(item_current, m_uReadIndex[r])
             next == CatchUp(m_uReadIndex[r], gap)
             left == Gap(item_current, next)
  <2>1. /\ rpc[r] = "polling" /\ gap >= 0
        /\ m_uReadIndex'[r] = next /\ position'[r] = published - left
        /\ \/ left = 0 /\ rpc'[r] \in {"polling", "idle"} /\ took'[r] = took[r]
           \/ left # 0 /\ rpc'[r] = "parsing" /\ took'[r] = [took[r] EXCEPT !.item = published - left]
        /\ UNCHANGED <<read_index, writerVars>>
    BY <1>3 DEF Poll
  <2>2. position[r] \in Nat /\ position[r] <= published
        /\ m_uReadIndex[r] = position[r] % IndexMod /\ took[r] = Nothing
    BY <2>1 DEF ReaderInv, ReaderTypeOK, Lending
  <2>3. /\ left \in Nat /\ left <= published - position[r]
        /\ next = (published - left) % IndexMod
        /\ next \in Indices
        /\ NoSeam => SlotOf(next) = SlotOf(m_uReadIndex[r])
    BY <2>1, <2>2, <1>p, PollArithmetic DEF NoSeam
  <2>4. NoSeam => SlotOf(next) = SlotOf(read_index[r])
    BY <2>1, <2>3 DEF ReaderInv
  <2> HIDE DEF next, left, gap
  <2>5. position'[r] \in Nat /\ position'[r] <= published /\ published - left \in Nat
    <3>1. published - left \in Nat /\ published - left <= published
      BY <2>2, <2>3, <1>p, LagBound
    <3> QED BY <2>1, <3>1
  <2>6. CASE left = 0
    BY <2>1, <2>2, <2>3, <2>4, <2>5, <2>6, <1>n, <1>p
       DEF ReaderInv, ReaderTypeOK, InWindow, NoSeam, HomeOf, SlotOf, writerVars, Lending
  <2>7. CASE left # 0
    <3>1. took'[r] = [item |-> published - left, head |-> Blank, body |-> Blank]
      BY <2>1, <2>2, <2>7 DEF Nothing
    <3>2. took'[r] \in [item : Content, head : Content, body : Content]
      BY <3>1, <2>5, <1>n
    <3>3. rpc'[r] = "parsing" /\ published - left < published
      BY <2>1, <2>7, <2>3, <1>p
    <3>4. NoSeam => SlotOf(read_index'[r]) = HomeOf(took'[r].item)
      BY <2>1, <2>3, <2>4, <3>1 DEF writerVars, HomeOf
    <3> QED BY <2>1, <2>3, <2>5, <3>1, <3>2, <3>3, <3>4, <1>p
               DEF ReaderInv, ReaderTypeOK, InWindow, NoSeam, HomeOf, SlotOf, writerVars, Lending
  <2> QED BY <2>6, <2>7
<1>4. CASE ReadLength(r)
  <2> DEFINE k == SlotOf(read_index[r])
  <2>1. /\ rpc[r] = "parsing"
        /\ \/ slots[k].length = Blank /\ rpc'[r] = "idle" /\ took'[r] = Nothing
           \/ slots[k].length # Blank /\ rpc'[r] = "header" /\ took'[r] = took[r]
        /\ UNCHANGED <<m_uReadIndex, read_index, position, writerVars>>
    BY <1>4 DEF ReadLength
  <2>2. CASE rpc'[r] = "idle"
    BY <2>1, <2>2, <1>n DEF ReaderInv, ReaderTypeOK, InWindow, NoSeam, HomeOf, SlotOf, writerVars, Lending
  <2>3. CASE rpc'[r] = "header"
    <3>1. InWindow(r) => ~refused[HomeOf(took[r].item)]
      BY <2>1, <2>3, PolledSlot DEF Lending
    <3> QED BY <2>1, <2>3, <3>1 DEF ReaderInv, ReaderTypeOK, InWindow, NoSeam, HomeOf, SlotOf, writerVars, Lending
  <2> QED BY <2>1, <2>2, <2>3
<1>5. CASE ParseHead(r)
  <2> DEFINE k == SlotOf(read_index[r])
             head == slots[k].head
  <2>1. /\ rpc[r] = "header"
        /\ \/ /\ head = Blank /\ rpc'[r] = "idle" /\ took'[r] = Nothing
              /\ m_uReadIndex'[r] = m_uReadIndex[r] /\ position'[r] = position[r]
           \/ /\ head # Blank /\ rpc'[r] = "holding" /\ took'[r] = [took[r] EXCEPT !.head = head]
              /\ m_uReadIndex'[r] = (m_uReadIndex[r] + 1) % IndexMod /\ position'[r] = position[r] + 1
           \/ /\ head # Blank /\ rpc'[r] = "peeking" /\ took'[r] = [took[r] EXCEPT !.head = head]
              /\ m_uReadIndex'[r] = m_uReadIndex[r] /\ position'[r] = position[r]
        /\ UNCHANGED <<read_index, writerVars>>
    BY <1>5 DEF ParseHead
  <2>2. head \in Content
    BY <1>w DEF WriterInv, WriterTypeOK
  <2>3. ASSUME InWindow(r)
        PROVE  head = took[r].item /\ ~refused[HomeOf(took[r].item)]
    <3>1. ~refused[HomeOf(took[r].item)]
      BY <2>1, <2>3 DEF ReaderInv
    <3>2. slots[k] = Whole(took[r].item)
      BY <2>1, <2>3, <3>1, PolledSlot DEF Lending
    <3> QED BY <3>1, <3>2 DEF Whole
  <2>4. position[r] = took[r].item /\ took[r].item < published /\ position[r] \in Nat
    BY <2>1 DEF ReaderInv, Lending, ReaderTypeOK
  <2>5. m_uReadIndex[r] = position[r] % IndexMod
    BY DEF ReaderInv
  <2>6. (m_uReadIndex[r] + 1) % IndexMod = (position[r] + 1) % IndexMod
        /\ (m_uReadIndex[r] + 1) % IndexMod \in Indices
    BY <2>4, <2>5, StepIndex
  <2> HIDE DEF head, k
  <2>7. CASE rpc'[r] = "idle"
    BY <2>1, <2>7, <1>n DEF ReaderInv, ReaderTypeOK, InWindow, NoSeam, HomeOf, SlotOf, writerVars, Lending
  <2>8. CASE rpc'[r] # "idle"
    <3>1. /\ took'[r].item = took[r].item /\ took'[r].head = head /\ took'[r].body = Blank
          /\ took'[r] \in [item : Content, head : Content, body : Content] /\ head # Blank
      BY <2>1, <2>2, <2>8 DEF ReaderInv, ReaderTypeOK
    <3>2. /\ m_uReadIndex'[r] \in Indices /\ m_uReadIndex'[r] = position'[r] % IndexMod
          /\ position'[r] \in Nat /\ position'[r] <= published
          /\ rpc'[r] \in {"holding", "peeking"}
          /\ rpc'[r] # "holding" => position'[r] = took[r].item
      BY <2>1, <2>4, <2>5, <2>6, <2>8, <1>p DEF ReaderInv, ReaderTypeOK
    <3> QED BY <2>1, <2>3, <3>1, <3>2
               DEF ReaderInv, ReaderTypeOK, InWindow, NoSeam, HomeOf, SlotOf, writerVars, Lending
  <2> QED BY <2>7, <2>8
<1>6. CASE UsePayload(r)
  <2> DEFINE k == SlotOf(read_index[r])
             body == slots[k].body
  <2>1. /\ rpc[r] \in {"holding", "peeking"} /\ took'[r] = [took[r] EXCEPT !.body = body]
        /\ UNCHANGED <<m_uReadIndex, read_index, rpc, position, writerVars>>
    BY <1>6 DEF UsePayload
  <2>2. body \in Content
    BY <1>w DEF WriterInv, WriterTypeOK
  <2>3. ASSUME InWindow(r)
        PROVE  body = took[r].item
    <3>1. ~refused[HomeOf(took[r].item)]
      BY <2>1, <2>3 DEF ReaderInv
    <3>2. slots[k] = Whole(took[r].item)
      BY <2>1, <2>3, <3>1, PolledSlot DEF Lending
    <3> QED BY <3>2 DEF Whole
  <2> HIDE DEF body, k
  <2>4. /\ took'[r].item = took[r].item /\ took'[r].head = took[r].head /\ took'[r].body = body
        /\ took'[r] \in [item : Content, head : Content, body : Content]
    BY <2>1, <2>2 DEF ReaderInv, ReaderTypeOK
  <2> QED BY <2>1, <2>3, <2>4
             DEF ReaderInv, ReaderTypeOK, InWindow, NoSeam, HomeOf, SlotOf, writerVars, Lending
<1>7. CASE Release(r)
  <2>1. /\ rpc[r] \in {"holding", "peeking"} /\ rpc'[r] = "idle" /\ took'[r] = Nothing
        /\ \/ /\ rpc[r] = "peeking"
              /\ m_uReadIndex'[r] = (m_uReadIndex[r] + 1) % IndexMod /\ position'[r] = position[r] + 1
           \/ m_uReadIndex'[r] = m_uReadIndex[r] /\ position'[r] = position[r]
        /\ UNCHANGED <<read_index, writerVars>>
    BY <1>7 DEF Release
  <2>2. /\ position[r] \in Nat /\ m_uReadIndex[r] = position[r] % IndexMod
        /\ took[r].item \in Nat /\ took[r].item < published
        /\ rpc[r] = "peeking" => position[r] = took[r].item
    BY <2>1 DEF ReaderInv, Lending, ReaderTypeOK
  <2>3. (m_uReadIndex[r] + 1) % IndexMod = (position[r] + 1) % IndexMod
        /\ (m_uReadIndex[r] + 1) % IndexMod \in Indices
    BY <2>2, StepIndex
  <2>4. /\ m_uReadIndex'[r] \in Indices /\ m_uReadIndex'[r] = position'[r] % IndexMod
        /\ position'[r] \in Nat /\ position'[r] <= published
    BY <2>1, <2>2, <2>3, <1>p DEF ReaderInv, ReaderTypeOK
  <2> QED BY <2>1, <2>4, <1>n
             DEF ReaderInv, ReaderTypeOK, InWindow, NoSeam, HomeOf, SlotOf, writerVars, Lending
<1>8. CASE Reopen(r) \/ SeekReadIndexToWriteIndex(r)
  <2>1. /\ rpc[r] \in {"error", "idle"} /\ rpc'[r] = "idle" /\ took'[r] = took[r]
        /\ m_uReadIndex'[r] = item_current /\ position'[r] = published
        /\ UNCHANGED <<read_index, writerVars>>
    BY <1>8 DEF Reopen, SeekReadIndexToWriteIndex
  <2> QED BY <2>1, <1>p
             DEF ReaderInv, ReaderTypeOK, InWindow, NoSeam, HomeOf, SlotOf, writerVars, Lending
<1>9. CASE SeekReadIndexToRingStart(r)
  <2> DEFINE back == RingStartLag
  <2>1. /\ rpc[r] = "idle" /\ rpc'[r] = "idle" /\ took'[r] = took[r]
        /\ m_uReadIndex'[r] = item_current - back /\ position'[r] = published - back
        /\ UNCHANGED <<read_index, writerVars>>
    BY <1>9 DEF SeekReadIndexToRingStart
  <2>2. back \in Nat /\ back <= item_current
    BY <1>p, RingStartLagBound DEF Indices
  <2> HIDE DEF back
  <2>3. item_current <= published
    <3>1. published = IndexMod * (published \div IndexMod) + item_current
          /\ IndexMod * (published \div IndexMod) \in Nat
      BY <1>p, DivMod
    <3> DEFINE y == IndexMod * (published \div IndexMod)
    <3> HIDE DEF y
    <3>2. published = y + item_current /\ y \in Nat /\ item_current \in Int
      BY <3>1, <1>p DEF y, Indices
    <3> QED BY <3>2, <1>p
  <2>4. (published - back) % IndexMod = item_current - back
    <3>1. item_current - back \in 0 .. IndexMod - 1
      BY <2>2, <1>p DEF Indices
    <3>2. ((published % IndexMod) + (-back)) % IndexMod = (published + (-back)) % IndexMod
      BY <1>p, <2>2, -back \in Int, published \in Int, ModPlus
    <3>3. (item_current - back) % IndexMod = item_current - back
      BY <3>1, ModSmall
    <3>4. published + (-back) = published - back /\ item_current + (-back) = item_current - back
      BY <1>p, <2>2 DEF Indices
    <3> QED BY <3>2, <3>3, <3>4, <1>p
  <2>5. /\ m_uReadIndex'[r] \in Indices /\ m_uReadIndex'[r] = position'[r] % IndexMod
        /\ position'[r] \in Nat /\ position'[r] <= published
    BY <2>1, <2>2, <2>3, <2>4, <1>p DEF Indices
  <2> QED BY <2>1, <2>5
             DEF ReaderInv, ReaderTypeOK, InWindow, NoSeam, HomeOf, SlotOf, writerVars, Lending
<1> QED BY <1>1, <1>2, <1>3, <1>4, <1>5, <1>6, <1>7, <1>8, <1>9 DEF ReaderStep, Seek


(***************************************************************************)
(* Both sides together.                                                    *)
(***************************************************************************)

RingInv ==
    /\ TypeOK
    /\ WriterInv
    /\ \A r \in Readers : ReaderInv(r)

LEMMA RingInit == Init => RingInv
<1> SUFFICES ASSUME Init PROVE RingInv
  OBVIOUS
<1>1. WriterInv
  BY WriterInit
<1>2. 0 \in Indices /\ 0 % IndexMod = 0 /\ 0 \in Nat
  BY Constants, ModSmall, 0 \in 0 .. IndexMod - 1 DEF Indices
<1>3. Nothing \in [item : Content, head : Content, body : Content]
  BY DEF Nothing, Content, Blank
<1>4. ASSUME NEW r \in Readers PROVE ReaderInv(r)
  BY <1>2, <1>3 DEF Init, ReaderInv, ReaderTypeOK, Lending
<1>5. TypeOK
  BY <1>1, <1>2, <1>3 DEF Init, TypeOK, WriterInv, WriterTypeOK
<1> QED BY <1>1, <1>4, <1>5 DEF RingInv

\* A reader's action changes nothing but that reader.
LEMMA OneReader ==
    ASSUME TypeOK, NEW r \in Readers, ReaderStep(r) \/ Seek(r)
    PROVE  /\ UNCHANGED writerVars
           /\ m_uReadIndex' = [m_uReadIndex EXCEPT ![r] = m_uReadIndex'[r]]
           /\ read_index' = [read_index EXCEPT ![r] = read_index'[r]]
           /\ rpc' = [rpc EXCEPT ![r] = rpc'[r]]
           /\ took' = [took EXCEPT ![r] = took'[r]]
           /\ position' = [position EXCEPT ![r] = position'[r]]
<1> USE DEF TypeOK, writerVars
<1>1. CASE BeginRead(r)
  BY <1>1 DEF BeginRead
<1>2. CASE PollFails(r)
  BY <1>2 DEF PollFails
<1>3. CASE Poll(r)
  BY <1>3 DEF Poll
<1>4. CASE ReadLength(r)
  BY <1>4 DEF ReadLength
<1>5. CASE ParseHead(r)
  BY <1>5 DEF ParseHead
<1>6. CASE UsePayload(r)
  BY <1>6 DEF UsePayload
<1>7. CASE Release(r)
  BY <1>7 DEF Release
<1>8. CASE Reopen(r)
  BY <1>8 DEF Reopen
<1>9. CASE Seek(r)
  BY <1>9 DEF Seek, SeekReadIndexToWriteIndex, SeekReadIndexToRingStart
<1> QED BY <1>1, <1>2, <1>3, <1>4, <1>5, <1>6, <1>7, <1>8, <1>9 DEF ReaderStep

LEMMA RingNext == RingInv /\ [Next]_vars => RingInv'
<1> SUFFICES ASSUME RingInv, [Next]_vars PROVE RingInv'
  OBVIOUS
<1>1. WriterInv'
  BY WriterNext DEF RingInv
<1>2. CASE Writer
  <2>1. UNCHANGED readerVars
    BY <1>2 DEF Writer, ClearItem, FillItem, SealItem, RejectItem, FinishWrite, Crash, Reattach
  <2>2. ASSUME NEW r \in Readers PROVE ReaderInv(r)'
    BY <1>2, ReaderUnderWriter DEF RingInv
  <2>3. TypeOK'
    BY <1>1, <2>1 DEF RingInv, TypeOK, WriterInv, WriterTypeOK, readerVars
  <2> QED BY <1>1, <2>2, <2>3 DEF RingInv
<1>3. ASSUME NEW r \in Readers, ReaderStep(r) \/ Seek(r)
      PROVE  RingInv'
  <2>1. ReaderInv(r)'
    BY <1>3, ReaderOwnStep DEF RingInv, TypeOK
  <2>2. /\ UNCHANGED writerVars
        /\ m_uReadIndex' = [m_uReadIndex EXCEPT ![r] = m_uReadIndex'[r]]
        /\ read_index' = [read_index EXCEPT ![r] = read_index'[r]]
        /\ rpc' = [rpc EXCEPT ![r] = rpc'[r]]
        /\ took' = [took EXCEPT ![r] = took'[r]]
        /\ position' = [position EXCEPT ![r] = position'[r]]
    BY <1>3, OneReader DEF RingInv
  <2>3. ASSUME NEW x \in Readers, x # r
        PROVE  /\ m_uReadIndex'[x] = m_uReadIndex[x] /\ read_index'[x] = read_index[x]
               /\ rpc'[x] = rpc[x] /\ took'[x] = took[x] /\ position'[x] = position[x]
    BY <2>2, <2>3 DEF RingInv, TypeOK
  <2>4. ASSUME NEW x \in Readers PROVE ReaderInv(x)'
    BY <2>1, <2>2, <2>3, ReaderFrame DEF RingInv
  <2>5. TypeOK'
    BY <1>1, <2>1, <2>2 DEF RingInv, TypeOK, ReaderInv, ReaderTypeOK, WriterInv, WriterTypeOK
  <2> QED BY <1>1, <2>4, <2>5 DEF RingInv
<1>4. CASE UNCHANGED vars
  <2>1. UNCHANGED writerVars /\ UNCHANGED readerVars
    BY <1>4 DEF vars
  <2>2. ASSUME NEW r \in Readers PROVE ReaderInv(r)'
    BY <2>1, ReaderFrame DEF RingInv, readerVars
  <2>3. TypeOK'
    BY <2>1 DEF RingInv, TypeOK, writerVars, readerVars
  <2> QED BY <1>1, <2>2, <2>3 DEF RingInv
<1> QED BY <1>2, <1>3, <1>4 DEF Next

THEOREM RingInvariant == Spec => []RingInv
<1>1. Init => RingInv
  BY RingInit
<1>2. RingInv /\ [Next]_vars => RingInv'
  BY RingNext
<1> QED BY <1>1, <1>2, PTL DEF Spec

-----------------------------------------------------------------------------
(***************************************************************************)
(* What follows from the invariant.                                        *)
(***************************************************************************)

\* Indices stay 32-bit numbers and every variable keeps its shape, whatever
\* the number of slots, for readers that run, fail, seek and reopen at will.
THEOREM TypeCorrect == Spec => []TypeOK
<1>1. RingInv => TypeOK
  BY DEF RingInv
<1> QED BY <1>1, RingInvariant, PTL

\* What a caller has read is the item it polled, as long as the writer stays
\* fewer than Count items ahead of that item.
THEOREM WholeItems == Spec => []WholeUnlessOverrun
<1>1. RingInv => WholeUnlessOverrun
  <2> SUFFICES ASSUME RingInv, NEW r \in Readers, NoSeam, took[r].body # Blank,
                      published - took[r].item < Count
               PROVE  took[r].head = took[r].item /\ took[r].body = took[r].item
    BY DEF WholeUnlessOverrun
  <2>1. ReaderInv(r) /\ InWindow(r)
    BY DEF RingInv, InWindow
  <2>2. rpc[r] \in {"holding", "peeking"}
    BY <2>1 DEF ReaderInv, Lending, Nothing
  <2> QED BY <2>1, <2>2 DEF ReaderInv
<1> QED BY <1>1, RingInvariant, PTL

\* A poll fails only for a reader left behind by half the range of an index.
THEOREM ErrorsAreReal == Spec => NoSpuriousError
<1> DEFINE A == \A r \in Readers :
                   (rpc[r] = "polling" /\ rpc'[r] = "error")
                       => published - position[r] >= IndexMod \div 2
<1>1. RingInv /\ [Next]_vars => [A]_vars
  <2> SUFFICES ASSUME RingInv, Next, NEW r \in Readers, rpc[r] = "polling", rpc'[r] = "error"
               PROVE  published - position[r] >= IndexMod \div 2
    OBVIOUS
  <2>1. PollFails(r)
    <3>1. ~ Writer
      BY DEF Writer, ClearItem, FillItem, SealItem, RejectItem, FinishWrite, Crash, Reattach,
             readerVars
    <3>2. PICK x \in Readers : ReaderStep(x) \/ Seek(x)
      BY <3>1 DEF Next
    <3>3. x = r
      BY <3>2, OneReader DEF RingInv, TypeOK
    <3>4. rpc = [r1 \in Readers |-> rpc[r1]]
      BY DEF RingInv, TypeOK
    <3> QED BY <3>2, <3>3, <3>4 DEF ReaderStep, Seek, BeginRead, Poll, ReadLength, ParseHead,
               UsePayload, Release, Reopen, SeekReadIndexToWriteIndex, SeekReadIndexToRingStart
  <2>2. /\ Gap(item_current, m_uReadIndex[r]) < 0
        /\ item_current = published % IndexMod /\ published \in Nat
        /\ m_uReadIndex[r] = position[r] % IndexMod /\ position[r] \in Nat
        /\ position[r] <= published
    BY <2>1 DEF PollFails, RingInv, WriterInv, WriterTypeOK, ReaderInv, ReaderTypeOK
  <2> QED BY <2>2, FailIsLag
<1>2. [][A]_vars => NoSpuriousError
  BY DEF NoSpuriousError
<1>3. Spec => [][A]_vars
  BY <1>1, RingInvariant, PTL DEF Spec
<1> QED BY <1>2, <1>3

\* A poll that finds an item sends the reader at most Count - 1 items back,
\* hence to another slot than the one the writer fills next.
THEOREM PollIsSafe == Spec => PollAvoidsWriterSlot
<1> DEFINE A == \A r \in Readers :
                   (NoSeam /\ rpc[r] = "polling" /\ rpc'[r] = "parsing" /\ Count >= 3)
                       => SlotOf(read_index[r]) # WriteSlot
<1>1. RingInv /\ [Next]_vars => [A]_vars
  <2> SUFFICES ASSUME RingInv, Next, NEW r \in Readers, NoSeam, Count >= 3,
                      rpc[r] = "polling", rpc'[r] = "parsing"
               PROVE  SlotOf(read_index[r]) # WriteSlot
    OBVIOUS
  <2>1. Poll(r)
    <3>1. ~ Writer
      BY DEF Writer, ClearItem, FillItem, SealItem, RejectItem, FinishWrite, Crash, Reattach,
             readerVars
    <3>2. PICK x \in Readers : ReaderStep(x) \/ Seek(x)
      BY <3>1 DEF Next
    <3>3. x = r
      BY <3>2, OneReader DEF RingInv, TypeOK
    <3>4. rpc = [r1 \in Readers |-> rpc[r1]]
      BY DEF RingInv, TypeOK
    <3> QED BY <3>2, <3>3, <3>4 DEF ReaderStep, Seek, BeginRead, PollFails, ReadLength, ParseHead,
               UsePayload, Release, Reopen, SeekReadIndexToWriteIndex, SeekReadIndexToRingStart
  <2> DEFINE next == CatchUp(m_uReadIndex[r], Gap(item_current, m_uReadIndex[r]))
             left == Gap(item_current, next)
  <2>2. Gap(item_current, m_uReadIndex[r]) >= 0 /\ left # 0
    BY <2>1 DEF Poll, RingInv, TypeOK
  <2>3. /\ published \in Nat /\ item_current = published % IndexMod
        /\ position[r] \in Nat /\ position[r] <= published
        /\ m_uReadIndex[r] = position[r] % IndexMod
        /\ SlotOf(read_index[r]) = SlotOf(m_uReadIndex[r])
    BY DEF RingInv, WriterInv, WriterTypeOK, ReaderInv, ReaderTypeOK
  <2>4. /\ left \in Nat /\ left < MaxGap /\ left <= published - position[r]
        /\ next = (published - left) % IndexMod
        /\ SlotOf(next) = SlotOf(m_uReadIndex[r])
    BY <2>2, <2>3, PollArithmetic DEF NoSeam
  <2> HIDE DEF left, next
  <2>5. MaxGap = Count
    <3>1. ~(Count < 3)
      BY Constants
    <3> QED BY <3>1 DEF MaxGap
  <2>6. published - left \in Window
    BY <2>2, <2>3, <2>4, <2>5, Constants DEF Window
  <2>7. HomeOf(published - left) # WriteSlot
    BY <2>3, <2>6, WindowApart
  <2> QED BY <2>3, <2>4, <2>7 DEF HomeOf
<1>2. [][A]_vars => PollAvoidsWriterSlot
  BY DEF PollAvoidsWriterSlot
<1>3. Spec => [][A]_vars
  BY <1>1, RingInvariant, PTL DEF Spec
<1> QED BY <1>2, <1>3

-----------------------------------------------------------------------------
(***************************************************************************)
(* FixedRing implements LossyFeed: the refinement mapping of MCFixedRing   *)
(* takes every step of the ring to a step of the feed or to a stutter, as  *)
(* long as no index has crossed a seam.                                    *)
(***************************************************************************)

-----------------------------------------------------------------------------
(***************************************************************************)
(* What the mapping needs beside RingInv.                                  *)
(***************************************************************************)

\* No slot holds the payload of an item the writer has not begun.
BodyInv == \A k \in Slots : slots[k].body <= published

\* A reader that stepped its index when it got the item is one past it.
LoanInv == \A r \in Readers : rpc[r] = "holding" => position[r] = took[r].item + 1

FeedInv == RingInv /\ BodyInv /\ LoanInv

LEMMA FeedInit == Init => FeedInv
<1> SUFFICES ASSUME Init PROVE FeedInv
  OBVIOUS
<1>1. BodyInv /\ LoanInv
  BY DEF Init, BodyInv, LoanInv, BlankSlot, Blank
<1> QED BY <1>1, RingInit DEF FeedInv

LEMMA BodyNext == RingInv /\ BodyInv /\ [Next]_vars => BodyInv'
<1> SUFFICES ASSUME RingInv, BodyInv, [Next]_vars, NEW k \in Slots
             PROVE  slots'[k].body <= published'
  BY DEF BodyInv
<1>1. /\ published \in Nat /\ slots[k].body <= published /\ slots[k].body \in Int
      /\ slots \in [Slots -> [length : Content, head : Content, body : Content]]
  BY DEF RingInv, WriterInv, WriterTypeOK, BodyInv, Content, Items, Blank
<1>2. CASE ClearItem
  BY <1>1, <1>2 DEF ClearItem
<1>3. CASE FillItem
  BY <1>1, <1>3 DEF FillItem
<1>4. CASE SealItem
  BY <1>1, <1>4 DEF SealItem
<1>5. CASE FinishWrite
  BY <1>1, <1>5 DEF FinishWrite
<1>6. CASE UNCHANGED <<slots, published>>
  BY <1>1, <1>6
<1>7. ASSUME NEW r \in Readers, ReaderStep(r) \/ Seek(r) PROVE UNCHANGED <<slots, published>>
  BY <1>7, OneReader DEF RingInv, writerVars
<1> QED
  BY <1>2, <1>3, <1>4, <1>5, <1>6, <1>7
     DEF Next, Writer, RejectItem, Crash, Reattach, vars, writerVars

LEMMA LoanNext == RingInv /\ LoanInv /\ [Next]_vars => LoanInv'
<1> SUFFICES ASSUME RingInv, LoanInv, [Next]_vars, NEW r \in Readers, rpc'[r] = "holding"
             PROVE  position'[r] = took'[r].item + 1
  BY DEF LoanInv
<1>1. CASE UNCHANGED <<rpc, position, took>>
  BY <1>1 DEF LoanInv
<1>2. ASSUME NEW x \in Readers, ReaderStep(x) \/ Seek(x)
      PROVE  position'[r] = took'[r].item + 1
  <2>1. CASE x # r
    <3>1. rpc'[r] = rpc[r] /\ position'[r] = position[r] /\ took'[r] = took[r]
      BY <1>2, <2>1, OneReader DEF RingInv, TypeOK
    <3> QED BY <3>1 DEF LoanInv
  <2>2. CASE x = r
    <3>1. CASE ParseHead(r)
      <4>1. /\ rpc[r] = "header" /\ position'[r] = position[r] + 1
            /\ took'[r].item = took[r].item
        BY <3>1 DEF ParseHead, RingInv, TypeOK
      <4>2. position[r] = took[r].item
        BY <4>1 DEF RingInv, ReaderInv, Lending
      <4> QED BY <4>1, <4>2
    <3>2. CASE UsePayload(r)
      <4>1. rpc[r] = "holding" /\ position'[r] = position[r] /\ took'[r].item = took[r].item
        BY <3>2 DEF UsePayload, RingInv, TypeOK
      <4> QED BY <4>1 DEF LoanInv
    <3>3. CASE BeginRead(r) \/ PollFails(r) \/ Poll(r) \/ ReadLength(r) \/ Release(r) \/ Reopen(r)
               \/ Seek(r)
      BY <3>3 DEF BeginRead, PollFails, Poll, ReadLength, Release, Reopen, Seek,
                  SeekReadIndexToWriteIndex, SeekReadIndexToRingStart, RingInv, TypeOK
    <3> QED BY <1>2, <2>2, <3>1, <3>2, <3>3 DEF ReaderStep
  <2> QED BY <2>1, <2>2
<1> QED
  BY <1>1, <1>2 DEF Next, vars, readerVars, Writer, ClearItem, FillItem, SealItem, RejectItem,
                    FinishWrite, Crash, Reattach

LEMMA FeedNext == FeedInv /\ [Next]_vars => FeedInv'
BY RingNext, BodyNext, LoanNext DEF FeedInv

-----------------------------------------------------------------------------
(***************************************************************************)
(* The mapping, step by step.                                              *)
(***************************************************************************)

\* The feed's variables, as MCFixedRing maps them.
Calling == [r \in Readers |-> rpc[r] # "idle"]
Lent == [r \in Readers |-> IF took[r].head = Blank THEN Blank ELSE took[r].item]
Used == [r \in Readers |-> took[r].body]

\* A reader's step moves one reader of the feed and publishes nothing.
LEMMA MappedReader ==
    ASSUME RingInv, NEW r \in Readers, ReaderStep(r) \/ Seek(r)
    PROVE  /\ published' = published
           /\ position' = [position EXCEPT ![r] = position'[r]]
           /\ Calling' = [Calling EXCEPT ![r] = rpc'[r] # "idle"]
           /\ Lent' = [Lent EXCEPT ![r] =
                          IF took'[r].head = Blank THEN Blank ELSE took'[r].item]
           /\ Used' = [Used EXCEPT ![r] = took'[r].body]
<1>1. /\ UNCHANGED writerVars
      /\ rpc' = [rpc EXCEPT ![r] = rpc'[r]] /\ took' = [took EXCEPT ![r] = took'[r]]
      /\ position' = [position EXCEPT ![r] = position'[r]]
  BY OneReader DEF RingInv
<1>2. \A x \in Readers \ {r} : rpc'[x] = rpc[x] /\ took'[x] = took[x]
  BY <1>1 DEF RingInv, TypeOK
<1>3. Calling' = [Calling EXCEPT ![r] = rpc'[r] # "idle"]
  BY <1>2, Zenon DEF Calling
<1>4. /\ Lent' = [Lent EXCEPT ![r] = IF took'[r].head = Blank THEN Blank ELSE took'[r].item]
      /\ Used' = [Used EXCEPT ![r] = took'[r].body]
  BY <1>2 DEF Lent, Used
<1> QED BY <1>1, <1>3, <1>4 DEF writerVars

\* What a step that lends nothing and returns nothing needs to be a Skip.
LEMMA Skips ==
    ASSUME RingInv, NEW r \in Readers, ReaderStep(r) \/ Seek(r),
           rpc[r] # "idle", took[r].head = Blank, took'[r].head = Blank,
           took'[r].body = took[r].body,
           position'[r] \in position[r] .. published
    PROVE  Feed!Skip(r)
<1> DEFINE b == rpc'[r] # "idle"
           c == position'[r]
<1>1. Calling[r] /\ Lent[r] = Blank
  BY DEF Calling, Lent
<1>2. Lent' = Lent /\ Used' = Used
  <2>1. Lent' = [Lent EXCEPT ![r] = Blank] /\ Used' = [Used EXCEPT ![r] = took[r].body]
    BY MappedReader
  <2> QED BY <2>1, <1>1 DEF Lent, Used
<1>3. b \in BOOLEAN /\ Calling' = [Calling EXCEPT ![r] = b]
  BY MappedReader
<1>4. c \in position[r] .. published /\ position' = [position EXCEPT ![r] = c]
  BY MappedReader
<1>5. published' = published
  BY MappedReader
<1> HIDE DEF b, c
<1> QED BY <1>1, <1>2, <1>3, <1>4, <1>5 DEF Feed!Skip, Feed!None, Blank, Calling, Lent, Used

\* A step the feed does not see.
LEMMA Stutters ==
    ASSUME RingInv, NEW r \in Readers, ReaderStep(r) \/ Seek(r),
           (rpc'[r] # "idle") = (rpc[r] # "idle"), position'[r] = position[r],
           took'[r].head = took[r].head, took'[r].body = took[r].body,
           took[r].head # Blank => took'[r].item = took[r].item
    PROVE  UNCHANGED Feed!vars
<1>1. Calling' = Calling
  BY MappedReader DEF Calling
<1>2. Lent' = Lent /\ Used' = Used
  BY MappedReader DEF Lent, Used
<1>3. position' = position /\ published' = published
  BY MappedReader DEF RingInv, TypeOK
<1> QED BY <1>1, <1>2, <1>3 DEF Feed!vars, Calling, Lent, Used

\* Polling: the catch-up skips items, and a round that finds none ends the call
\* or not.
LEMMA PollMaps ==
    ASSUME FeedInv, NEW r \in Readers, Poll(r)
    PROVE  Feed!Skip(r)
<1> DEFINE gap  == Gap(item_current, m_uReadIndex[r])
           next == CatchUp(m_uReadIndex[r], gap)
           left == Gap(item_current, next)
<1>1. /\ rpc[r] = "polling" /\ gap >= 0 /\ position'[r] = published - left
      /\ took'[r] = took[r] \/ took'[r] = [took[r] EXCEPT !.item = published - left]
  BY DEF Poll, FeedInv, RingInv, TypeOK
<1>2. /\ position[r] \in Nat /\ position[r] <= published /\ published \in Nat
      /\ item_current = published % IndexMod /\ m_uReadIndex[r] = position[r] % IndexMod
      /\ took[r] = Nothing
  BY <1>1 DEF FeedInv, RingInv, WriterInv, WriterTypeOK, ReaderInv, ReaderTypeOK, Lending
<1>3. left \in Nat /\ left <= published - position[r]
  BY <1>1, <1>2, PollArithmetic
<1> HIDE DEF left
<1>4. position'[r] \in position[r] .. published
  BY <1>1, <1>2, <1>3
<1>5. took[r].head = Blank /\ took'[r].head = Blank /\ took'[r].body = took[r].body
  BY <1>1, <1>2 DEF Nothing
<1> QED BY <1>1, <1>4, <1>5, Skips DEF FeedInv, ReaderStep

\* The length test either goes on with the call or ends it with nothing.
LEMMA LengthMaps ==
    ASSUME FeedInv, NEW r \in Readers, ReadLength(r)
    PROVE  Feed!Skip(r)
<1>1. /\ rpc[r] = "parsing" /\ position'[r] = position[r]
      /\ took'[r] = took[r] \/ took'[r] = Nothing
  BY DEF ReadLength, FeedInv, RingInv, TypeOK
<1>2. /\ took[r].head = Blank /\ took[r].body = Blank
      /\ position[r] \in Nat /\ published \in Nat /\ position[r] <= published
  BY <1>1 DEF FeedInv, RingInv, WriterInv, WriterTypeOK, ReaderInv, ReaderTypeOK
<1>3. position'[r] \in position[r] .. published
  BY <1>1, <1>2
<1> QED BY <1>1, <1>2, <1>3, Skips DEF FeedInv, ReaderStep, Nothing

\* Parsing the head lends the item at the cursor, or ends the call.
LEMMA ParseMaps ==
    ASSUME FeedInv, NEW r \in Readers, ParseHead(r)
    PROVE  Feed!Skip(r) \/ Feed!Lend(r)
<1>1. /\ rpc[r] = "header"
      /\ \/ /\ rpc'[r] = "idle" /\ took'[r] = Nothing /\ position'[r] = position[r]
         \/ /\ rpc'[r] # "idle" /\ took'[r].head # Blank
            /\ took'[r].item = took[r].item /\ took'[r].body = took[r].body
            /\ position'[r] = position[r] \/ position'[r] = position[r] + 1
  BY DEF ParseHead, FeedInv, RingInv, TypeOK
<1>2. /\ took[r].head = Blank /\ took[r].body = Blank /\ took[r].item = position[r]
      /\ position[r] \in Nat /\ published \in Nat /\ position[r] < published
  BY <1>1 DEF FeedInv, RingInv, WriterInv, WriterTypeOK, ReaderInv, ReaderTypeOK, Lending
<1>3. CASE rpc'[r] = "idle"
  <2>1. position'[r] \in position[r] .. published
    BY <1>1, <1>2, <1>3
  <2> QED BY <1>1, <1>2, <1>3, <2>1, Skips DEF FeedInv, ReaderStep, Nothing
<1>4. CASE rpc'[r] # "idle"
  <2>1. Calling[r] /\ Lent[r] = Blank
    BY <1>1, <1>2 DEF Calling, Lent
  <2>2. Lent' = [Lent EXCEPT ![r] = position[r]]
    BY <1>1, <1>2, <1>4, MappedReader DEF FeedInv, ReaderStep
  <2>3. Calling' = Calling
    <3>1. Calling' = [Calling EXCEPT ![r] = rpc'[r] # "idle"]
      BY MappedReader DEF FeedInv, ReaderStep
    <3> QED BY <1>1, <1>4, <3>1 DEF Calling
  <2>4. Used' = Used
    <3>1. Used' = [Used EXCEPT ![r] = took'[r].body]
      BY MappedReader DEF FeedInv, ReaderStep
    <3> QED BY <1>1, <1>4, <3>1 DEF Used, Nothing
  <2>5. published' = published
        /\ \E step \in {0, 1} : position' = [position EXCEPT ![r] = @ + step]
    <3>1. published' = published /\ position' = [position EXCEPT ![r] = position'[r]]
      BY MappedReader DEF FeedInv, ReaderStep
    <3>2. PICK step \in {0, 1} : position'[r] = position[r] + step
      BY <1>1, <1>2
    <3> QED BY <3>1, <3>2
  <2> QED BY <1>2, <2>1, <2>2, <2>3, <2>4, <2>5
             DEF Feed!Lend, Feed!None, Blank, Calling, Lent, Used
<1> QED BY <1>3, <1>4

\* The payload read is the lent item's while the writer is fewer than Count
\* items past it; this is where the ring's own invariant is needed.
LEMMA UseMaps ==
    ASSUME FeedInv, NoSeam, NEW r \in Readers, UsePayload(r)
    PROVE  Feed!Use(r) \/ UNCHANGED Feed!vars
<1> DEFINE what == slots[SlotOf(read_index[r])].body
<1>1. /\ rpc[r] \in {"holding", "peeking"} /\ rpc'[r] = rpc[r] /\ position'[r] = position[r]
      /\ took[r].body = Blank /\ took'[r] = [took[r] EXCEPT !.body = what]
  BY DEF UsePayload, FeedInv, RingInv, TypeOK
<1>2. /\ took[r].head # Blank /\ took[r].item \in Nat /\ published \in Nat
      /\ took[r] \in [item : Content, head : Content, body : Content]
  BY <1>1 DEF FeedInv, RingInv, WriterInv, WriterTypeOK, ReaderInv, ReaderTypeOK, Lending
<1>3. what \in Content /\ what <= published
  <2>1. SlotOf(read_index[r]) \in Slots
    BY SlotOfType DEF FeedInv, RingInv, ReaderInv, ReaderTypeOK, Indices
  <2> QED BY <2>1 DEF FeedInv, BodyInv, RingInv, WriterInv, WriterTypeOK
<1>4. published - took[r].item < Count => what = took[r].item
  <2> SUFFICES ASSUME published - took[r].item < Count PROVE what = took[r].item
    OBVIOUS
  <2>1. InWindow(r)
    BY DEF InWindow
  <2>2. ~refused[HomeOf(took[r].item)]
    BY <1>1, <2>1 DEF FeedInv, RingInv, ReaderInv
  <2>3. slots[SlotOf(read_index[r])] = Whole(took[r].item)
    BY <1>1, <2>1, <2>2, PolledSlot DEF FeedInv, RingInv, Lending
  <2> QED BY <2>3 DEF Whole
<1> HIDE DEF what
<1>5. /\ took'[r].head = took[r].head /\ took'[r].item = took[r].item /\ took'[r].body = what
  BY <1>1, <1>2
<1>6. CASE what = Blank
  BY <1>1, <1>5, <1>6, Stutters DEF FeedInv, ReaderStep
<1>7. CASE what # Blank
  <2>1. /\ Lent[r] = took[r].item /\ Used[r] = Blank /\ Lent[r] # -1
    BY <1>1, <1>2 DEF Lent, Used
  <2>2. what \in 0 .. published
    BY <1>2, <1>3, <1>7 DEF Content, Items
  <2>3. Used' = [Used EXCEPT ![r] = what] /\ published' = published
    BY <1>5, MappedReader DEF FeedInv, ReaderStep
  <2>4. Lent' = Lent
    <3>1. Lent' = [Lent EXCEPT ![r] = IF took'[r].head = Blank THEN Blank ELSE took'[r].item]
      BY MappedReader DEF FeedInv, ReaderStep
    <3> QED BY <1>5, <3>1 DEF Lent
  <2>5. Calling' = Calling
    <3>1. Calling' = [Calling EXCEPT ![r] = rpc'[r] # "idle"]
      BY MappedReader DEF FeedInv, ReaderStep
    <3> QED BY <1>1, <3>1 DEF Calling
  <2>6. position' = position
    BY <1>1, MappedReader DEF FeedInv, RingInv, TypeOK, ReaderStep
  <2>7. what \in IF published - Lent[r] < Count THEN {Lent[r]} ELSE 0 .. published
    BY <1>4, <2>1, <2>2
  <2> QED BY <2>1, <2>3, <2>4, <2>5, <2>6, <2>7
             DEF Feed!Use, Feed!None, Blank, Calling, Lent, Used
<1> QED BY <1>6, <1>7

\* Letting the item go leaves the cursor behind it, whether the index was
\* stepped when the item was lent or is stepped now.
LEMMA ReleaseMaps ==
    ASSUME FeedInv, NEW r \in Readers, Release(r)
    PROVE  Feed!Return(r)
<1>1. /\ rpc[r] \in {"holding", "peeking"} /\ took[r].body # Blank
      /\ rpc'[r] = "idle" /\ took'[r] = Nothing
      /\ position'[r] = IF rpc[r] = "peeking" THEN position[r] + 1 ELSE position[r]
  BY DEF Release, FeedInv, RingInv, TypeOK
<1>2. took[r].head # Blank /\ position'[r] = took[r].item + 1
  BY <1>1 DEF FeedInv, LoanInv, RingInv, ReaderInv, Lending
<1>3. Used[r] # Blank /\ Lent[r] = took[r].item
  BY <1>1, <1>2 DEF Used, Lent
<1>4. Calling' = [Calling EXCEPT ![r] = FALSE]
  <2>1. Calling' = [Calling EXCEPT ![r] = rpc'[r] # "idle"]
    BY MappedReader DEF FeedInv, ReaderStep
  <2> QED BY <1>1, <2>1
<1>5. /\ Lent' = [Lent EXCEPT ![r] = Blank] /\ Used' = [Used EXCEPT ![r] = Blank]
      /\ position' = [position EXCEPT ![r] = Lent[r] + 1] /\ published' = published
  BY <1>1, <1>2, <1>3, MappedReader DEF FeedInv, ReaderStep, Nothing
<1> QED BY <1>3, <1>4, <1>5 DEF Feed!Return, Feed!None, Blank, Calling, Lent, Used

\* A call begins; a failed poll keeps it open; a new handle starts at the
\* newest item; a seek goes back at most Count - 1 items.
LEMMA OthersMap ==
    ASSUME FeedInv, NEW r \in Readers
    PROVE  /\ BeginRead(r) => Feed!Call(r)
           /\ PollFails(r) => UNCHANGED Feed!vars
           /\ Reopen(r) => Feed!Skip(r)
           /\ Seek(r) => Feed!Seek(r)
<1> USE Constants
<1>p. /\ position[r] \in Nat /\ position[r] <= published /\ published \in Nat
      /\ item_current = published % IndexMod
      /\ rpc[r] \notin Lending => took[r] = Nothing
  BY DEF FeedInv, RingInv, WriterInv, WriterTypeOK, ReaderInv, ReaderTypeOK
<1>1. ASSUME BeginRead(r) PROVE Feed!Call(r)
  <2>1. rpc[r] = "idle" /\ rpc'[r] = "polling" /\ took' = took /\ position' = position
    BY <1>1 DEF BeginRead, FeedInv, RingInv, TypeOK
  <2>2. Calling' = [Calling EXCEPT ![r] = TRUE] /\ published' = published
    <3>1. Calling' = [Calling EXCEPT ![r] = rpc'[r] # "idle"] /\ published' = published
      BY <1>1, MappedReader DEF FeedInv, ReaderStep
    <3> QED BY <2>1, <3>1
  <2>3. ~Calling[r] /\ Lent' = Lent /\ Used' = Used
    BY <2>1 DEF Calling, Lent, Used
  <2> QED BY <2>1, <2>2, <2>3 DEF Feed!Call, Calling, Lent, Used
<1>2. ASSUME PollFails(r) PROVE UNCHANGED Feed!vars
  <2>1. rpc[r] = "polling" /\ rpc'[r] = "error" /\ took' = took /\ position' = position
    BY <1>2 DEF PollFails, FeedInv, RingInv, TypeOK
  <2> QED BY <1>2, <2>1, Stutters DEF FeedInv, ReaderStep
<1>3. ASSUME Reopen(r) PROVE Feed!Skip(r)
  <2>1. rpc[r] = "error" /\ took' = took /\ position'[r] = published
    BY <1>3 DEF Reopen, FeedInv, RingInv, TypeOK
  <2>2. took[r].head = Blank
    BY <2>1, <1>p DEF Lending, Nothing
  <2>3. position'[r] \in position[r] .. published
    BY <2>1, <1>p
  <2> QED BY <1>3, <2>1, <2>2, <2>3, Skips DEF FeedInv, ReaderStep
<1>4. ASSUME Seek(r) PROVE Feed!Seek(r)
  <2>1. /\ rpc[r] = "idle" /\ rpc' = rpc /\ took' = took
        /\ position'[r] = published \/ position'[r] = published - RingStartLag
    BY <1>4 DEF Seek, SeekReadIndexToWriteIndex, SeekReadIndexToRingStart, FeedInv, RingInv, TypeOK
  <2>2. item_current \in Nat /\ item_current <= published
    <3> DEFINE y == IndexMod * (published \div IndexMod)
               z == published % IndexMod
    <3>1. published = y + z /\ y \in Nat /\ z \in 0 .. IndexMod - 1
      <4> HIDE DEF y, z
      <4> QED BY <1>p, DivMod DEF y, z
    <3> HIDE DEF y, z
    <3>2. z \in Nat /\ z <= published
      BY <3>1, <1>p
    <3> QED BY <3>2, <1>p DEF z
  <2>3. RingStartLag \in Nat /\ RingStartLag <= item_current /\ RingStartLag <= Count - 1
    <3>1. RingStartLag \in Nat /\ RingStartLag <= item_current
      BY <2>2, RingStartLagBound
    <3>2. RingStartLag <= Count - 1
      <4>1. Count \in Nat \ {0}
        BY Constants
      <4> QED BY <2>2, <4>1 DEF RingStartLag
    <3> QED BY <3>1, <3>2
  <2> DEFINE c == position'[r]
  <2>4. c \in (published - Count + 1) .. published /\ c >= 0
    BY <2>1, <2>2, <2>3, <1>p
  <2> HIDE DEF c
  <2>5. position' = [position EXCEPT ![r] = c] /\ published' = published
    BY <1>4, MappedReader DEF FeedInv, c
  <2>6. ~Calling[r] /\ Calling' = Calling /\ Lent' = Lent /\ Used' = Used
    BY <2>1 DEF Calling, Lent, Used
  <2> QED BY <2>4, <2>5, <2>6 DEF Feed!Seek, Calling, Lent, Used
<1> QED BY <1>1, <1>2, <1>3, <1>4

\* The writer's steps: FinishWrite publishes, no other is seen.
LEMMA WriterMaps ==
    ASSUME FeedInv, Writer
    PROVE  Feed!Publish \/ UNCHANGED Feed!vars
<1>1. UNCHANGED readerVars /\ (published' = published \/ published' = published + 1)
  BY DEF Writer, ClearItem, FillItem, SealItem, RejectItem, FinishWrite, Crash, Reattach
<1>2. UNCHANGED <<position, Calling, Lent, Used>>
  BY <1>1 DEF readerVars, Calling, Lent, Used
<1> QED BY <1>1, <1>2 DEF Feed!Publish, Feed!vars, Calling, Lent, Used

\* The ring starts as the feed does, and every step of it is a step of the
\* feed or invisible.
THEOREM RingImplementsFeed == Spec /\ []NoSeam => ImplementsFeed
<1>1. Init => Feed!Init
  <2> SUFFICES ASSUME Init PROVE Feed!Init
    OBVIOUS
  <2>1. Calling = [r \in Readers |-> FALSE]
    BY Zenon DEF Init, Calling
  <2>2. /\ Lent = [r \in Readers |-> Blank] /\ Used = [r \in Readers |-> Blank]
        /\ published = 0 /\ position = [r \in Readers |-> 0]
    BY DEF Init, Lent, Used, Nothing
  <2> QED BY <2>1, <2>2 DEF Feed!Init, Feed!None, Blank, Calling, Lent, Used
<1>2. FeedInv /\ NoSeam /\ [Next]_vars => [Feed!Next]_(Feed!vars)
  <2> SUFFICES ASSUME FeedInv, NoSeam, [Next]_vars
               PROVE  Feed!Next \/ UNCHANGED Feed!vars
    OBVIOUS
  <2>1. CASE UNCHANGED vars
    BY <2>1 DEF vars, readerVars, writerVars, Feed!vars
  <2>2. ASSUME NEW r \in Readers, ReaderStep(r) \/ Seek(r)
        PROVE  Feed!Next \/ UNCHANGED Feed!vars
    BY <2>2, PollMaps, LengthMaps, ParseMaps, UseMaps, ReleaseMaps, OthersMap
       DEF ReaderStep, Feed!Next
  <2> QED BY <2>1, <2>2, WriterMaps DEF Next, Feed!Next
<1> QED BY <1>1, <1>2, FeedInit, FeedNext, PTL DEF Spec, ImplementsFeed, Feed!Spec

=============================================================================
