-------------------------- MODULE CompactRingProofs --------------------------
(***************************************************************************)
(* Theorems about CompactRing, for every number of table entries, size and *)
(* alignment of the payload area, set of item sizes and set of readers.    *)
(***************************************************************************)
EXTENDS CompactRing, ModLemmas

-----------------------------------------------------------------------------
(***************************************************************************)
(* The writer's side of the invariant.                                     *)
(***************************************************************************)

\* What the writer is doing, told by the store it has made.
Asking == {"applied", "filled", "offset", "size", "index", "checksum"}
Moved == {"nextFreeItemPayloadOffset", "lastFilledItemIndex", "itemIndexChecksum"}
Working == Asking \cup Moved

ItemEntries == [index : Indices, offset : Offsets, size : 0 .. PayloadSize, checksum : Nat]
Tenants == [item : Content, start : Nat]

WriterTypeOK ==
    /\ control \in [nextFreeItemIndex : Indices, lastFilledItemIndex : Indices,
                    itemIndexChecksum : Nat, nextFreeItemPayloadOffset : Offsets]
    /\ items \in [Slots -> ItemEntries]
    /\ payload \in [Area -> Content]
    /\ wpc \in Working \cup {"idle", "down"}
    /\ buffer \in [offset : Offsets, size : 0 .. PayloadSize]
    /\ buffer.offset + buffer.size <= End
    /\ published \in Nat
    /\ tenant \in [Slots -> Tenants]
    /\ lap \in Nat
    /\ reach \in Nat

\* Where the writer's lap of the payload area starts, laps before it included.
LapStart == lap * PayloadSize

\* The control words: the next index is that of the next item, the last index
\* that of the item before it or already that of the item being committed.
ControlInv ==
    /\ control.nextFreeItemIndex = IndexOf(published)
    /\ \/ control.lastFilledItemIndex = IndexOf(published)
       \/ published > 0 /\ control.lastFilledItemIndex = IndexOf(published - 1)
    /\ wpc \in {"lastFilledItemIndex", "itemIndexChecksum"}
          => control.lastFilledItemIndex = IndexOf(published)
    /\ control.nextFreeItemPayloadOffset = 0 \/ control.nextFreeItemPayloadOffset > PayloadOffset
    /\ published > 0 => control.nextFreeItemPayloadOffset > PayloadOffset

\* The table entry of the next item.
Target == SlotOf(published)

\* The room Apply gave lies behind the last item or at the area's start, and
\* the history knows how far it reaches.
RoomInv ==
    /\ wpc \in Working => buffer.offset >= PayloadOffset /\ buffer.size > 0
    /\ wpc \in Asking =>
          /\ buffer.offset = PayloadOffset \/ buffer.offset >= control.nextFreeItemPayloadOffset
          /\ reach >= Distance(buffer.offset) + buffer.size
    /\ wpc \in Moved =>
          /\ control.nextFreeItemPayloadOffset = buffer.offset + buffer.size
          /\ reach >= LapStart + buffer.offset - PayloadOffset + buffer.size

\* How much of the new entry has been stored.
EntryInv ==
    /\ wpc \in Working \ {"applied", "filled"} => items[Target].offset = buffer.offset
    /\ wpc \in Working \ {"applied", "filled", "offset"} => items[Target].size = buffer.size
    /\ wpc \in {"index", "checksum"} \cup Moved =>
          /\ items[Target].index = IndexOf(published)
          /\ tenant[Target].item = published
    /\ wpc \in {"index", "checksum"} => tenant[Target].start = Distance(buffer.offset)
    /\ wpc \in Moved =>
          tenant[Target].start = LapStart + buffer.offset - PayloadOffset
    /\ wpc \in {"checksum"} \cup Moved =>
          items[Target].checksum = items[Target].index + items[Target].offset + items[Target].size
    /\ wpc \in Working \ {"applied"} =>
          \A u \in buffer.offset .. buffer.offset + buffer.size - 1 : payload[u] = published

\* Whose index an entry carries: an item of the last lap, or nobody's yet.
TenantInv ==
    \A k \in Slots :
        \/ tenant[k].item = Zero /\ items[k].index = 0 /\ published <= k
        \/ /\ tenant[k].item \in Nat
           /\ SlotOf(tenant[k].item) = k
           /\ published - MaxItemsNum <= tenant[k].item /\ tenant[k].item <= published
           /\ items[k].index = IndexOf(tenant[k].item)
           /\ items[k].offset >= PayloadOffset

\* An item lies where it was put: in the lap of the payload the writer is in,
\* and then below the free offset, or in an earlier one.
Placed(k) ==
    \/ /\ tenant[k].start = LapStart + (items[k].offset - PayloadOffset)
       /\ items[k].offset + items[k].size <= control.nextFreeItemPayloadOffset
    \/ tenant[k].start + PayloadSize <= LapStart + (items[k].offset - PayloadOffset)

\* The entry of item i is all there, and so is its payload while it is kept.
Intact(i) ==
    LET k == SlotOf(i)
        e == items[k]
    IN  /\ tenant[k].item = i
        /\ e.index = IndexOf(i)
        /\ e.checksum = e.index + e.offset + e.size
        /\ e.offset >= PayloadOffset /\ e.size > 0 /\ e.offset + e.size <= End
        /\ Placed(k)
        /\ Kept(i, tenant[k].start) => \A u \in e.offset .. e.offset + e.size - 1 : payload[u] = i

WriterInv ==
    /\ WriterTypeOK
    /\ ControlInv
    /\ RoomInv
    /\ EntryInv
    /\ TenantInv
    /\ \A i \in Window : Intact(i)

-----------------------------------------------------------------------------
(***************************************************************************)
(* Indices, slots and laps.                                                *)
(***************************************************************************)

\* The constants as the provers want them.
LEMMA Constants ==
    /\ MaxItemsNum \in Nat \ {0} /\ MaxItemsNum > 1
    /\ MaxItemIndex \in Nat \ {0} /\ MaxItemIndex = 2 * MaxItemsNum
    /\ MaxItemIndex % MaxItemsNum = 0
    /\ Align \in Nat \ {0}
    /\ PayloadOffset \in Nat \ {0} /\ PayloadSize \in Nat \ {0}
    /\ End \in Nat /\ End = PayloadOffset + PayloadSize
    /\ \A size \in Sizes : size \in Nat /\ 0 < size /\ size <= PayloadSize
<1>1. /\ MaxItemsNum \in Nat \ {0} /\ MaxItemsNum > 1
      /\ MaxItemIndex \in Nat \ {0} /\ MaxItemIndex = 2 * MaxItemsNum
  BY CompactAssumption DEF MaxItemIndex
<1>2. MaxItemIndex % MaxItemsNum = 0
  BY <1>1, 2 * MaxItemsNum = MaxItemsNum * 2 + 0, 0 \in 0 .. MaxItemsNum - 1, 2 \in Int,
     MaxItemIndex \in Int, ModUnique
<1>3. \A size \in Sizes : size \in 1 .. PayloadSize
  BY CompactAssumption
<1> QED BY <1>1, <1>2, <1>3, CompactAssumption DEF End

\* An absolute number has an index and a slot, and the index has that slot.
LEMMA IndexType ==
    ASSUME NEW i \in Int
    PROVE  /\ IndexOf(i) \in Indices /\ IndexOf(i) \in Nat /\ IndexOf(i) < MaxItemIndex
           /\ SlotOf(i) \in Slots /\ SlotOf(i) \in Nat /\ SlotOf(i) < MaxItemsNum
           /\ IndexOf(i) % MaxItemsNum = SlotOf(i)
<1>1. i % MaxItemIndex \in 0 .. MaxItemIndex - 1
  BY Constants, ModRange
<1>2. i % MaxItemsNum \in 0 .. MaxItemsNum - 1
  BY Constants, ModRange
<1>3. (i % MaxItemIndex) % MaxItemsNum = i % MaxItemsNum
  BY Constants, ModMod
<1> QED BY <1>1, <1>2, <1>3, Constants DEF IndexOf, SlotOf, Indices, Slots

\* Stepping the index is stepping the item.
LEMMA IndexStep ==
    ASSUME NEW i \in Int, NEW c \in Int
    PROVE  (IndexOf(i) + c) % MaxItemIndex = IndexOf(i + c)
BY Constants, ModPlus DEF IndexOf

\* Two items less than two laps apart have the same index only if they are one.
LEMMA IndexIsItem ==
    ASSUME NEW i \in Int, NEW j \in Int, IndexOf(i) = IndexOf(j), i > j - MaxItemIndex
    PROVE  j <= i
<1> SUFFICES ASSUME i < j PROVE FALSE
  OBVIOUS
<1>1. j - i < MaxItemIndex
  BY Constants
<1>2. i % MaxItemIndex # j % MaxItemIndex
  BY <1>1, Constants, ModClose
<1> QED BY <1>2 DEF IndexOf

\* The words Commit makes of the free index.
LEMMA WriterIndices ==
    ASSUME published \in Nat, control.nextFreeItemIndex = IndexOf(published)
    PROVE  /\ FreeIndex = IndexOf(published)
           /\ FreeIndex % MaxItemsNum = Target
           /\ NextIndex = IndexOf(published + 1)
           /\ Target \in Slots
<1>1. IndexOf(published) \in 0 .. MaxItemIndex - 1 /\ published \in Int
  BY IndexType DEF Indices
<1>2. FreeIndex = IndexOf(published)
  BY <1>1, Constants, ModSmall DEF FreeIndex
<1>3. NextIndex = IndexOf(published + 1)
  BY <1>1, <1>2, IndexStep, 1 \in Int DEF NextIndex
<1>4. FreeIndex % MaxItemsNum = Target /\ Target \in Slots
  BY <1>1, <1>2, IndexType DEF Target
<1> QED BY <1>2, <1>3, <1>4

\* No item of the window has the entry that is being written.
LEMMA WindowApart ==
    ASSUME published \in Nat, NEW i \in Window
    PROVE  /\ i \in Nat /\ i < published /\ published - i < MaxItemsNum
           /\ SlotOf(i) # Target /\ SlotOf(i) \in Slots
<1>1. i \in Nat /\ i < published /\ published - i < MaxItemsNum
  BY Constants DEF Window
<1>2. i % MaxItemsNum # published % MaxItemsNum
  BY <1>1, i \in Int, published \in Int, Constants, ModClose
<1> QED BY <1>1, <1>2, IndexType DEF Target, SlotOf

\* A lap is PayloadSize long; an offset below the free one is in the next lap.
LEMMA Laps ==
    ASSUME lap \in Nat
    PROVE  /\ LapStart \in Nat
           /\ lap' = lap => LapStart' = LapStart
           /\ lap' = lap + 1 => LapStart' = LapStart + PayloadSize
           /\ \A offset : Distance(offset) =
                 IF offset < control.nextFreeItemPayloadOffset
                 THEN LapStart + PayloadSize + offset - PayloadOffset
                 ELSE LapStart + offset - PayloadOffset
<1>1. lap * PayloadSize \in Nat /\ (lap + 1) * PayloadSize = lap * PayloadSize + PayloadSize
  BY Constants, Z3
<1> QED BY <1>1 DEF LapStart, Distance, LapOf

\* Room is free space behind the last item, or the start of the area.
LEMMA RoomIs ==
    ASSUME control.nextFreeItemPayloadOffset \in Nat, NEW size \in Sizes
    PROVE  /\ FreeOffset \in Nat /\ FreeOffset >= PayloadOffset
           /\ FreeOffset >= control.nextFreeItemPayloadOffset
           /\ Room(size) = PayloadOffset \/ Room(size) = FreeOffset
           /\ ~Unwinds(size) => Room(size) = FreeOffset
           /\ Unwinds(size) => Room(size) = PayloadOffset
           /\ Room(size) \in Nat /\ Room(size) + size <= End
<1> DEFINE low == Max2(control.nextFreeItemPayloadOffset, PayloadOffset)
           x == low + Align - 1
<1>1. low \in Nat /\ low >= PayloadOffset /\ low >= control.nextFreeItemPayloadOffset
  BY Constants DEF Max2
<1> HIDE DEF low
<1>2. x \in Nat
  BY <1>1, Constants
<1>3. /\ x = Align * (x \div Align) + (x % Align) /\ x % Align \in 0 .. Align - 1
      /\ Align * (x \div Align) \in Nat
  BY <1>2, Constants, DivMod
<1>4. FreeOffset = Align * (x \div Align)
  BY DEF FreeOffset, AlignUp, low
<1>5. FreeOffset \in Nat /\ FreeOffset >= low
  <2> DEFINE y == Align * (x \div Align)
             z == x % Align
  <2>1. x = y + z /\ y \in Nat /\ z \in 0 .. Align - 1
    BY <1>3
  <2> HIDE DEF y, z
  <2>2. y >= low
    BY <2>1, <1>1, Constants
  <2> QED BY <1>4, <2>1, <2>2 DEF y
<1> HIDE DEF x
<1> QED BY <1>1, <1>5, Constants DEF Room, Unwinds

-----------------------------------------------------------------------------
(***************************************************************************)
(* The writer's steps.                                                     *)
(***************************************************************************)

LEMMA WriterInit == Init => WriterInv
<1> SUFFICES ASSUME Init PROVE WriterInv
  OBVIOUS
<1> USE Constants
<1>0. IndexOf(0) = 0 /\ 0 \in Indices /\ 0 \in Offsets
  BY 0 \in 0 .. MaxItemIndex - 1, ModSmall DEF IndexOf, Indices, Offsets
<1>1. WriterTypeOK
  BY <1>0 DEF Init, WriterTypeOK, ItemEntries, Tenants, Content, Zero, NoRoom
<1>2. Window = {}
  BY DEF Init, Window
<1>3. TenantInv
  BY DEF Init, TenantInv, Zero, Slots
<1>4. ControlInv
  BY <1>0 DEF Init, ControlInv
<1> QED
  BY <1>1, <1>2, <1>3, <1>4
     DEF Init, WriterInv, RoomInv, EntryInv, Working, Asking, Moved

\* An item stays intact when its entry and its place stay and no unit of its
\* payload is written while the item counts as kept.
LEMMA IntactFrame ==
    ASSUME NEW i \in Nat, Intact(i),
           items'[SlotOf(i)] = items[SlotOf(i)], tenant'[SlotOf(i)] = tenant[SlotOf(i)],
           Placed(SlotOf(i))',
           Kept(i, tenant[SlotOf(i)].start)' =>
              /\ Kept(i, tenant[SlotOf(i)].start)
              /\ \A u \in items[SlotOf(i)].offset ..
                          items[SlotOf(i)].offset + items[SlotOf(i)].size - 1 :
                     payload'[u] = payload[u]
    PROVE  Intact(i)'
<1> DEFINE k == SlotOf(i)
<1> HIDE DEF k
<1> SUFFICES Intact(i)'
  OBVIOUS
<1>1. items'[k] = items[k] /\ tenant'[k] = tenant[k] /\ Placed(k)'
  BY DEF k
<1>2. /\ tenant[k].item = i /\ items[k].index = IndexOf(i)
      /\ items[k].checksum = items[k].index + items[k].offset + items[k].size
      /\ items[k].offset >= PayloadOffset /\ items[k].size > 0
      /\ items[k].offset + items[k].size <= End
      /\ Kept(i, tenant[k].start) =>
           \A u \in items[k].offset .. items[k].offset + items[k].size - 1 : payload[u] = i
  BY DEF Intact, k
<1>3. Kept(i, tenant[k].start)' =>
        \A u \in items[k].offset .. items[k].offset + items[k].size - 1 : payload'[u] = i
  BY <1>2 DEF k
<1> QED BY <1>1, <1>2, <1>3 DEF Intact, k, IndexOf, SlotOf, MaxItemIndex, End

\* Steps that leave the segment alone: Abandon, Crash and Reattach.
LEMMA WriterPauses ==
    ASSUME WriterInv, UNCHANGED <<control, items, payload, published, tenant, lap, reach>>,
           wpc' \in {"idle", "down"}, buffer' = NoRoom \/ buffer' = buffer
    PROVE  WriterInv'
<1> USE Constants
<1>1. WriterTypeOK'
  BY DEF WriterInv, WriterTypeOK, NoRoom, Offsets
<1>2. ControlInv' /\ RoomInv' /\ EntryInv'
  BY DEF WriterInv, ControlInv, RoomInv, EntryInv, Working, Asking, Moved, IndexOf
<1>3. TenantInv'
  BY DEF WriterInv, TenantInv
<1>4. \A i \in Window' : Intact(i)'
  BY DEF WriterInv, Window, Intact, Placed, Kept, LapStart
<1> QED BY <1>1, <1>2, <1>3, <1>4 DEF WriterInv

\* Apply gives room where nothing is kept, and zeroes nothing that is.
LEMMA ApplyKeeps == ASSUME WriterInv, Apply PROVE WriterInv'
<1> USE Constants
<1>1. PICK size \in Sizes :
        /\ buffer' = [offset |-> Room(size), size |-> size]
        /\ payload' = IF Unwinds(size)
                      THEN [u \in Area |-> IF u >= FreeOffset THEN Zero ELSE payload[u]]
                      ELSE payload
        /\ reach' = Max2(reach, Distance(Room(size)) + size)
  BY DEF Apply
<1>2. /\ UNCHANGED <<control, items, published, tenant, lap>> /\ wpc' = "applied"
  BY DEF Apply
<1>t. WriterTypeOK
  BY DEF WriterInv
<1> DEFINE off == control.nextFreeItemPayloadOffset
<1>3. off \in Nat /\ lap \in Nat /\ reach \in Nat /\ published \in Nat /\ size \in Nat
      /\ size > 0 /\ size <= PayloadSize
  BY <1>t DEF WriterTypeOK, Offsets
<1>4. /\ FreeOffset \in Nat /\ FreeOffset >= PayloadOffset /\ FreeOffset >= off
      /\ Room(size) = PayloadOffset \/ Room(size) = FreeOffset
      /\ Unwinds(size) => Room(size) = PayloadOffset
      /\ Room(size) \in Nat /\ Room(size) + size <= End /\ Room(size) >= PayloadOffset
  BY <1>3, RoomIs
<1>5. /\ LapStart \in Nat /\ LapStart' = LapStart
      /\ Distance(Room(size)) = IF Room(size) < off
                                THEN LapStart + PayloadSize + Room(size) - PayloadOffset
                                ELSE LapStart + Room(size) - PayloadOffset
  BY <1>2, <1>3, Laps
<1>6. Distance(Room(size)) \in Nat /\ reach' \in Nat /\ reach <= reach'
      /\ Distance(Room(size)) + size <= reach'
  <2> HIDE DEF off
  <2>1. Distance(Room(size)) \in Nat
    BY <1>3, <1>4, <1>5
  <2> QED BY <2>1, <1>1, <1>3 DEF Max2
<1>7. WriterTypeOK'
  <2>1. payload' \in [Area -> Content]
    BY <1>1, <1>t DEF WriterTypeOK, Content, Zero
  <2>2. buffer' \in [offset : Offsets, size : 0 .. PayloadSize]
        /\ buffer'.offset + buffer'.size <= End
    BY <1>1, <1>3, <1>4 DEF Offsets
  <2> QED BY <1>2, <1>6, <1>t, <2>1, <2>2 DEF WriterTypeOK, Working, Asking
<1>8. ControlInv' /\ TenantInv' /\ EntryInv'
  BY <1>2 DEF WriterInv, ControlInv, TenantInv, EntryInv, IndexOf, Working, Asking, Moved
<1>9. RoomInv'
  <2>1. Distance(buffer.offset)' = Distance(Room(size))
    BY <1>1, <1>2 DEF Distance, LapOf
  <2> QED BY <1>1, <1>2, <1>3, <1>4, <1>6, <2>1 DEF RoomInv, Working, Asking, Moved
<1>10. ASSUME NEW i \in Window' PROVE Intact(i)'
  <2>1. i \in Window /\ i \in Nat /\ SlotOf(i) \in Slots /\ Intact(i)
    BY <1>2, <1>3, WindowApart DEF Window, WriterInv
  <2> DEFINE k == SlotOf(i)
  <2> HIDE DEF k
  <2>2. Placed(k)' = Placed(k)
    BY <1>2, <1>5 DEF Placed
  <2>3. /\ items[k].offset \in Nat /\ items[k].size \in Nat /\ tenant[k].start \in Nat
    BY <1>t, <2>1 DEF WriterTypeOK, ItemEntries, Tenants, Offsets, k
  <2>4. /\ Placed(k) /\ items[k].offset >= PayloadOffset /\ items[k].size > 0
        /\ items[k].offset + items[k].size <= End
    BY <2>1 DEF Intact, k
  <2>5. ASSUME Kept(i, tenant[k].start)',
               NEW u \in items[k].offset .. items[k].offset + items[k].size - 1
        PROVE  payload'[u] = payload[u]
    <3>1. u \in Area
      BY <2>3, <2>4 DEF Area
    <3>2. CASE ~Unwinds(size)
      BY <1>1, <3>2
    <3>3. CASE Unwinds(size)
      <4>1. reach' - tenant[k].start <= PayloadSize
        BY <2>5, <1>2 DEF Kept
      <4>2. off > PayloadOffset
        <5>1. published > 0
          BY <2>1, <1>3, WindowApart
        <5> QED BY <5>1 DEF WriterInv, ControlInv
      <4>3. reach' >= LapStart + PayloadSize
        BY <1>3, <1>4, <1>5, <1>6, <3>3, <4>2
      <4>4. items[k].offset + items[k].size <= off
        BY <2>3, <2>4, <4>1, <4>3, <1>5, <1>6 DEF Placed
      <4>5. u < FreeOffset
        BY <4>4, <1>3, <1>4, <2>3
      <4> QED BY <1>1, <3>1, <3>3, <4>5, <1>4
    <3> QED BY <3>2, <3>3
  <2>6. Kept(i, tenant[k].start)' => Kept(i, tenant[k].start)
    <3>1. SUFFICES ASSUME Kept(i, tenant[k].start)' PROVE Kept(i, tenant[k].start)
      OBVIOUS
    <3> QED BY <3>1, <1>2, <1>3, <1>6, <2>1, <2>3 DEF Kept
  <2> QED BY <1>2, <2>1, <2>2, <2>4, <2>5, <2>6, IntactFrame DEF k
<1> QED BY <1>7, <1>8, <1>9, <1>10 DEF WriterInv

\* Fill writes into the room, and no item that is kept is there.
LEMMA FillKeeps == ASSUME WriterInv, Fill PROVE WriterInv'
<1> USE Constants
<1>1. PICK size \in {s \in Sizes : s <= buffer.size} :
        /\ buffer' = [buffer EXCEPT !.size = size]
        /\ payload' = [u \in Area |->
              IF u \in buffer.offset .. buffer.offset + size - 1 THEN published ELSE payload[u]]
  BY DEF Fill
<1>2. /\ UNCHANGED <<control, items, published, tenant, lap, reach>>
      /\ wpc = "applied" /\ wpc' = "filled"
  BY DEF Fill
<1>t. WriterTypeOK
  BY DEF WriterInv
<1> DEFINE off == control.nextFreeItemPayloadOffset
           low == buffer.offset
           old == buffer.size
<1>3. /\ off \in Nat /\ lap \in Nat /\ reach \in Nat /\ published \in Nat
      /\ low \in Nat /\ old \in Nat /\ low + old <= End
      /\ size \in Nat /\ size > 0 /\ size <= old
  BY <1>t DEF WriterTypeOK, Offsets
<1>4. /\ low >= PayloadOffset /\ (low = PayloadOffset \/ low >= off)
      /\ reach >= Distance(low) + old
  BY <1>2 DEF WriterInv, RoomInv, Asking, Working
<1>5. /\ LapStart \in Nat /\ LapStart' = LapStart
      /\ Distance(low) = IF low < off THEN LapStart + PayloadSize + low - PayloadOffset
                                     ELSE LapStart + low - PayloadOffset
  BY <1>2, <1>3, Laps
<1>6. buffer'.offset = low /\ buffer'.size = size
  BY <1>1, <1>t DEF WriterTypeOK
<1>7. WriterTypeOK'
  <2>1. payload' \in [Area -> Content]
    BY <1>1, <1>3, <1>t DEF WriterTypeOK, Content
  <2>2. buffer' \in [offset : Offsets, size : 0 .. PayloadSize]
    BY <1>1, <1>3, <1>t DEF WriterTypeOK, Offsets
  <2>3. buffer'.offset + buffer'.size <= End
    BY <1>3, <1>6
  <2> QED BY <1>2, <1>t, <2>1, <2>2, <2>3 DEF WriterTypeOK, Working, Asking
<1>8. ControlInv' /\ TenantInv'
  BY <1>2 DEF WriterInv, ControlInv, TenantInv, IndexOf
<1>9. RoomInv'
  <2>1. Distance(buffer.offset)' = Distance(low)
    BY <1>2, <1>6 DEF Distance, LapOf
  <2>2. Distance(low) \in Nat
    BY <1>3, <1>4, <1>5
  <2>3. reach' >= Distance(low) + size
    <3> HIDE DEF low, old
    <3> QED BY <1>2, <1>3, <1>4, <2>2
  <2> QED BY <1>2, <1>3, <1>4, <1>6, <2>1, <2>3 DEF RoomInv, Working, Asking, Moved
<1>10. EntryInv'
  <2>1. ASSUME NEW u \in low .. low + size - 1 PROVE payload'[u] = published
    <3>1. u \in Area
      BY <1>3, <1>4 DEF Area
    <3> QED BY <1>1, <3>1
  <2> QED BY <1>2, <1>6, <2>1 DEF EntryInv, Working, Asking, Moved
<1>11. ASSUME NEW i \in Window' PROVE Intact(i)'
  <2>1. i \in Window /\ i \in Nat /\ SlotOf(i) \in Slots /\ Intact(i)
    BY <1>2, <1>3, WindowApart DEF Window, WriterInv
  <2> DEFINE k == SlotOf(i)
  <2> HIDE DEF k
  <2>2. Placed(k)' = Placed(k) /\ Kept(i, tenant[k].start)' = Kept(i, tenant[k].start)
    BY <1>2, <1>5 DEF Placed, Kept
  <2>3. items[k].offset \in Nat /\ items[k].size \in Nat /\ tenant[k].start \in Nat
    BY <1>t, <2>1 DEF WriterTypeOK, ItemEntries, Tenants, Offsets, k
  <2>4. /\ Placed(k) /\ items[k].offset >= PayloadOffset /\ items[k].size > 0
        /\ items[k].offset + items[k].size <= End
    BY <2>1 DEF Intact, k
  <2>5. ASSUME Kept(i, tenant[k].start),
               NEW u \in items[k].offset .. items[k].offset + items[k].size - 1
        PROVE  payload'[u] = payload[u]
    <3>1. u \in Area
      BY <2>3, <2>4 DEF Area
    <3>2. reach - tenant[k].start <= PayloadSize
      BY <2>5 DEF Kept
    <3>3. u < low \/ u >= low + size
      <4> HIDE DEF low, off, old
      <4>1. CASE low < off
        <5>1. tenant[k].start >= LapStart + old
          BY <4>1, <3>2, <1>3, <1>4, <1>5, <2>3
        <5>2. items[k].offset >= low + old
          BY <5>1, <4>1, <2>3, <2>4, <1>3, <1>4, <1>5 DEF Placed
        <5> QED BY <5>2, <1>3, <2>3
      <4>2. CASE low >= off
        <5>1. tenant[k].start + PayloadSize >= LapStart + low - PayloadOffset + old
          BY <4>2, <3>2, <1>3, <1>4, <1>5, <2>3
        <5>2. items[k].offset + items[k].size <= off \/ items[k].offset >= low + old
          BY <5>1, <4>2, <2>3, <2>4, <1>3, <1>4, <1>5 DEF Placed, off
        <5> QED BY <5>2, <4>2, <1>3, <2>3
      <4> QED BY <4>1, <4>2, <1>3
    <3> QED BY <1>1, <1>3, <3>1, <3>3
  <2> QED BY <1>2, <2>1, <2>2, <2>4, <2>5, IntactFrame DEF k
<1> QED BY <1>7, <1>8, <1>9, <1>10, <1>11 DEF WriterInv

\* What the four stores into the table write, one of them each time.
LEMMA StoreItemIs ==
    ASSUME WriterInv, StoreItem
    PROVE  /\ items' \in [Slots -> ItemEntries]
           /\ \A k \in Slots : k # Target => items'[k] = items[k] /\ tenant'[k] = tenant[k]
           /\ \/ /\ wpc = "filled" /\ wpc' = "offset" /\ tenant' = tenant
                 /\ items'[Target] = [items[Target] EXCEPT !.offset = buffer.offset]
              \/ /\ wpc = "offset" /\ wpc' = "size" /\ tenant' = tenant
                 /\ items'[Target] = [items[Target] EXCEPT !.size = buffer.size]
              \/ /\ wpc = "size" /\ wpc' = "index"
                 /\ items'[Target] = [items[Target] EXCEPT !.index = IndexOf(published)]
                 /\ tenant' = [tenant EXCEPT ![Target] =
                                  [item |-> published, start |-> Distance(buffer.offset)]]
              \/ /\ wpc = "index" /\ wpc' = "checksum" /\ tenant' = tenant
                 /\ items'[Target] = [items[Target] EXCEPT !.checksum =
                                        IndexOf(published) + buffer.offset + buffer.size]
<1> USE Constants
<1>t. WriterTypeOK
  BY DEF WriterInv
<1>1. FreeIndex = IndexOf(published) /\ FreeIndex % MaxItemsNum = Target /\ Target \in Slots
  BY WriterIndices DEF WriterInv, WriterTypeOK, ControlInv
<1>2. IndexOf(published) \in Indices /\ IndexOf(published) \in Nat
  BY <1>t, published \in Int, IndexType DEF WriterTypeOK
<1>3. /\ buffer.offset \in Offsets /\ buffer.size \in 0 .. PayloadSize
      /\ IndexOf(published) + buffer.offset + buffer.size \in Nat
  BY <1>t, <1>2 DEF WriterTypeOK, Offsets
<1>4. /\ items' = [items EXCEPT ![Target][wpc'] = NewItem[wpc']]
      /\ tenant' = IF wpc' = "index"
                   THEN [tenant EXCEPT ![Target] =
                            [item |-> published, start |-> Distance(buffer.offset)]]
                   ELSE tenant
      /\ wpc' = After[wpc] /\ wpc \in {"filled", "offset", "size", "index"}
  BY <1>1 DEF StoreItem
<1>5. CASE wpc = "filled"
  <2>1. wpc' = "offset" /\ NewItem["offset"] = buffer.offset
    BY <1>4, <1>5 DEF After, NewItem
  <2>2. items' = [items EXCEPT ![Target].offset = buffer.offset]
    BY <1>4, <2>1
  <2>3. items' \in [Slots -> ItemEntries]
    BY <1>1, <1>3, <1>t, <2>2 DEF WriterTypeOK, ItemEntries
  <2> QED BY <1>1, <1>4, <1>5, <1>t, <2>1, <2>2, <2>3 DEF WriterTypeOK
<1>6. CASE wpc = "offset"
  <2>1. wpc' = "size" /\ NewItem["size"] = buffer.size
    BY <1>4, <1>6 DEF After, NewItem
  <2>2. items' = [items EXCEPT ![Target].size = buffer.size]
    BY <1>4, <2>1
  <2>3. items' \in [Slots -> ItemEntries]
    BY <1>1, <1>3, <1>t, <2>2 DEF WriterTypeOK, ItemEntries
  <2> QED BY <1>1, <1>4, <1>6, <1>t, <2>1, <2>2, <2>3 DEF WriterTypeOK
<1>7. CASE wpc = "size"
  <2>1. wpc' = "index" /\ NewItem["index"] = IndexOf(published)
    BY <1>1, <1>4, <1>7 DEF After, NewItem
  <2>2. items' = [items EXCEPT ![Target].index = IndexOf(published)]
    BY <1>4, <2>1
  <2>3. items' \in [Slots -> ItemEntries]
    BY <1>1, <1>2, <1>t, <2>2 DEF WriterTypeOK, ItemEntries
  <2>4. \A k \in Slots : k # Target => items'[k] = items[k] /\ tenant'[k] = tenant[k]
    BY <1>1, <1>4, <1>t, <2>1, <2>2 DEF WriterTypeOK
  <2> QED BY <1>1, <1>4, <1>7, <1>t, <2>1, <2>2, <2>3, <2>4 DEF WriterTypeOK
<1>8. CASE wpc = "index"
  <2>1. wpc' = "checksum" /\ NewItem["checksum"] = IndexOf(published) + buffer.offset + buffer.size
    BY <1>1, <1>4, <1>8 DEF After, NewItem
  <2>2. items' = [items EXCEPT ![Target].checksum = IndexOf(published) + buffer.offset + buffer.size]
    BY <1>4, <2>1
  <2>3. items' \in [Slots -> ItemEntries]
    BY <1>1, <1>3, <1>t, <2>2 DEF WriterTypeOK, ItemEntries
  <2> QED BY <1>1, <1>4, <1>8, <1>t, <2>1, <2>2, <2>3 DEF WriterTypeOK
<1> QED BY <1>4, <1>5, <1>6, <1>7, <1>8

\* The stores into the table keep to the entry of the next item.
LEMMA StoreItemKeeps == ASSUME WriterInv, StoreItem PROVE WriterInv'
<1> USE Constants
<1>t. WriterTypeOK
  BY DEF WriterInv
<1>1. UNCHANGED <<control, payload, buffer, published, lap, reach>>
  BY DEF StoreItem
<1>2. /\ items' \in [Slots -> ItemEntries]
      /\ \A k \in Slots : k # Target => items'[k] = items[k] /\ tenant'[k] = tenant[k]
  BY StoreItemIs
<1>3. /\ lap \in Nat /\ published \in Nat /\ buffer.offset \in Nat /\ buffer.size \in Nat
      /\ control.nextFreeItemPayloadOffset \in Nat /\ buffer.offset >= PayloadOffset
      /\ Target \in Slots /\ Target' = Target /\ items[Target] \in ItemEntries
      /\ tenant[Target] \in Tenants
  <2>1. wpc \in Working
    BY DEF StoreItem, Working, Asking
  <2>2. Target \in Slots /\ Target' = Target
    BY <1>1, <1>t, WriterIndices DEF WriterTypeOK, WriterInv, ControlInv, Target
  <2> QED BY <1>t, <2>1, <2>2 DEF WriterTypeOK, Offsets, WriterInv, RoomInv
<1>4. LapStart' = LapStart /\ Distance(buffer.offset)' = Distance(buffer.offset)
  BY <1>1 DEF LapStart, Distance, LapOf
<1>5. Distance(buffer.offset) \in Nat /\ IndexOf(published) \in Nat
  <2>1. LapStart \in Nat
        /\ Distance(buffer.offset) = IF buffer.offset < control.nextFreeItemPayloadOffset
                                THEN LapStart + PayloadSize + buffer.offset - PayloadOffset
                                ELSE LapStart + buffer.offset - PayloadOffset
    BY <1>3, Laps
  <2> QED BY <1>3, <2>1, published \in Int, IndexType
<1>6. ASSUME NEW i \in Window' PROVE Intact(i)'
  <2>1. i \in Window /\ i \in Nat /\ SlotOf(i) \in Slots /\ SlotOf(i) # Target /\ Intact(i)
    BY <1>1, <1>3, WindowApart DEF Window, WriterInv
  <2> DEFINE k == SlotOf(i)
  <2> HIDE DEF k
  <2>2. items'[k] = items[k] /\ tenant'[k] = tenant[k]
    BY <1>2, <2>1 DEF k
  <2>3. Placed(k)' /\ Kept(i, tenant[k].start)' = Kept(i, tenant[k].start)
    BY <1>1, <1>4, <2>1, <2>2 DEF Placed, Kept, Intact, k
  <2> QED BY <1>1, <2>1, <2>2, <2>3, IntactFrame DEF k
<1>7. wpc' \in Asking /\ wpc \in Asking /\ ControlInv'
  BY <1>1, StoreItemIs DEF WriterInv, ControlInv, IndexOf, Asking
<1>8. RoomInv'
  BY <1>1, <1>4, <1>7 DEF WriterInv, RoomInv, Working, Asking, Moved
<1>9. TenantInv' /\ EntryInv' /\ WriterTypeOK'
  <2> DEFINE e == items[Target]
             f == items'[Target]
             low == buffer.offset
             size == buffer.size
  <2>1. \A u \in low .. low + size - 1 :
           wpc # "applied" => payload[u] = published
    BY <1>7 DEF WriterInv, EntryInv, Working
  <2>2. ASSUME NEW k \in Slots, k # Target
        PROVE  \/ tenant'[k].item = Zero /\ items'[k].index = 0 /\ published <= k
               \/ /\ tenant'[k].item \in Nat
                  /\ SlotOf(tenant'[k].item) = k
                  /\ published - MaxItemsNum <= tenant'[k].item /\ tenant'[k].item <= published
                  /\ items'[k].index = IndexOf(tenant'[k].item)
                  /\ items'[k].offset >= PayloadOffset
    BY <1>2, <2>2 DEF WriterInv, TenantInv
  <2>3. \/ tenant[Target].item = Zero /\ items[Target].index = 0 /\ published <= Target
        \/ /\ tenant[Target].item \in Nat
           /\ SlotOf(tenant[Target].item) = Target
           /\ published - MaxItemsNum <= tenant[Target].item /\ tenant[Target].item <= published
           /\ items[Target].index = IndexOf(tenant[Target].item)
           /\ items[Target].offset >= PayloadOffset
    BY <1>3 DEF WriterInv, TenantInv
  <2> DEFINE Fits ==
        \/ tenant'[Target].item = Zero /\ items'[Target].index = 0 /\ published <= Target
        \/ /\ tenant'[Target].item \in Nat
           /\ SlotOf(tenant'[Target].item) = Target
           /\ published - MaxItemsNum <= tenant'[Target].item /\ tenant'[Target].item <= published
           /\ items'[Target].index = IndexOf(tenant'[Target].item)
           /\ items'[Target].offset >= PayloadOffset
  <2>4. SUFFICES Fits /\ EntryInv' /\ tenant' \in [Slots -> Tenants]
    <3>1. ASSUME Fits, NEW k \in Slots
          PROVE  \/ tenant'[k].item = Zero /\ items'[k].index = 0 /\ published <= k
                 \/ /\ tenant'[k].item \in Nat
                    /\ SlotOf(tenant'[k].item) = k
                    /\ published - MaxItemsNum <= tenant'[k].item /\ tenant'[k].item <= published
                    /\ items'[k].index = IndexOf(tenant'[k].item)
                    /\ items'[k].offset >= PayloadOffset
      BY <2>2, <3>1
    <3>2. Fits => TenantInv'
      BY <1>1, <3>1 DEF TenantInv, SlotOf, IndexOf
    <3>3. tenant' \in [Slots -> Tenants] => WriterTypeOK'
      BY <1>1, <1>2, <1>7, <1>t DEF WriterTypeOK, Working
    <3> QED BY <3>2, <3>3
  <2>5. CASE wpc = "filled" /\ wpc' = "offset" /\ tenant' = tenant
             /\ f = [e EXCEPT !.offset = low]
    <3>1. f.offset = low /\ f.index = e.index
      BY <1>3, <2>5 DEF ItemEntries
    <3>2. Fits
      BY <1>3, <2>3, <2>5, <3>1
    <3>3. EntryInv'
      BY <1>1, <1>3, <1>4, <2>1, <2>5, <3>1 DEF EntryInv, Working, Asking, Moved
    <3> QED BY <2>5, <3>2, <3>3, <1>t DEF WriterTypeOK
  <2>6. CASE wpc = "offset" /\ wpc' = "size" /\ tenant' = tenant
             /\ f = [e EXCEPT !.size = size]
    <3>1. f.size = size /\ f.offset = low /\ e.offset = low /\ f.index = e.index
      BY <1>3, <2>6 DEF ItemEntries, WriterInv, EntryInv, Working, Asking
    <3>2. Fits
      BY <1>3, <2>3, <2>6, <3>1
    <3>3. EntryInv'
      BY <1>1, <1>3, <1>4, <2>1, <2>6, <3>1 DEF EntryInv, Working, Asking, Moved
    <3> QED BY <2>6, <3>2, <3>3, <1>t DEF WriterTypeOK
  <2>7. CASE wpc = "size" /\ wpc' = "index" /\ f = [e EXCEPT !.index = IndexOf(published)]
             /\ tenant' = [tenant EXCEPT ![Target] =
                             [item |-> published, start |-> Distance(buffer.offset)]]
    <3>1. f.size = size /\ f.offset = low /\ f.index = IndexOf(published)
      BY <1>3, <2>7 DEF ItemEntries, WriterInv, EntryInv, Working, Asking
    <3>2. tenant'[Target].item = published /\ tenant'[Target].start = Distance(low)
          /\ tenant' \in [Slots -> Tenants]
      BY <1>3, <1>5, <1>t, <2>7 DEF WriterTypeOK, Tenants, Content
    <3>3. Fits
      BY <1>3, <3>1, <3>2 DEF Target
    <3>4. EntryInv'
      BY <1>1, <1>3, <1>4, <2>1, <2>7, <3>1, <3>2 DEF EntryInv, Working, Asking, Moved, IndexOf
    <3> QED BY <3>2, <3>3, <3>4
  <2>8. CASE wpc = "index" /\ wpc' = "checksum" /\ tenant' = tenant
             /\ f = [e EXCEPT !.checksum = IndexOf(published) + low + size]
    <3>1. /\ f.size = size /\ f.offset = low /\ f.index = IndexOf(published)
          /\ f.checksum = IndexOf(published) + low + size
          /\ e.offset = low /\ e.index = IndexOf(published)
          /\ tenant[Target].item = published /\ tenant[Target].start = Distance(low)
      BY <1>3, <2>8 DEF ItemEntries, WriterInv, EntryInv, Working, Asking
    <3>2. Fits
      BY <1>3, <2>3, <2>8, <3>1
    <3>3. EntryInv'
      BY <1>1, <1>3, <1>4, <2>1, <2>8, <3>1 DEF EntryInv, Working, Asking, Moved, IndexOf
    <3> QED BY <2>8, <3>2, <3>3, <1>t DEF WriterTypeOK
  <2> QED BY <2>5, <2>6, <2>7, <2>8, StoreItemIs
<1> QED BY <1>6, <1>7, <1>8, <1>9 DEF WriterInv

\* What the three stores into the control block before the last write.
LEMMA StoreControlIs ==
    ASSUME WriterInv, StoreControl
    PROVE  /\ control' \in [nextFreeItemIndex : Indices, lastFilledItemIndex : Indices,
                            itemIndexChecksum : Nat, nextFreeItemPayloadOffset : Offsets]
           /\ control'.nextFreeItemIndex = IndexOf(published)
           /\ \/ /\ wpc = "checksum" /\ wpc' = "nextFreeItemPayloadOffset"
                 /\ lap' = LapOf(buffer.offset)
                 /\ control'.nextFreeItemPayloadOffset = buffer.offset + buffer.size
                 /\ control'.lastFilledItemIndex = control.lastFilledItemIndex
              \/ /\ wpc = "nextFreeItemPayloadOffset" /\ wpc' = "lastFilledItemIndex" /\ lap' = lap
                 /\ control'.lastFilledItemIndex = IndexOf(published)
                 /\ control'.nextFreeItemPayloadOffset = control.nextFreeItemPayloadOffset
              \/ /\ wpc = "lastFilledItemIndex" /\ wpc' = "itemIndexChecksum" /\ lap' = lap
                 /\ control'.lastFilledItemIndex = control.lastFilledItemIndex
                 /\ control'.nextFreeItemPayloadOffset = control.nextFreeItemPayloadOffset
<1> USE Constants
<1>t. WriterTypeOK
  BY DEF WriterInv
<1>1. /\ FreeIndex = IndexOf(published) /\ NextIndex = IndexOf(published + 1)
      /\ control.nextFreeItemIndex = IndexOf(published)
  BY WriterIndices DEF WriterInv, WriterTypeOK, ControlInv
<1>2. /\ IndexOf(published) \in Indices /\ IndexOf(published) \in Nat
      /\ IndexOf(published + 1) \in Nat
  BY <1>t, published \in Int, published + 1 \in Int, IndexType DEF WriterTypeOK
<1>3. buffer.offset + buffer.size \in Offsets
  BY <1>t DEF WriterTypeOK, Offsets
<1>4. /\ control' = [control EXCEPT ![wpc'] = NewControl[wpc']]
      /\ lap' = IF wpc = "checksum" THEN LapOf(buffer.offset) ELSE lap
      /\ wpc' = After[wpc]
      /\ wpc \in {"checksum", "nextFreeItemPayloadOffset", "lastFilledItemIndex"}
  BY DEF StoreControl
<1>5. CASE wpc = "checksum"
  <2>1. /\ wpc' = "nextFreeItemPayloadOffset"
        /\ NewControl["nextFreeItemPayloadOffset"] = buffer.offset + buffer.size
    BY <1>4, <1>5 DEF After, NewControl
  <2>2. control' = [control EXCEPT !.nextFreeItemPayloadOffset = buffer.offset + buffer.size]
    BY <1>4, <2>1
  <2> QED BY <1>1, <1>3, <1>4, <1>5, <1>t, <2>1, <2>2 DEF WriterTypeOK
<1>6. CASE wpc = "nextFreeItemPayloadOffset"
  <2>1. /\ wpc' = "lastFilledItemIndex" /\ NewControl["lastFilledItemIndex"] = IndexOf(published)
    BY <1>1, <1>4, <1>6 DEF After, NewControl
  <2>2. control' = [control EXCEPT !.lastFilledItemIndex = IndexOf(published)]
    BY <1>4, <2>1
  <2> QED BY <1>1, <1>2, <1>4, <1>6, <1>t, <2>1, <2>2 DEF WriterTypeOK
<1>7. CASE wpc = "lastFilledItemIndex"
  <2>1. /\ wpc' = "itemIndexChecksum"
        /\ NewControl["itemIndexChecksum"] = IndexOf(published + 1) + IndexOf(published)
    BY <1>1, <1>4, <1>7 DEF After, NewControl
  <2>2. control' = [control EXCEPT !.itemIndexChecksum = IndexOf(published + 1) + IndexOf(published)]
    BY <1>4, <2>1
  <2> QED BY <1>1, <1>2, <1>4, <1>7, <1>t, <2>1, <2>2 DEF WriterTypeOK
<1> QED BY <1>4, <1>5, <1>6, <1>7

\* The free offset moves behind the new item, perhaps into the next lap: the
\* items before it stay where they were placed.
LEMMA StoreControlKeeps == ASSUME WriterInv, StoreControl PROVE WriterInv'
<1> USE Constants
<1>t. WriterTypeOK
  BY DEF WriterInv
<1>1. UNCHANGED <<items, payload, buffer, published, tenant, reach>>
  BY DEF StoreControl
<1> DEFINE off == control.nextFreeItemPayloadOffset
           low == buffer.offset
           size == buffer.size
<1>2. wpc \in Working /\ wpc' \in Moved
  BY StoreControlIs DEF Working, Asking, Moved
<1>3. /\ lap \in Nat /\ reach \in Nat /\ published \in Nat /\ off \in Nat
      /\ low \in Nat /\ size \in Nat /\ low >= PayloadOffset /\ size > 0
      /\ LapStart \in Nat
  BY <1>2, <1>t, Laps DEF WriterTypeOK, Offsets, WriterInv, RoomInv
<1>4. \/ lap' = lap /\ LapStart' = LapStart
         /\ (control'.nextFreeItemPayloadOffset = off
                \/ (low >= off /\ control'.nextFreeItemPayloadOffset = low + size))
      \/ /\ lap' = lap + 1 /\ LapStart' = LapStart + PayloadSize
         /\ low < off /\ control'.nextFreeItemPayloadOffset = low + size
  BY <1>3, Laps, StoreControlIs DEF LapOf
<1>5. WriterTypeOK'
  <2>1. lap' \in Nat
    BY <1>3, <1>4
  <2> QED BY <1>1, <1>2, <1>t, <2>1, StoreControlIs DEF WriterTypeOK, Working
<1>6. ControlInv' /\ TenantInv'
  BY <1>1, <1>3, StoreControlIs DEF WriterInv, ControlInv, TenantInv, IndexOf
<1>7. ASSUME wpc = "checksum" PROVE RoomInv' /\ EntryInv'
  <2>1. /\ wpc' = "nextFreeItemPayloadOffset" /\ lap' = LapOf(low)
        /\ control'.nextFreeItemPayloadOffset = low + size
    BY <1>7, StoreControlIs
  <2>2. Distance(low) = LapStart' + low - PayloadOffset
    BY <2>1, <1>3 DEF Distance, LapStart
  <2>3. /\ reach >= Distance(low) + size /\ tenant[Target].start = Distance(low)
        /\ items[Target].offset = low /\ items[Target].size = size
        /\ items[Target].index = IndexOf(published) /\ tenant[Target].item = published
        /\ items[Target].checksum = items[Target].index + items[Target].offset + items[Target].size
        /\ \A u \in low .. low + size - 1 : payload[u] = published
    BY <1>7 DEF WriterInv, RoomInv, EntryInv, Working, Asking
  <2>4. RoomInv' /\ EntryInv'
    BY <1>1, <1>3, <2>1, <2>2, <2>3 DEF RoomInv, EntryInv, Working, Asking, Moved, Target, SlotOf,
                                        IndexOf
  <2> QED BY <2>4
<1>8. ASSUME wpc \in Moved PROVE RoomInv' /\ EntryInv'
  <2>1. /\ lap' = lap /\ LapStart' = LapStart
        /\ control'.nextFreeItemPayloadOffset = off
    BY <1>8, <1>1, Laps, <1>3, StoreControlIs DEF Moved
  <2>2. RoomInv'
    BY <1>1, <1>2, <1>8, <2>1 DEF WriterInv, RoomInv, Working, Asking, Moved
  <2>3. EntryInv'
    BY <1>1, <1>2, <1>8, <2>1 DEF WriterInv, EntryInv, Working, Asking, Moved, Target, SlotOf, IndexOf
  <2> QED BY <2>2, <2>3
<1>9. RoomInv' /\ EntryInv'
  BY <1>7, <1>8, StoreControlIs DEF Moved
<1>10. ASSUME NEW i \in Window' PROVE Intact(i)'
  <2>1. i \in Window /\ i \in Nat /\ SlotOf(i) \in Slots /\ Intact(i)
    BY <1>1, <1>3, WindowApart DEF Window, WriterInv
  <2> DEFINE k == SlotOf(i)
  <2> HIDE DEF k
  <2>2. items[k].offset \in Nat /\ items[k].size \in Nat /\ tenant[k].start \in Nat
    BY <1>t, <2>1 DEF WriterTypeOK, ItemEntries, Tenants, Offsets, k
  <2>3. Placed(k)
    BY <2>1 DEF Intact, k
  <2>4. Placed(k)'
    <3> DEFINE gap == items[k].offset - PayloadOffset
    <3>1. \/ tenant[k].start = LapStart + gap /\ items[k].offset + items[k].size <= off
          \/ tenant[k].start + PayloadSize <= LapStart + gap
      BY <2>3 DEF Placed
    <3>2. gap \in Int
      BY <2>2
    <3> HIDE DEF gap, off, low, size
    <3>3. \/ /\ tenant[k].start = LapStart' + gap
             /\ items[k].offset + items[k].size <= control'.nextFreeItemPayloadOffset
          \/ tenant[k].start + PayloadSize <= LapStart' + gap
      BY <1>3, <1>4, <2>2, <3>1, <3>2
    <3> QED BY <1>1, <3>3 DEF Placed, gap
  <2>5. Kept(i, tenant[k].start)' = Kept(i, tenant[k].start)
    BY <1>1 DEF Kept
  <2> QED BY <1>1, <2>1, <2>4, <2>5, IntactFrame DEF k
<1> QED BY <1>5, <1>6, <1>9, <1>10 DEF WriterInv

\* The last store publishes: the new item joins the window, whole.
LEMMA PublishKeeps == ASSUME WriterInv, Publish PROVE WriterInv'
<1> USE Constants
<1>t. WriterTypeOK
  BY DEF WriterInv
<1>1. /\ UNCHANGED <<items, payload, tenant, lap, reach>>
      /\ wpc = "itemIndexChecksum" /\ wpc' = "idle" /\ buffer' = NoRoom
      /\ published' = published + 1
      /\ control' = [control EXCEPT !.nextFreeItemIndex = NextIndex]
  BY DEF Publish
<1>2. /\ published \in Nat /\ reach \in Nat /\ LapStart' = LapStart /\ LapStart \in Nat
      /\ control.nextFreeItemPayloadOffset \in Nat
  BY <1>1, <1>t, Laps DEF WriterTypeOK, Offsets
<1>3. NextIndex = IndexOf(published + 1) /\ Target \in Slots
  BY <1>2, WriterIndices DEF WriterInv, ControlInv
<1>4. /\ IndexOf(published + 1) \in Indices
      /\ control' \in [nextFreeItemIndex : Indices, lastFilledItemIndex : Indices,
                       itemIndexChecksum : Nat, nextFreeItemPayloadOffset : Offsets]
      /\ control'.nextFreeItemIndex = IndexOf(published + 1)
      /\ control'.lastFilledItemIndex = control.lastFilledItemIndex
      /\ control'.nextFreeItemPayloadOffset = control.nextFreeItemPayloadOffset
  <2>1. IndexOf(published + 1) \in Indices
    BY <1>2, published + 1 \in Int, IndexType
  <2> QED BY <1>1, <1>3, <1>t, <2>1 DEF WriterTypeOK
<1>5. WriterTypeOK'
  BY <1>1, <1>2, <1>4, <1>t DEF WriterTypeOK, NoRoom, Offsets
<1>6. /\ control.nextFreeItemPayloadOffset = buffer.offset + buffer.size
      /\ control.lastFilledItemIndex = IndexOf(published)
      /\ buffer.offset \in Nat /\ buffer.size \in Nat /\ buffer.offset >= PayloadOffset
      /\ buffer.size > 0 /\ buffer.offset + buffer.size <= End
      /\ tenant[Target].item = published
      /\ tenant[Target].start = LapStart + buffer.offset - PayloadOffset
      /\ items[Target].offset = buffer.offset /\ items[Target].size = buffer.size
      /\ items[Target].index = IndexOf(published)
      /\ items[Target].checksum = items[Target].index + items[Target].offset + items[Target].size
      /\ \A u \in buffer.offset .. buffer.offset + buffer.size - 1 : payload[u] = published
  BY <1>1, <1>t DEF WriterInv, WriterTypeOK, Offsets, ControlInv, RoomInv, EntryInv, Working, Asking,
                    Moved
<1>7. ControlInv'
  BY <1>1, <1>2, <1>4, <1>6, published' - 1 = published DEF ControlInv, IndexOf
<1>8. RoomInv' /\ EntryInv'
  BY <1>1 DEF RoomInv, EntryInv, Working, Asking, Moved
<1>9. TenantInv'
  <2> SUFFICES ASSUME NEW k \in Slots
               PROVE  \/ tenant'[k].item = Zero /\ items'[k].index = 0 /\ published' <= k
                      \/ /\ tenant'[k].item \in Nat
                         /\ SlotOf(tenant'[k].item) = k
                         /\ published' - MaxItemsNum <= tenant'[k].item
                         /\ tenant'[k].item <= published'
                         /\ items'[k].index = IndexOf(tenant'[k].item)
                         /\ items'[k].offset >= PayloadOffset
    BY DEF TenantInv, SlotOf, IndexOf, MaxItemIndex
  <2>0. items' = items /\ tenant' = tenant /\ published' = published + 1 /\ published' \in Nat
    BY <1>1, <1>2
  <2>1. CASE k = Target
    BY <1>2, <1>6, <2>0, <2>1 DEF Target
  <2>2. CASE k # Target
    <3>1. CASE tenant[k].item = Zero /\ items[k].index = 0 /\ published <= k
      <4>1. published # k
        BY <1>2, <2>2, published \in 0 .. MaxItemsNum - 1 => published % MaxItemsNum = published,
           ModSmall DEF Target, SlotOf, Slots
      <4> QED BY <1>2, <2>0, <3>1, <4>1 DEF Slots
    <3>2. CASE /\ tenant[k].item \in Nat /\ SlotOf(tenant[k].item) = k
               /\ published - MaxItemsNum <= tenant[k].item /\ tenant[k].item <= published
               /\ items[k].index = IndexOf(tenant[k].item)
               /\ items[k].offset >= PayloadOffset
      <4> DEFINE j == tenant[k].item
      <4> HIDE DEF j
      <4>1. j # published - MaxItemsNum
        <5> SUFFICES ASSUME j = published - MaxItemsNum PROVE FALSE
          OBVIOUS
        <5>1. published = j + MaxItemsNum * 1 /\ j \in Int
          BY <3>2, <1>2 DEF j
        <5>2. (j + MaxItemsNum * 1) % MaxItemsNum = j % MaxItemsNum
          BY <5>1, 1 \in Int, ModShift
        <5> QED BY <5>1, <5>2, <2>2, <3>2 DEF Target, SlotOf, j
      <4> QED BY <1>2, <2>0, <3>2, <4>1 DEF j
    <3> QED BY <3>1, <3>2 DEF WriterInv, TenantInv
  <2> QED BY <2>1, <2>2
<1>10. ASSUME NEW i \in Window' PROVE Intact(i)'
  <2>1. i \in Nat /\ (i \in Window \/ i = published)
    BY <1>1, <1>2 DEF Window
  <2>2. CASE i = published
    <3>1. Intact(i)
      BY <2>2, <1>2, <1>6 DEF Intact, Placed, Target
    <3>2. Placed(SlotOf(i))' = Placed(SlotOf(i))
      BY <1>1, <1>2, <1>4 DEF Placed
    <3>3. Kept(i, tenant[SlotOf(i)].start)' => Kept(i, tenant[SlotOf(i)].start)
      BY <1>1, <1>2, <2>1 DEF Kept
    <3> QED BY <1>1, <2>1, <3>1, <3>2, <3>3, IntactFrame DEF Intact
  <2>3. CASE i \in Window
    <3>1. Intact(i)
      BY <2>3 DEF WriterInv
    <3>2. Placed(SlotOf(i))' = Placed(SlotOf(i))
      BY <1>1, <1>2, <1>4 DEF Placed
    <3>3. Kept(i, tenant[SlotOf(i)].start)' => Kept(i, tenant[SlotOf(i)].start)
      BY <1>1, <1>2, <2>1 DEF Kept
    <3> QED BY <1>1, <2>1, <3>1, <3>2, <3>3, IntactFrame DEF Intact
  <2> QED BY <2>1, <2>2, <2>3
<1> QED BY <1>5, <1>7, <1>8, <1>9, <1>10 DEF WriterInv

\* A reader's step leaves the segment to the writer.
LEMMA ReaderReads ==
    ASSUME NEW r \in Readers, ReaderStep(r) \/ Seek(r)
    PROVE  UNCHANGED writerVars
BY DEF ReaderStep, Seek, LoadNext, LoadLast, LoadControlChecksum, LoadIndex, LoadOffset, LoadSize,
       RefuseItem, PollReadDataWithoutIndexStep, Read, PollReadHead, ReadNoStep, Accept, UsePayload,
       Release, SeekReadIndex2WriteIndex, SeekReadIndex2Zero, SeekReadIndex, SeekTo

LEMMA WriterNext == WriterInv /\ [Next]_vars => WriterInv'
<1> SUFFICES ASSUME WriterInv, [Next]_vars PROVE WriterInv'
  OBVIOUS
<1>1. CASE Abandon \/ Crash \/ Reattach
  BY <1>1, WriterPauses DEF Abandon, Crash, Reattach
<1>2. CASE UNCHANGED writerVars
  BY <1>2 DEF writerVars, WriterInv, WriterTypeOK, ControlInv, RoomInv, EntryInv, TenantInv, Window,
              Intact, Placed, Kept, LapStart, Distance, LapOf, Target
<1> QED
  BY <1>1, <1>2, ApplyKeeps, FillKeeps, StoreItemKeeps, StoreControlKeeps, PublishKeeps, ReaderReads
     DEF Next, Writer, vars

\* The last MaxItemsNum - 1 items have their entries, and those the writer has
\* not come round to their payload, between any two stores and after any crash.
THEOREM HistoryStaysIntact == Spec => []HistoryIntact
<1>1. WriterInv => HistoryIntact
  BY DEF WriterInv, Intact, HistoryIntact
<1> QED BY WriterInit, WriterNext, <1>1, PTL DEF Spec

-----------------------------------------------------------------------------
(***************************************************************************)
(* The readers' side.                                                      *)
(***************************************************************************)

Believing == {"index", "offset", "size"}

Places == {"idle", "next", "last", "position", "holding"} \cup Believing
Words == [next : Indices, last : Indices, position : Indices, index : Indices,
          offset : Offsets, size : 0 .. PayloadSize, item : Content, start : Nat, early : BOOLEAN]
Loans == [item : Content, start : Nat, early : BOOLEAN, offset : Offsets,
          size : 0 .. PayloadSize, body : SUBSET Content]

ReaderTypeOK(r) ==
    /\ nextReadingIndex[r] \in Indices \cup {Newest}
    /\ rpc[r] \in Places
    /\ seen[r] \in Words
    /\ took[r] \in Loans
    /\ took[r].offset + took[r].size <= End
    /\ position[r] \in Nat

\* Every handle has its own variables.
ReaderShape ==
    /\ nextReadingIndex = [r \in Readers |-> nextReadingIndex[r]]
    /\ rpc = [r \in Readers |-> rpc[r]]
    /\ seen = [r \in Readers |-> seen[r]]
    /\ took = [r \in Readers |-> took[r]]
    /\ position = [r \in Readers |-> position[r]]

\* Where a handle stands: the wrapped index is that of the absolute one, which
\* may be one past the item the writer is committing.
PositionInv(r) ==
    /\ position[r] <= published + 1
    /\ nextReadingIndex[r] # Newest => nextReadingIndex[r] = IndexOf(position[r])
    /\ nextReadingIndex[r] = Newest => position[r] = 0 \/ position[r] < published

\* The item a call looks for is not one the reader has come past.
AheadInv(r) ==
    /\ rpc[r] \in {"next", "last"} /\ seen[r].next # 0 => published > 0
    /\ rpc[r] = "last" /\ seen[r].last # 0 => published > 0
    /\ rpc[r] = "last" /\ nextReadingIndex[r] = Newest =>
          \E item \in position[r] .. published : seen[r].last = IndexOf(item)
    /\ rpc[r] \in {"position"} \cup Believing =>
          /\ published > 0
          /\ \E item \in position[r] .. published + 1 : seen[r].position = IndexOf(item)

\* What the loads of an entry say while the item is kept: the writer does not
\* touch the entry between them.
SeenInv(r) ==
    rpc[r] \in Believing =>
        /\ seen[r].item = Zero => seen[r].index # seen[r].position
        /\ seen[r].item # Zero =>
              /\ seen[r].item <= published
              /\ ~seen[r].early => seen[r].item < published
              /\ SlotOf(seen[r].item) = Entry(r)
              /\ seen[r].index = IndexOf(seen[r].item)
              /\ seen[r].index = seen[r].position => position[r] <= seen[r].item
        /\ (~seen[r].early /\ seen[r].item # Zero /\ Kept(seen[r].item, seen[r].start)) =>
              /\ tenant[Entry(r)].start = seen[r].start
              /\ rpc[r] \in {"offset", "size"} => seen[r].offset = items[Entry(r)].offset
              /\ rpc[r] = "size" => seen[r].size = items[Entry(r)].size

\* What a caller holds.
TookInv(r) ==
    /\ rpc[r] # "holding" => took[r] = Nothing
    /\ rpc[r] = "holding" =>
          /\ took[r].item \in Nat /\ took[r].item <= published
          /\ took[r].offset >= PayloadOffset
          /\ ~took[r].early => took[r].item < published
          /\ (~took[r].early /\ Kept(took[r].item, took[r].start)) =>
                /\ tenant[SlotOf(took[r].item)].start = took[r].start
                /\ took[r].offset = items[SlotOf(took[r].item)].offset
                /\ took[r].size = items[SlotOf(took[r].item)].size
                /\ took[r].body # {} => took[r].body = {took[r].item}

ReaderInv(r) ==
    /\ ReaderTypeOK(r)
    /\ PositionInv(r)
    /\ AheadInv(r)
    /\ SeenInv(r)
    /\ TookInv(r)

RingInv ==
    /\ WriterInv
    /\ ReaderShape
    /\ \A r \in Readers : ReaderInv(r)

-----------------------------------------------------------------------------
(***************************************************************************)
(* What one step does to a reader that does not take it.                   *)
(***************************************************************************)

LEMMA RingInit == Init => RingInv
<1> SUFFICES ASSUME Init PROVE RingInv
  OBVIOUS
<1> USE Constants
<1>1. WriterInv /\ IndexOf(0) = 0 /\ 0 \in Indices /\ 0 \in Offsets
  BY WriterInit, 0 \in 0 .. MaxItemIndex - 1, ModSmall DEF IndexOf, Indices, Offsets
<1>2. ReaderShape
  BY DEF Init, ReaderShape
<1>3. ASSUME NEW r \in Readers PROVE ReaderInv(r)
  <2>1. /\ nextReadingIndex[r] = 0 /\ rpc[r] = "idle" /\ seen[r] = NoRead /\ took[r] = Nothing
        /\ position[r] = 0 /\ published = 0
    BY DEF Init
  <2>2. ReaderTypeOK(r)
    BY <1>1, <2>1 DEF ReaderTypeOK, Places, Words, Loans, NoRead, Nothing, Content, Zero
  <2> QED
    BY <1>1, <2>1, <2>2 DEF ReaderInv, PositionInv, AheadInv, SeenInv, TookInv, Believing, Newest
<1> QED BY <1>1, <1>2, <1>3 DEF RingInv

\* The writer only goes forward, and changes one entry of the table.
LEMMA WriterMonotone ==
    ASSUME WriterInv, [Next]_vars
    PROVE  /\ published' = published \/ published' = published + 1
           /\ reach' = reach \/ (reach' \in Nat /\ reach' >= reach)
           /\ \A k \in Slots : k # Target => items'[k] = items[k] /\ tenant'[k] = tenant[k]
<1>t. published \in Nat /\ reach \in Nat /\ items \in [Slots -> ItemEntries]
      /\ tenant \in [Slots -> Tenants]
  BY DEF WriterInv, WriterTypeOK
<1>1. CASE UNCHANGED <<items, tenant, published, reach>>
  BY <1>1
<1>2. CASE Apply
  <2>1. UNCHANGED <<items, tenant, published>>
    BY <1>2 DEF Apply
  <2>2. PICK d : reach' = Max2(reach, d)
    BY <1>2 DEF Apply
  <2>3. reach' = reach \/ (reach' \in Nat /\ reach' >= reach)
    BY WriterInv, WriterNext, <1>t, <2>2 DEF WriterInv, WriterTypeOK, Max2
  <2> QED BY <2>1, <2>3
<1>3. CASE StoreItem
  <2>1. FreeIndex % MaxItemsNum = Target
    BY <1>t, WriterIndices DEF WriterInv, ControlInv
  <2>2. /\ published' = published /\ reach' = reach
        /\ items' = [items EXCEPT ![Target][wpc'] = NewItem[wpc']]
        /\ tenant' = tenant
           \/ tenant' = [tenant EXCEPT ![Target] =
                           [item |-> published, start |-> Distance(buffer.offset)]]
    BY <1>3, <2>1 DEF StoreItem
  <2> QED BY <1>t, <2>2
<1>4. CASE Publish
  BY <1>4 DEF Publish
<1> QED
  BY <1>1, <1>2, <1>3, <1>4, ReaderReads
     DEF Next, Writer, vars, writerVars, Fill, Abandon, StoreControl, Crash, Reattach

\* An item published before its entry was read keeps entry and place for as
\* long as it counts as kept.
LEMMA KeptStays ==
    ASSUME WriterInv, [Next]_vars, NEW i \in Nat, i < published, NEW s \in Nat,
           published' - i < MaxItemsNum, reach' - s <= PayloadSize
    PROVE  /\ Kept(i, s) /\ i \in Window
           /\ items'[SlotOf(i)] = items[SlotOf(i)] /\ tenant'[SlotOf(i)] = tenant[SlotOf(i)]
<1>1. published \in Nat /\ reach \in Nat
  BY DEF WriterInv, WriterTypeOK
<1>2. published - i < MaxItemsNum /\ reach - s <= PayloadSize
  BY <1>1, WriterMonotone, Constants
<1>3. i \in Window
  BY <1>1, <1>2, Constants DEF Window
<1> QED BY <1>1, <1>2, <1>3, WindowApart, WriterMonotone DEF Kept

\* Whatever others do, a reader's claims about the segment stay true.
LEMMA ReaderFrame ==
    ASSUME WriterInv, [Next]_vars, NEW r \in Readers, ReaderInv(r),
           nextReadingIndex'[r] = nextReadingIndex[r], rpc'[r] = rpc[r], seen'[r] = seen[r],
           took'[r] = took[r], position'[r] = position[r]
    PROVE  ReaderInv(r)'
<1> USE Constants
<1>t. ReaderTypeOK(r)
  BY DEF ReaderInv
<1>1. /\ published \in Nat
      /\ published' = published \/ published' = published + 1
  BY WriterMonotone DEF WriterInv, WriterTypeOK
<1>2. ReaderTypeOK(r)'
  BY <1>t DEF ReaderTypeOK
<1>3. PositionInv(r)'
  BY <1>1, <1>t DEF ReaderInv, PositionInv, ReaderTypeOK, IndexOf, MaxItemIndex
<1>4. AheadInv(r)'
  BY <1>1, <1>t DEF ReaderInv, AheadInv, ReaderTypeOK, IndexOf, MaxItemIndex
<1>5. SeenInv(r)'
  <2> SUFFICES ASSUME rpc[r] \in Believing PROVE SeenInv(r)'
    BY DEF SeenInv
  <2>1. Entry(r)' = Entry(r)
    BY DEF Entry
  <2>2. /\ seen[r].item = Zero => seen[r].index # seen[r].position
        /\ seen[r].item # Zero =>
              /\ seen[r].item <= published
              /\ ~seen[r].early => seen[r].item < published
              /\ SlotOf(seen[r].item) = Entry(r)
              /\ seen[r].index = IndexOf(seen[r].item)
              /\ seen[r].index = seen[r].position => position[r] <= seen[r].item
    BY DEF ReaderInv, SeenInv
  <2>3. seen[r].item \in Content /\ seen[r].start \in Nat
    BY <1>t DEF ReaderTypeOK, Words
  <2>4. seen[r].item # Zero => seen[r].item \in Nat
    BY <2>3 DEF Content
  <2>5. ASSUME ~seen[r].early, seen[r].item # Zero, Kept(seen[r].item, seen[r].start)'
        PROVE  /\ tenant'[Entry(r)].start = seen[r].start
               /\ rpc[r] \in {"offset", "size"} => seen[r].offset = items'[Entry(r)].offset
               /\ rpc[r] = "size" => seen[r].size = items'[Entry(r)].size
    <3> DEFINE i == seen[r].item
               s == seen[r].start
    <3>1. /\ i \in Nat /\ s \in Nat /\ i < published /\ SlotOf(i) = Entry(r)
          /\ published' - i < MaxItemsNum /\ reach' - s <= PayloadSize
      BY <2>2, <2>3, <2>4, <2>5 DEF Kept
    <3> HIDE DEF i, s
    <3>2. /\ Kept(i, s) /\ items'[Entry(r)] = items[Entry(r)]
          /\ tenant'[Entry(r)] = tenant[Entry(r)]
      BY <3>1, KeptStays
    <3> QED BY <2>5, <3>2 DEF ReaderInv, SeenInv, i, s
  <2>6. seen[r].item # Zero => seen[r].item <= published'
                               /\ (~seen[r].early => seen[r].item < published')
    BY <1>1, <2>2, <2>4
  <2> QED BY <2>1, <2>2, <2>5, <2>6 DEF SeenInv, SlotOf, IndexOf, MaxItemIndex, Kept
<1>6. TookInv(r)'
  <2>1. CASE rpc[r] # "holding"
    BY <2>1 DEF ReaderInv, TookInv, Nothing, Zero
  <2>2. CASE rpc[r] = "holding"
    <3> DEFINE i == took[r].item
               s == took[r].start
    <3>1. /\ i \in Nat /\ i <= published /\ took[r].offset >= PayloadOffset
          /\ ~took[r].early => i < published
          /\ (~took[r].early /\ Kept(i, s)) =>
                /\ tenant[SlotOf(i)].start = s
                /\ took[r].offset = items[SlotOf(i)].offset
                /\ took[r].size = items[SlotOf(i)].size
                /\ took[r].body # {} => took[r].body = {i}
          /\ s \in Nat
      BY <1>t, <2>2 DEF ReaderInv, TookInv, ReaderTypeOK, Loans
    <3> HIDE DEF i, s
    <3>2. i <= published' /\ (~took[r].early => i < published')
      BY <1>1, <3>1
    <3>3. ASSUME ~took[r].early, Kept(i, s)'
          PROVE  /\ tenant'[SlotOf(i)].start = s
                 /\ took[r].offset = items'[SlotOf(i)].offset
                 /\ took[r].size = items'[SlotOf(i)].size
                 /\ took[r].body # {} => took[r].body = {i}
      <4>1. /\ i \in Nat /\ s \in Nat /\ i < published
            /\ published' - i < MaxItemsNum /\ reach' - s <= PayloadSize
        BY <3>1, <3>3 DEF Kept, i, s
      <4>2. /\ Kept(i, s) /\ items'[SlotOf(i)] = items[SlotOf(i)]
            /\ tenant'[SlotOf(i)] = tenant[SlotOf(i)]
        BY <4>1, KeptStays
      <4> QED BY <3>1, <3>3, <4>2
    <3> QED BY <2>2, <3>1, <3>2, <3>3 DEF TookInv, SlotOf, Kept, i, s
  <2> QED BY <2>1, <2>2
<1> QED BY <1>2, <1>3, <1>4, <1>5, <1>6 DEF ReaderInv

-----------------------------------------------------------------------------
(***************************************************************************)
(* A reader's own steps.                                                   *)
(***************************************************************************)

\* A step of one handle leaves the variables of every other alone.
LEMMA OneReader ==
    ASSUME ReaderShape, NEW r \in Readers, ReaderStep(r) \/ Seek(r)
    PROVE  /\ ReaderShape'
           /\ \A q \in Readers \ {r} :
                 /\ nextReadingIndex'[q] = nextReadingIndex[q] /\ rpc'[q] = rpc[q]
                 /\ seen'[q] = seen[q] /\ took'[q] = took[q] /\ position'[q] = position[q]
<1> USE DEF ReaderStep, Seek, LoadNext, LoadLast, LoadControlChecksum, LoadIndex, LoadOffset, LoadSize,
            RefuseItem, PollReadDataWithoutIndexStep, Read, PollReadHead, ReadNoStep, Accept,
            UsePayload, Release, SeekReadIndex2WriteIndex, SeekReadIndex2Zero, SeekReadIndex, SeekTo,
            Load, GiveUp
<1>1. nextReadingIndex' = nextReadingIndex
      \/ \E v : nextReadingIndex' = [nextReadingIndex EXCEPT ![r] = v]
  OBVIOUS
<1>2. rpc' = rpc \/ \E v : rpc' = [rpc EXCEPT ![r] = v]
  OBVIOUS
<1>3. seen' = seen \/ \E v : seen' = [seen EXCEPT ![r] = v]
  OBVIOUS
<1>4. took' = took \/ \E v : took' = [took EXCEPT ![r] = v]
  OBVIOUS
<1>5. position' = position \/ \E v : position' = [position EXCEPT ![r] = v]
  OBVIOUS
<1> QED BY <1>1, <1>2, <1>3, <1>4, <1>5 DEF ReaderShape

\* The loads of the control block and the check on them: the item the call
\* looks for is the reader's next one, or at most one not yet published.
LEMMA ControlLoadsKeep ==
    ASSUME RingInv, NEW r \in Readers, LoadNext(r) \/ LoadLast(r) \/ LoadControlChecksum(r)
    PROVE  ReaderInv(r)'
<1> USE Constants
<1>t. /\ ReaderTypeOK(r) /\ PositionInv(r) /\ AheadInv(r) /\ TookInv(r)
      /\ published \in Nat /\ control.nextFreeItemIndex \in Indices
      /\ control.lastFilledItemIndex \in Indices
  BY DEF RingInv, ReaderInv, WriterInv, WriterTypeOK
<1>z. IndexOf(0) = 0
  BY 0 \in 0 .. MaxItemIndex - 1, ModSmall DEF IndexOf
<1>1. /\ nextReadingIndex' = nextReadingIndex /\ took' = took /\ position' = position
      /\ published' = published
  BY DEF LoadNext, LoadLast, LoadControlChecksum, Load, GiveUp, writerVars
<1>2. PositionInv(r)'
  BY <1>t, <1>1 DEF PositionInv, IndexOf, MaxItemIndex
<1>3. rpc[r] # "holding" /\ took[r] = Nothing /\ rpc'[r] # "holding"
      /\ rpc'[r] \in {"idle", "next", "last", "position"}
  BY <1>t DEF LoadNext, LoadLast, LoadControlChecksum, Load, GiveUp, RingInv, ReaderShape, TookInv
<1>4. TookInv(r)' /\ SeenInv(r)'
  BY <1>1, <1>3 DEF TookInv, SeenInv, Believing, Nothing, Zero
<1>5. seen'[r] \in Words /\ AheadInv(r)'
  <2>1. CASE LoadNext(r)
    <3>1. /\ rpc'[r] = "next" /\ seen'[r] = [seen[r] EXCEPT !.next = control.nextFreeItemIndex]
      BY <2>1 DEF LoadNext, Load, RingInv, ReaderShape
    <3>2. control.nextFreeItemIndex # 0 => published > 0
      BY <1>t, <1>z DEF RingInv, WriterInv, ControlInv
    <3>3. seen'[r] \in Words /\ seen'[r].next = control.nextFreeItemIndex
      BY <3>1, <1>t DEF ReaderTypeOK, Words
    <3> QED BY <1>1, <3>1, <3>2, <3>3 DEF AheadInv, Believing
  <2>2. CASE LoadLast(r)
    <3>1. /\ rpc[r] = "next" /\ rpc'[r] = "last"
          /\ seen'[r] = [seen[r] EXCEPT !.last = control.lastFilledItemIndex]
      BY <2>2 DEF LoadLast, Load, RingInv, ReaderShape
    <3>2. control.lastFilledItemIndex # 0 => published > 0
      BY <1>t, <1>z DEF RingInv, WriterInv, ControlInv
    <3>3. /\ seen'[r] \in Words /\ seen'[r].last = control.lastFilledItemIndex
          /\ seen'[r].next = seen[r].next
      BY <3>1, <1>t DEF ReaderTypeOK, Words
    <3>4. nextReadingIndex[r] = Newest =>
            \E item \in position[r] .. published : control.lastFilledItemIndex = IndexOf(item)
      <4> SUFFICES ASSUME nextReadingIndex[r] = Newest
                   PROVE  \E item \in position[r] .. published :
                              control.lastFilledItemIndex = IndexOf(item)
        OBVIOUS
      <4>1. position[r] \in Nat /\ (position[r] = 0 \/ position[r] < published)
        BY <1>t DEF PositionInv, ReaderTypeOK
      <4>2. CASE control.lastFilledItemIndex = IndexOf(published)
        BY <4>1, <4>2, <1>t
      <4>3. CASE published > 0 /\ control.lastFilledItemIndex = IndexOf(published - 1)
        <5>1. published - 1 \in position[r] .. published
          BY <4>1, <4>3, <1>t
        <5> QED BY <4>3, <5>1
      <4> QED BY <4>2, <4>3 DEF RingInv, WriterInv, ControlInv
    <3>5. seen[r].next # 0 => published > 0
      BY <1>t, <3>1 DEF AheadInv
    <3> QED BY <1>1, <3>1, <3>2, <3>3, <3>4, <3>5 DEF AheadInv, Believing, IndexOf, MaxItemIndex
  <2>3. CASE LoadControlChecksum(r)
    <3> DEFINE word == IF nextReadingIndex[r] = Newest THEN seen[r].last ELSE nextReadingIndex[r]
    <3>1. /\ rpc[r] = "last"
          /\ \/ rpc'[r] = "idle" /\ seen'[r] = NoRead
             \/ /\ seen[r].next # 0 \/ seen[r].last # 0
                /\ rpc'[r] = "position" /\ seen'[r] = [seen[r] EXCEPT !.position = word]
      BY <2>3 DEF LoadControlChecksum, Load, GiveUp, RingInv, ReaderShape
    <3>2. NoRead \in Words
      BY <1>z, 0 \in Indices, 0 \in Offsets DEF NoRead, Words, Content, Indices, Offsets
    <3>3. CASE rpc'[r] = "idle"
      BY <3>1, <3>2, <3>3 DEF AheadInv, Believing
    <3>4. CASE /\ seen[r].next # 0 \/ seen[r].last # 0
               /\ rpc'[r] = "position" /\ seen'[r] = [seen[r] EXCEPT !.position = word]
      <4>1. published > 0
        BY <3>1, <3>4, <1>t DEF AheadInv
      <4>2. position[r] \in Nat /\ position[r] <= published + 1
        BY <1>t DEF ReaderTypeOK, PositionInv
      <4>3. \E item \in position[r] .. published + 1 : word = IndexOf(item)
        <5>1. CASE nextReadingIndex[r] = Newest
          <6>1. PICK item \in position[r] .. published : seen[r].last = IndexOf(item)
            BY <5>1, <3>1, <1>t DEF AheadInv
          <6>2. item \in position[r] .. published + 1
            BY <6>1, <4>2, <1>t
          <6> QED BY <5>1, <6>1, <6>2
        <5>2. CASE nextReadingIndex[r] # Newest
          <6>1. position[r] \in position[r] .. published + 1
            BY <4>2, <1>t
          <6> QED BY <5>2, <6>1, <1>t DEF PositionInv
        <5> QED BY <5>1, <5>2
      <4>4. word \in Indices
        BY <1>t DEF ReaderTypeOK, Words
      <4> HIDE DEF word
      <4>5. seen'[r] \in Words /\ seen'[r].position = word
        BY <3>4, <4>4, <1>t DEF ReaderTypeOK, Words
      <4> QED BY <1>1, <3>4, <4>1, <4>3, <4>5 DEF AheadInv, Believing, IndexOf, MaxItemIndex
    <3> QED BY <3>1, <3>3, <3>4
  <2> QED BY <2>1, <2>2, <2>3
<1>6. ReaderTypeOK(r)'
  BY <1>t, <1>1, <1>3, <1>5 DEF ReaderTypeOK, Places
<1> QED BY <1>2, <1>4, <1>5, <1>6 DEF ReaderInv

\* The index word tells which item the entry holds; the words loaded after it
\* are that item's for as long as the item is kept.
LEMMA EntryLoadsKeep ==
    ASSUME RingInv, NEW r \in Readers, LoadIndex(r) \/ LoadOffset(r) \/ LoadSize(r)
    PROVE  ReaderInv(r)'
<1> USE Constants
<1>t. /\ ReaderTypeOK(r) /\ PositionInv(r) /\ AheadInv(r) /\ SeenInv(r) /\ TookInv(r)
      /\ published \in Nat /\ items \in [Slots -> ItemEntries] /\ tenant \in [Slots -> Tenants]
  BY DEF RingInv, ReaderInv, WriterInv, WriterTypeOK
<1>1. /\ nextReadingIndex' = nextReadingIndex /\ took' = took /\ position' = position
      /\ UNCHANGED writerVars
  BY DEF LoadIndex, LoadOffset, LoadSize, Load
<1>2. PositionInv(r)'
  BY <1>t, <1>1 DEF PositionInv, IndexOf, MaxItemIndex, writerVars
<1>3. /\ rpc[r] \in {"position"} \cup Believing /\ rpc'[r] \in Believing
      /\ rpc[r] # "holding" /\ took[r] = Nothing
  BY <1>t DEF LoadIndex, LoadOffset, LoadSize, Load, RingInv, ReaderShape, TookInv, Believing
<1>4. TookInv(r)'
  BY <1>1, <1>3 DEF TookInv, Believing
<1> DEFINE e == Entry(r)
           L == seen[r].position
<1>5. L \in Indices /\ e \in Slots /\ e = L % MaxItemsNum
  <2>1. L \in Indices /\ L \in Int
    BY <1>t DEF ReaderTypeOK, Words, Indices
  <2> HIDE DEF L
  <2>2. L % MaxItemsNum \in Slots
    BY <2>1, ModRange DEF Slots
  <2> QED BY <2>1, <2>2 DEF Entry, L
<1>6. PICK item \in position[r] .. published + 1 : L = IndexOf(item)
  BY <1>t, <1>3 DEF AheadInv
<1>7. published > 0 /\ position[r] \in Nat
  BY <1>t, <1>3 DEF AheadInv, ReaderTypeOK
<1>8. items[e] \in ItemEntries /\ tenant[e] \in Tenants
  BY <1>t, <1>5
<1>9. seen'[r] \in Words /\ seen'[r].position = L
  <2>1. CASE LoadIndex(r)
    <3>1. seen'[r] = [seen[r] EXCEPT !.index = items[e].index, !.item = tenant[e].item,
                                     !.start = tenant[e].start, !.early = tenant[e].item >= published]
      BY <2>1 DEF LoadIndex, Load, RingInv, ReaderShape
    <3> DEFINE early == tenant[e].item >= published
    <3>2. early \in BOOLEAN
      OBVIOUS
    <3>3. seen'[r] = [seen[r] EXCEPT !.index = items[e].index, !.item = tenant[e].item,
                                     !.start = tenant[e].start, !.early = early]
      BY <3>1
    <3> HIDE DEF early
    <3> QED BY <1>t, <1>8, <3>2, <3>3 DEF ReaderTypeOK, Words, ItemEntries, Tenants
  <2>2. CASE LoadOffset(r)
    <3>1. seen'[r] = [seen[r] EXCEPT !.offset = items[e].offset]
      BY <2>2 DEF LoadOffset, Load, RingInv, ReaderShape
    <3> QED BY <1>t, <1>8, <3>1 DEF ReaderTypeOK, Words, ItemEntries
  <2>3. CASE LoadSize(r)
    <3>1. seen'[r] = [seen[r] EXCEPT !.size = items[e].size]
      BY <2>3 DEF LoadSize, Load, RingInv, ReaderShape
    <3> QED BY <1>t, <1>8, <3>1 DEF ReaderTypeOK, Words, ItemEntries
  <2> QED BY <2>1, <2>2, <2>3
<1>10. Entry(r)' = e
  BY <1>9 DEF Entry
<1>11. AheadInv(r)'
  BY <1>t, <1>1, <1>3, <1>9 DEF AheadInv, Believing, IndexOf, MaxItemIndex, writerVars
<1>12. SeenInv(r)'
  <2>1. CASE LoadIndex(r)
    <3>1. /\ rpc'[r] = "index" /\ seen'[r].index = items[e].index
          /\ seen'[r].item = tenant[e].item /\ seen'[r].start = tenant[e].start
          /\ seen'[r].early = (tenant[e].item >= published)
      BY <2>1, <1>t, <1>8 DEF LoadIndex, Load, RingInv, ReaderShape, ReaderTypeOK, Words
    <3>2. CASE tenant[e].item = Zero /\ items[e].index = 0 /\ published <= e
      <4>1. L # 0
        BY <1>5, <1>7, <3>2, <1>t, 0 \in 0 .. MaxItemsNum - 1, ModSmall
      <4> QED BY <3>1, <3>2, <4>1, <1>9 DEF SeenInv
    <3>3. CASE /\ tenant[e].item \in Nat /\ SlotOf(tenant[e].item) = e
               /\ published - MaxItemsNum <= tenant[e].item /\ tenant[e].item <= published
               /\ items[e].index = IndexOf(tenant[e].item)
      <4> DEFINE i == tenant[e].item
      <4>1. /\ i \in Nat /\ SlotOf(i) = e /\ published - MaxItemsNum <= i /\ i <= published
            /\ items[e].index = IndexOf(i)
        BY <3>3
      <4> HIDE DEF i
      <4>2. ASSUME items[e].index = L PROVE position[r] <= i
        <5>1. i \in Int /\ item \in Int /\ IndexOf(i) = IndexOf(item) /\ i > item - MaxItemIndex
          BY <4>1, <4>2, <1>6, <1>7, <1>t
        <5>2. item <= i
          BY <5>1, IndexIsItem
        <5> QED BY <5>1, <5>2, <1>6, <1>7
      <4>3. ~(i >= published) => i < published
        BY <4>1, <1>t
      <4>4. i # Zero
        BY <4>1 DEF Zero
      <4> QED BY <3>1, <4>1, <4>2, <4>3, <4>4, <1>1, <1>9, <1>10
              DEF SeenInv, i, writerVars, SlotOf, IndexOf, MaxItemIndex
    <3> QED BY <3>2, <3>3, <1>5 DEF RingInv, WriterInv, TenantInv
  <2>2. CASE LoadOffset(r)
    <3>1. /\ rpc[r] = "index" /\ rpc'[r] = "offset"
          /\ seen'[r] = [seen[r] EXCEPT !.offset = items[e].offset]
      BY <2>2 DEF LoadOffset, Load, RingInv, ReaderShape
    <3>2. /\ seen'[r].offset = items[e].offset /\ seen'[r].index = seen[r].index
          /\ seen'[r].item = seen[r].item /\ seen'[r].start = seen[r].start
          /\ seen'[r].early = seen[r].early
      BY <3>1, <1>t DEF ReaderTypeOK, Words
    <3> QED BY <3>1, <3>2, <1>t, <1>1, <1>9, <1>10
            DEF SeenInv, Believing, Kept, writerVars, SlotOf, IndexOf, MaxItemIndex
  <2>3. CASE LoadSize(r)
    <3>1. /\ rpc[r] = "offset" /\ rpc'[r] = "size"
          /\ seen'[r] = [seen[r] EXCEPT !.size = items[e].size]
      BY <2>3 DEF LoadSize, Load, RingInv, ReaderShape
    <3>2. /\ seen'[r].size = items[e].size /\ seen'[r].index = seen[r].index
          /\ seen'[r].offset = seen[r].offset
          /\ seen'[r].item = seen[r].item /\ seen'[r].start = seen[r].start
          /\ seen'[r].early = seen[r].early
      BY <3>1, <1>t DEF ReaderTypeOK, Words
    <3> QED BY <3>1, <3>2, <1>t, <1>1, <1>9, <1>10
            DEF SeenInv, Believing, Kept, writerVars, SlotOf, IndexOf, MaxItemIndex
  <2> QED BY <2>1, <2>2, <2>3
<1>13. ReaderTypeOK(r)'
  BY <1>t, <1>1, <1>3, <1>9 DEF ReaderTypeOK, Places, Believing
<1> QED BY <1>2, <1>4, <1>11, <1>12, <1>13 DEF ReaderInv

\* An entry that agrees names an item the reader has not come past.
LEMMA AgreedItem ==
    ASSUME RingInv, NEW r \in Readers, rpc[r] = "size", NEW sum, Agree(r, sum)
    PROVE  /\ seen[r].item \in Nat /\ seen[r].item <= published /\ position[r] <= seen[r].item
           /\ ~seen[r].early => seen[r].item < published
           /\ SlotOf(seen[r].item) = Entry(r)
           /\ seen[r].position = IndexOf(seen[r].item)
           /\ \A step \in {0, 1} :
                 (seen[r].position + step) % MaxItemIndex = IndexOf(seen[r].item + step)
<1>1. seen[r].index = seen[r].position /\ seen[r].item \in Content
  BY DEF RingInv, ReaderInv, ReaderTypeOK, Words, Agree
<1>2. seen[r].item # Zero /\ seen[r].item \in Nat
  BY <1>1 DEF RingInv, ReaderInv, SeenInv, Believing, Content
<1>3. /\ seen[r].item <= published /\ position[r] <= seen[r].item
      /\ ~seen[r].early => seen[r].item < published
      /\ SlotOf(seen[r].item) = Entry(r)
      /\ seen[r].position = IndexOf(seen[r].item)
  BY <1>1, <1>2 DEF RingInv, ReaderInv, SeenInv, Believing
<1>4. ASSUME NEW step \in {0, 1}
      PROVE  (seen[r].position + step) % MaxItemIndex = IndexOf(seen[r].item + step)
  BY <1>2, <1>3, IndexStep
<1> QED BY <1>2, <1>3, <1>4

\* Where a handle is put stays a place of its own: an item's index.
LEMMA Positioned ==
    ASSUME NEW r \in Readers, NEW i \in Nat, NEW limit \in Nat, published' = limit, i <= limit + 1,
           nextReadingIndex'[r] = IndexOf(i), position'[r] = i
    PROVE  PositionInv(r)' /\ nextReadingIndex'[r] \in Indices /\ position'[r] \in Nat
<1>1. IndexOf(i) \in Indices /\ IndexOf(i) \in Nat
  BY IndexType
<1>2. IndexOf(i) # Newest
  BY <1>1 DEF Newest
<1> QED BY <1>1, <1>2 DEF PositionInv, IndexOf, MaxItemIndex, Newest

\* The end of a call: refused, stepped over, or given to the caller.
LEMMA EndsKeep ==
    ASSUME RingInv, NEW r \in Readers, RefuseItem(r) \/ Accept(r, 0) \/ Accept(r, 1)
    PROVE  ReaderInv(r)'
<1> USE Constants
<1>t. /\ ReaderTypeOK(r) /\ PositionInv(r) /\ SeenInv(r) /\ TookInv(r)
      /\ published \in Nat
  BY DEF RingInv, ReaderInv, WriterInv, WriterTypeOK
<1>1. /\ rpc[r] = "size" /\ UNCHANGED writerVars /\ seen'[r] = NoRead /\ took[r] = Nothing
      /\ rpc'[r] \in {"idle", "holding"}
  BY <1>t DEF RefuseItem, Accept, RingInv, ReaderShape, TookInv
<1>2. published' = published /\ items' = items /\ tenant' = tenant /\ reach' = reach
  BY <1>1 DEF writerVars
<1>3. NoRead \in Words /\ AheadInv(r)' /\ SeenInv(r)'
  <2>1. 0 \in Indices /\ 0 \in Offsets
    BY DEF Indices, Offsets
  <2> QED BY <1>1, <2>1 DEF NoRead, Words, Content, AheadInv, SeenInv, Believing
<1>4. PositionInv(r)' /\ nextReadingIndex'[r] \in Indices \cup {Newest} /\ position'[r] \in Nat
  <2>1. ASSUME NEW step \in {0, 1}, NEW sum, Agree(r, sum),
               nextReadingIndex'[r] = (seen[r].position + step) % MaxItemIndex,
               position'[r] = seen[r].item + step
        PROVE  PositionInv(r)' /\ nextReadingIndex'[r] \in Indices \cup {Newest}
               /\ position'[r] \in Nat
    <3> DEFINE i == seen[r].item + step
    <3>1. i \in Nat /\ i <= published + 1 /\ nextReadingIndex'[r] = IndexOf(i)
      BY <1>1, <1>t, <2>1, AgreedItem
    <3>2. position'[r] = i
      BY <2>1
    <3> HIDE DEF i
    <3> QED BY <1>2, <1>t, <3>1, <3>2, Positioned
  <2>2. CASE UNCHANGED <<nextReadingIndex, position>>
    BY <1>2, <1>t, <2>2 DEF PositionInv, ReaderTypeOK, IndexOf, MaxItemIndex
  <2>3. CASE RefuseItem(r)
    <3>1. \/ UNCHANGED <<nextReadingIndex, position>>
          \/ /\ Agree(r, items[Entry(r)].checksum)
             /\ nextReadingIndex'[r] = (seen[r].position + 1) % MaxItemIndex
             /\ position'[r] = seen[r].item + 1
      BY <2>3 DEF RefuseItem, RingInv, ReaderShape
    <3> QED BY <2>1, <2>2, <3>1
  <2>4. ASSUME NEW step \in {0, 1}, Accept(r, step)
        PROVE  PositionInv(r)' /\ nextReadingIndex'[r] \in Indices \cup {Newest}
               /\ position'[r] \in Nat
    <3>1. /\ Agree(r, items[Entry(r)].checksum)
          /\ nextReadingIndex'[r] = (seen[r].position + step) % MaxItemIndex
          /\ position'[r] = seen[r].item + step
      BY <2>4 DEF Accept, Believes, RingInv, ReaderShape
    <3> QED BY <2>1, <3>1
  <2> QED BY <2>3, <2>4
<1>5. took'[r] \in Loans /\ took'[r].offset + took'[r].size <= End /\ TookInv(r)'
  <2>1. CASE RefuseItem(r)
    <3>1. took'[r] = took[r] /\ rpc'[r] = "idle"
      BY <2>1 DEF RefuseItem, RingInv, ReaderShape
    <3> QED BY <3>1, <1>1, <1>t DEF ReaderTypeOK, TookInv
  <2>2. CASE Accept(r, 0) \/ Accept(r, 1)
    <3>1. /\ Agree(r, items[Entry(r)].checksum)
          /\ seen[r].offset >= PayloadOffset /\ seen[r].offset + seen[r].size <= End
          /\ rpc'[r] = "holding"
          /\ took'[r] = [item |-> seen[r].item, start |-> seen[r].start, early |-> seen[r].early,
                         offset |-> seen[r].offset, size |-> seen[r].size, body |-> {}]
      BY <2>2 DEF Accept, Believes, RingInv, ReaderShape
    <3>2. /\ seen[r].item \in Nat /\ seen[r].item <= published
          /\ ~seen[r].early => seen[r].item < published
          /\ SlotOf(seen[r].item) = Entry(r)
      BY <1>1, <3>1, AgreedItem
    <3>3. took'[r] \in Loans
      BY <3>1, <1>t DEF ReaderTypeOK, Words, Loans
    <3>4. /\ took'[r].item = seen[r].item /\ took'[r].start = seen[r].start
          /\ took'[r].early = seen[r].early /\ took'[r].offset = seen[r].offset
          /\ took'[r].size = seen[r].size /\ took'[r].body = {}
      BY <3>1
    <3>5. (~seen[r].early /\ Kept(seen[r].item, seen[r].start)) =>
                /\ tenant[Entry(r)].start = seen[r].start
                /\ seen[r].offset = items[Entry(r)].offset
                /\ seen[r].size = items[Entry(r)].size
      BY <1>1, <1>t, <3>2 DEF SeenInv, Believing, Zero
    <3>6. TookInv(r)'
      BY <1>2, <3>1, <3>2, <3>4, <3>5 DEF TookInv, Kept, SlotOf
    <3> QED BY <3>1, <3>3, <3>4, <3>6
  <2> QED BY <2>1, <2>2
<1>6. ReaderTypeOK(r)'
  BY <1>1, <1>3, <1>4, <1>5 DEF ReaderTypeOK, Places
<1> QED BY <1>3, <1>4, <1>5, <1>6 DEF ReaderInv

\* The caller looks at the payload of the item it holds.
LEMMA UseKeeps ==
    ASSUME RingInv, NEW r \in Readers, UsePayload(r)
    PROVE  ReaderInv(r)'
<1> USE Constants
<1>t. /\ ReaderTypeOK(r) /\ PositionInv(r) /\ AheadInv(r) /\ SeenInv(r) /\ TookInv(r)
      /\ published \in Nat /\ payload \in [Area -> Content]
      /\ items \in [Slots -> ItemEntries]
  BY DEF RingInv, ReaderInv, WriterInv, WriterTypeOK
<1> DEFINE units == took[r].offset .. took[r].offset + took[r].size - 1
           body == {payload[u] : u \in units}
<1>1. /\ UNCHANGED <<nextReadingIndex, rpc, seen, position>> /\ UNCHANGED writerVars
      /\ rpc[r] = "holding" /\ took'[r] = [took[r] EXCEPT !.body = body]
  BY DEF UsePayload, RingInv, ReaderShape
<1>2. published' = published /\ items' = items /\ tenant' = tenant /\ reach' = reach
  BY <1>1 DEF writerVars
<1>3. PositionInv(r)' /\ AheadInv(r)' /\ SeenInv(r)'
  BY <1>1, <1>2, <1>t DEF PositionInv, AheadInv, SeenInv, Entry, Kept, IndexOf, SlotOf, MaxItemIndex
<1>4. /\ took[r].item \in Nat /\ took[r].item <= published /\ took[r].offset >= PayloadOffset
      /\ ~took[r].early => took[r].item < published
      /\ took[r].offset \in Nat /\ took[r].size \in Nat /\ took[r].offset + took[r].size <= End
      /\ took[r].start \in Nat
  BY <1>1, <1>t DEF TookInv, ReaderTypeOK, Loans, Offsets
<1>5. body \subseteq Content
  <2>1. \A u \in units : u \in Area
    BY <1>4 DEF Area
  <2> QED BY <2>1, <1>t
<1>6. ~took[r].early /\ Kept(took[r].item, took[r].start) => body = {took[r].item}
  <2> SUFFICES ASSUME ~took[r].early, Kept(took[r].item, took[r].start)
               PROVE  body = {took[r].item}
    OBVIOUS
  <2> DEFINE i == took[r].item
             k == SlotOf(took[r].item)
  <2>1. /\ tenant[k].start = took[r].start /\ took[r].offset = items[k].offset
        /\ took[r].size = items[k].size
    BY <1>1, <1>t DEF TookInv
  <2>2. i \in Window
    BY <1>4, <1>t DEF Window, Kept
  <2>3. items[k].size > 0 /\ \A u \in units : payload[u] = i
    BY <2>1, <2>2 DEF RingInv, WriterInv, Intact
  <2>4. took[r].offset \in units
    BY <1>4, <2>1, <2>3
  <2> QED BY <2>3, <2>4
<1> HIDE DEF body
<1>7. /\ took'[r] \in Loans /\ took'[r].body = body /\ took'[r].item = took[r].item
      /\ took'[r].start = took[r].start /\ took'[r].early = took[r].early
      /\ took'[r].offset = took[r].offset /\ took'[r].size = took[r].size
  BY <1>1, <1>5, <1>t DEF ReaderTypeOK, Loans
<1>8. TookInv(r)'
  BY <1>1, <1>2, <1>4, <1>6, <1>7, <1>t DEF TookInv, Kept, SlotOf
<1>9. ReaderTypeOK(r)'
  BY <1>1, <1>4, <1>7, <1>t DEF ReaderTypeOK
<1> QED BY <1>3, <1>8, <1>9 DEF ReaderInv

LEMMA ReleaseKeeps ==
    ASSUME RingInv, NEW r \in Readers, Release(r)
    PROVE  ReaderInv(r)'
<1> USE Constants
<1>t. ReaderTypeOK(r) /\ PositionInv(r)
  BY DEF RingInv, ReaderInv
<1>1. /\ UNCHANGED <<nextReadingIndex, seen, position, published>>
      /\ rpc'[r] = "idle" /\ took'[r] = Nothing
  BY DEF Release, RingInv, ReaderShape, writerVars
<1>2. ReaderTypeOK(r)'
  BY <1>1, <1>t DEF ReaderTypeOK, Places, Loans, Nothing, Content, Offsets, Zero
<1> QED
  BY <1>1, <1>2, <1>t DEF ReaderInv, PositionInv, AheadInv, SeenInv, TookInv, Believing, IndexOf,
                          MaxItemIndex

\* A seek puts the reader at an item of the last two laps, or at the newest.
LEMMA SeekKeeps ==
    ASSUME RingInv, NEW r \in Readers, Seek(r)
    PROVE  ReaderInv(r)'
<1> USE Constants
<1>t. ReaderTypeOK(r) /\ TookInv(r) /\ published \in Nat
  BY DEF RingInv, ReaderInv, WriterInv, WriterTypeOK
<1>1. rpc[r] = "idle" /\ UNCHANGED <<rpc, seen, took, published>>
  BY DEF Seek, SeekReadIndex2WriteIndex, SeekReadIndex2Zero, SeekReadIndex, SeekTo, writerVars
<1>2. AheadInv(r)' /\ SeenInv(r)' /\ TookInv(r)'
  BY <1>1, <1>t DEF AheadInv, SeenInv, TookInv, Believing
<1>3. PositionInv(r)' /\ nextReadingIndex'[r] \in Indices \cup {Newest} /\ position'[r] \in Nat
  <2>1. ASSUME NEW i \in Nat, i <= published, SeekTo(r, IndexOf(i), i)
        PROVE  PositionInv(r)' /\ nextReadingIndex'[r] \in Indices \cup {Newest}
               /\ position'[r] \in Nat
    <3>1. nextReadingIndex'[r] = IndexOf(i) /\ position'[r] = i
      BY <2>1 DEF SeekTo, RingInv, ReaderShape
    <3> QED BY <1>1, <1>t, <2>1, <3>1, Positioned
  <2>2. CASE SeekReadIndex2WriteIndex(r)
    <3>1. nextReadingIndex'[r] = Newest /\ position'[r] = Max2(published - 1, 0)
      BY <2>2 DEF SeekReadIndex2WriteIndex, SeekTo, RingInv, ReaderShape
    <3> QED BY <3>1, <1>1, <1>t DEF PositionInv, Max2
  <2>3. CASE SeekReadIndex2Zero(r)
    <3> DEFINE d == published \div MaxItemIndex
               i == MaxItemIndex * d
               rest == published % MaxItemIndex
    <3>1. /\ published = MaxItemIndex * (published \div MaxItemIndex) + (published % MaxItemIndex)
          /\ published \div MaxItemIndex \in Nat
          /\ published % MaxItemIndex \in 0 .. MaxItemIndex - 1
          /\ MaxItemIndex * (published \div MaxItemIndex) \in Nat
      <4> HIDE DEF MaxItemIndex
      <4> QED BY <1>t, DivMod
    <3>0. published = i + rest /\ rest \in Nat /\ i \in Nat /\ d \in Int
      BY <3>1
    <3>2. IndexOf(i) = 0
      <4> HIDE DEF d
      <4>1. i \in Int /\ i = MaxItemIndex * d + 0 /\ 0 \in 0 .. MaxItemIndex - 1
        BY <3>0
      <4> HIDE DEF i
      <4> QED BY <3>0, <4>1, ModUnique DEF IndexOf
    <3>3. SeekTo(r, IndexOf(i), i)
      BY <2>3, <3>2 DEF SeekReadIndex2Zero
    <3> HIDE DEF i, rest
    <3>4. i <= published
      BY <3>0, <1>t
    <3> QED BY <2>1, <3>0, <3>3, <3>4
  <2>4. CASE SeekReadIndex(r)
    <3>1. PICK i \in (published - MaxItemIndex + 1) .. published :
                 i >= 0 /\ SeekTo(r, IndexOf(i), i)
      BY <2>4 DEF SeekReadIndex
    <3>2. i \in Nat /\ i <= published
      BY <3>1, <1>t
    <3> QED BY <2>1, <3>1, <3>2
  <2> QED BY <2>2, <2>3, <2>4 DEF Seek
<1>4. ReaderTypeOK(r)'
  BY <1>1, <1>3, <1>t DEF ReaderTypeOK
<1> QED BY <1>2, <1>3, <1>4 DEF ReaderInv

LEMMA RingNext == RingInv /\ [Next]_vars => RingInv'
<1> SUFFICES ASSUME RingInv, [Next]_vars PROVE RingInv'
  OBVIOUS
<1>1. WriterInv /\ WriterInv'
  BY WriterNext DEF RingInv
<1>2. CASE Writer \/ UNCHANGED vars
  <2>1. UNCHANGED readerVars
    BY <1>2 DEF vars, Writer, Apply, Fill, Abandon, StoreItem, StoreControl, Publish, Crash, Reattach
  <2>2. ReaderShape'
    BY <2>1 DEF RingInv, ReaderShape, readerVars
  <2>3. ASSUME NEW r \in Readers PROVE ReaderInv(r)'
    BY <1>1, <2>1, <2>3, ReaderFrame DEF RingInv, readerVars
  <2> QED BY <1>1, <2>2, <2>3 DEF RingInv
<1>3. ASSUME NEW r \in Readers, ReaderStep(r) \/ Seek(r) PROVE RingInv'
  <2>1. ReaderShape'
    BY <1>3, OneReader DEF RingInv
  <2>2. ASSUME NEW q \in Readers, q # r PROVE ReaderInv(q)'
    BY <1>1, <1>3, <2>2, OneReader, ReaderFrame DEF RingInv
  <2>3. ReaderInv(r)'
    BY <1>3, ControlLoadsKeep, EntryLoadsKeep, EndsKeep, UseKeeps, ReleaseKeeps, SeekKeeps
       DEF ReaderStep, PollReadHead, ReadNoStep, PollReadDataWithoutIndexStep, Read
  <2> QED BY <1>1, <2>1, <2>2, <2>3 DEF RingInv
<1> QED BY <1>2, <1>3 DEF Next

THEOREM RingInvariant == Spec => []RingInv
BY RingInit, RingNext, PTL DEF Spec

-----------------------------------------------------------------------------
(***************************************************************************)
(* What the runs check.                                                    *)
(***************************************************************************)

\* Every word keeps its range, in the segment and in the handles.
THEOREM CompactTypes == Spec => []TypeOK
<1>1. RingInv => TypeOK
  <2> SUFFICES ASSUME RingInv PROVE TypeOK
    OBVIOUS
  <2>1. /\ nextReadingIndex \in [Readers -> Indices \cup {Newest}]
        /\ position \in [Readers -> Nat]
    BY DEF RingInv, ReaderShape, ReaderInv, ReaderTypeOK
  <2>2. \A r \in Readers : took[r].item \in Content /\ took[r].offset + took[r].size <= End
    BY DEF RingInv, ReaderInv, ReaderTypeOK, Loans
  <2> QED BY <2>1, <2>2 DEF RingInv, WriterInv, WriterTypeOK, ItemEntries, TypeOK
<1> QED BY RingInvariant, <1>1, PTL

\* Without a lock, a reader that is not overrun finds the item it was given
\* and nothing else, wherever the stores of Commit fell between its loads.
THEOREM ReadersFindWholeItems == Spec => []WholeUnlessOverrun
<1>1. RingInv => WholeUnlessOverrun
  <2> SUFFICES ASSUME RingInv, NEW r \in Readers, took[r].body # {}, ~took[r].early,
                      Kept(took[r].item, took[r].start)
               PROVE  took[r].body = {took[r].item}
    BY DEF WholeUnlessOverrun
  <2>1. rpc[r] = "holding"
    BY DEF RingInv, ReaderInv, TookInv, Nothing
  <2> QED BY <2>1 DEF RingInv, ReaderInv, TookInv
<1> QED BY RingInvariant, <1>1, PTL

\* No reader is given an item it has come past, for all that an index and a
\* table entry only tell two laps apart.
THEOREM ReadersGoForward == Spec => ReadsInOrder
<1>1. ASSUME RingInv, [Next]_vars, NEW r \in Readers, rpc[r] = "size", rpc'[r] = "holding"
      PROVE  seen[r].item >= position[r]
  <2>1. rpc'[r] # rpc[r]
    BY <1>1
  <2>2. PICK q \in Readers : ReaderStep(q) \/ Seek(q)
    BY <1>1, <2>1 DEF Next, vars, readerVars, Writer, Apply, Fill, Abandon, StoreItem, StoreControl,
                      Publish, Crash, Reattach
  <2>3. q = r
    BY <1>1, <2>1, <2>2, OneReader DEF RingInv
  <2>4. Agree(r, items[Entry(r)].checksum)
    BY <1>1, <2>2, <2>3
       DEF ReaderStep, Seek, LoadNext, LoadLast, LoadControlChecksum, LoadIndex, LoadOffset, LoadSize,
           RefuseItem, PollReadDataWithoutIndexStep, Read, PollReadHead, ReadNoStep, Accept,
           UsePayload, Release, SeekReadIndex2WriteIndex, SeekReadIndex2Zero, SeekReadIndex, SeekTo,
           Load, GiveUp, Believes, RingInv, ReaderShape
  <2>5. seen[r].item \in Nat /\ position[r] \in Nat /\ position[r] <= seen[r].item
    BY <1>1, <2>4, AgreedItem DEF RingInv, ReaderInv, ReaderTypeOK
  <2> QED BY <2>5
<1>2. RingInv /\ [Next]_vars
        => [\A r \in Readers :
              (rpc[r] = "size" /\ rpc'[r] = "holding") => seen[r].item >= position[r]]_vars
  BY <1>1
<1> QED BY RingInvariant, <1>2, PTL DEF Spec, ReadsInOrder

=============================================================================
