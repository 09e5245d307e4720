---------------------------- MODULE CompactRing ----------------------------
(***************************************************************************)
(* The ring of variable-size items behind a LibViShmMedia handle.          *)
(*                                                                         *)
(* SharedCompactRingBuffer keeps a control block, a table of maxItemsNum   *)
(* index items and a payload area that the writer fills round and round.   *)
(* An index counts to twice the number of table entries, so that an entry  *)
(* tells its own lap from the lap before.  The writer asks for room        *)
(* (Apply), fills it and Commits: eight plain stores, the last of which    *)
(* publishes the item.  A reader loads three words of the control block    *)
(* and four of a table entry, one by one, and believes them if two sums    *)
(* agree.  Nothing locks, nothing says whether payload was overwritten.    *)
(* Loads and stores are those of the source, in the order of the source.   *)
(*                                                                         *)
(* Offsets count from the start of the segment, in the unit of sizes.      *)
(* Items have absolute numbers 0, 1, 2, ...; the variables from `published' *)
(* on are history: no guard reads them, except for the two bounds.         *)
(***************************************************************************)
EXTENDS Integers, FiniteSets

CONSTANTS
    MaxItemsNum,    \* table entries
    PayloadOffset,  \* where the payload area starts
    PayloadSize,    \* its size
    Align,          \* sizeof(uint64): items start at its multiples
    Sizes,          \* the sizes items have
    Readers,        \* the handles opened for reading
    MaxPublish,     \* bound: the writer stops after this many items
    MaxRestarts     \* bound: so often it dies or gives up an item it began

ASSUME CompactAssumption ==
    /\ MaxItemsNum \in Nat \ {0, 1}
    /\ Align \in Nat \ {0}
    /\ PayloadOffset \in Nat \ {0}
    /\ PayloadOffset % Align = 0
    /\ PayloadSize \in Nat \ {0}
    /\ Sizes \subseteq 1 .. PayloadSize
    /\ MaxPublish \in Nat
    /\ MaxRestarts \in Nat

VARIABLES
    control,           \* the four moving words of the control block
    items,             \* the table
    payload,           \* what each unit of the payload area holds
    wpc,               \* where the writer is: the store it has just made
    buffer,            \* what Apply returned, how much was asked for, ...
    nextReadingIndex,  \* each reader's _nextReadingIndex
    rpc,               \* where each reader is: the load it has just made
    seen,              \* the words it has loaded
    took,              \* the item it was given, and what it found there
    published,         \* history: how often Commit has finished
    tenant,            \* history: whose index word a table entry holds
    lap,               \* history: how often the payload offset was rewound
    reach,             \* history: how far the writer has come, laps included
    restarts,          \* history: how often it crashed or abandoned an item
    position           \* history: the absolute number of the next read

writerVars == <<control, items, payload, wpc, buffer, published, tenant, lap, reach, restarts>>
readerVars == <<nextReadingIndex, rpc, seen, took, position>>
vars == <<writerVars, readerVars>>

MaxItemIndex == 2 * MaxItemsNum
Slots == 0 .. MaxItemsNum - 1
End == PayloadOffset + PayloadSize
Area == PayloadOffset .. End - 1
Newest == -1            \* (uint64)(-1): read the last item
Zero == -1              \* zeroed payload

Max2(a, b) == IF a > b THEN a ELSE b

IndexOf(item) == item % MaxItemIndex
SlotOf(item) == item % MaxItemsNum

NoRoom == [offset |-> 0, size |-> 0]
NoRead == [next |-> 0, last |-> 0, position |-> 0, index |-> 0, offset |-> 0, size |-> 0,
           item |-> Zero, start |-> 0, early |-> FALSE]
Nothing == [item |-> Zero, start |-> 0, early |-> FALSE, offset |-> 0, size |-> 0, body |-> {}]

Init ==
    /\ control = [nextFreeItemIndex |-> 0, lastFilledItemIndex |-> 0,
                  itemIndexChecksum |-> 0, nextFreeItemPayloadOffset |-> 0]
    /\ items = [k \in Slots |-> [index |-> 0, offset |-> 0, size |-> 0, checksum |-> 0]]
    /\ payload = [u \in Area |-> Zero]
    /\ wpc = "idle"
    /\ buffer = NoRoom
    /\ nextReadingIndex = [r \in Readers |-> 0]
    /\ rpc = [r \in Readers |-> "idle"]
    /\ seen = [r \in Readers |-> NoRead]
    /\ took = [r \in Readers |-> Nothing]
    /\ published = 0
    /\ tenant = [k \in Slots |-> [item |-> Zero, start |-> 0]]
    /\ lap = 0
    /\ reach = 0
    /\ restarts = 0
    /\ position = [r \in Readers |-> 0]

-----------------------------------------------------------------------------
(***************************************************************************)
(* The writer.                                                             *)
(***************************************************************************)

AlignUp(offset) == Align * ((offset + Align - 1) \div Align)

\* Where Apply and Commit look for room first, and whether it is too small.
FreeOffset ==
    AlignUp(Max2(control.nextFreeItemPayloadOffset, PayloadOffset))
Unwinds(size) == FreeOffset + size >= End

\* Mutant of Room: the payload offset is never rewound in time.
RoomPastEnd(size) == IF FreeOffset >= End THEN PayloadOffset ELSE FreeOffset

Room(size) == IF Unwinds(size) THEN PayloadOffset ELSE FreeOffset

FreeIndex == control.nextFreeItemIndex % MaxItemIndex
NextIndex == (FreeIndex + 1) % MaxItemIndex

\* History: the distance an offset has from the start, laps included; an
\* offset below the free one starts a new lap.
LapOf(offset) == IF offset < control.nextFreeItemPayloadOffset THEN lap + 1 ELSE lap
Distance(offset) == LapOf(offset) * PayloadSize + offset - PayloadOffset

\* Room for an item of at most `size'.  When it does not fit behind the last
\* item, the rest of the area is zeroed and the item goes to the start.
Apply ==
    /\ wpc = "idle"
    /\ published < MaxPublish
    /\ \E size \in Sizes :
          /\ buffer' = [offset |-> Room(size), size |-> size]
          /\ payload' = IF Unwinds(size)
                        THEN [u \in Area |-> IF u >= FreeOffset THEN Zero ELSE payload[u]]
                        ELSE payload
          /\ reach' = Max2(reach, Distance(Room(size)) + size)
    /\ wpc' = "applied"
    /\ UNCHANGED <<control, items, published, tenant, lap, restarts, readerVars>>

\* The caller fills the room it was given, perhaps not all of it.
Fill ==
    /\ wpc = "applied"
    /\ \E size \in {s \in Sizes : s <= buffer.size} :
          /\ buffer' = [buffer EXCEPT !.size = size]
          /\ payload' = [u \in Area |->
                IF u \in buffer.offset .. buffer.offset + size - 1 THEN published ELSE payload[u]]
    /\ wpc' = "filled"
    /\ UNCHANGED <<control, items, published, tenant, lap, reach, restarts, readerVars>>

\* Room that was asked for need not be used.
Abandon ==
    /\ wpc \in {"applied", "filled"}
    /\ wpc' = "idle"
    /\ restarts < MaxRestarts
    /\ restarts' = restarts + 1
    /\ buffer' = NoRoom
    /\ UNCHANGED <<control, items, payload, published, tenant, lap, reach, readerVars>>

\* The stores of Commit, each named after the one it follows.
After == [filled |-> "offset", offset |-> "size", size |-> "index", index |-> "checksum",
          checksum |-> "nextFreeItemPayloadOffset",
          nextFreeItemPayloadOffset |-> "lastFilledItemIndex",
          lastFilledItemIndex |-> "itemIndexChecksum"]

NewItem ==
    [offset |-> buffer.offset, size |-> buffer.size, index |-> FreeIndex,
     checksum |-> FreeIndex + buffer.offset + buffer.size]

NewControl ==
    [nextFreeItemPayloadOffset |-> buffer.offset + buffer.size,
     lastFilledItemIndex |-> FreeIndex,
     itemIndexChecksum |-> NextIndex + FreeIndex]

\* Commit accepts the room Apply returned: the free offset or the area's start.
Accepted == buffer.offset \in {Room(buffer.size), PayloadOffset}

StoreItem ==
    /\ wpc \in {"filled", "offset", "size", "index"}
    /\ wpc = "filled" => Accepted
    /\ wpc' = After[wpc]
    /\ items' = [items EXCEPT ![FreeIndex % MaxItemsNum][wpc'] = NewItem[wpc']]
    /\ tenant' = IF wpc' = "index"
                 THEN [tenant EXCEPT ![FreeIndex % MaxItemsNum] =
                          [item |-> published, start |-> Distance(buffer.offset)]]
                 ELSE tenant
    /\ UNCHANGED <<control, payload, buffer, published, lap, reach, restarts, readerVars>>

StoreControl ==
    /\ wpc \in {"checksum", "nextFreeItemPayloadOffset", "lastFilledItemIndex"}
    /\ wpc' = After[wpc]
    /\ control' = [control EXCEPT ![wpc'] = NewControl[wpc']]
    /\ lap' = IF wpc = "checksum" THEN LapOf(buffer.offset) ELSE lap
    /\ UNCHANGED <<items, payload, buffer, published, tenant, reach, restarts, readerVars>>

\* Mutant of Publish: the index counts to the number of table entries only.
PublishShort ==
    /\ wpc = "itemIndexChecksum"
    /\ wpc' = "idle"
    /\ control' = [control EXCEPT !.nextFreeItemIndex = (FreeIndex + 1) % MaxItemsNum]
    /\ published' = published + 1
    /\ buffer' = NoRoom
    /\ UNCHANGED <<items, payload, tenant, lap, reach, restarts, readerVars>>

Publish ==
    /\ wpc = "itemIndexChecksum"
    /\ wpc' = "idle"
    /\ control' = [control EXCEPT !.nextFreeItemIndex = NextIndex]
    /\ published' = published + 1
    /\ buffer' = NoRoom
    /\ UNCHANGED <<items, payload, tenant, lap, reach, restarts, readerVars>>

\* The writing process dies anywhere; a new one attaches to the segment as it
\* finds it (Create with isNew false: only the layout is validated).
Crash ==
    /\ wpc # "down"
    /\ wpc' = "down"
    /\ restarts < MaxRestarts
    /\ restarts' = restarts + 1
    /\ buffer' = NoRoom
    /\ UNCHANGED <<control, items, payload, published, tenant, lap, reach, readerVars>>

Reattach ==
    /\ wpc = "down"
    /\ wpc' = "idle"
    /\ UNCHANGED <<control, items, payload, buffer, published, tenant, lap, reach, restarts, readerVars>>

Writer ==
    \/ Apply \/ Fill \/ Abandon \/ StoreItem \/ StoreControl \/ Publish
    \/ Crash \/ Reattach

-----------------------------------------------------------------------------
(***************************************************************************)
(* A reader: one call of Read or ReadNoStep, load by load.  IsReadable,    *)
(* which PollReadable calls before it, loads the same control words and    *)
(* keeps nothing, so it only decides whether Read is called.               *)
(***************************************************************************)

\* What IsReadable answers to a handle whose loads fall between two Commits.
IsReadable(r) ==
    /\ ~ (control.nextFreeItemIndex = 0 /\ control.lastFilledItemIndex = 0)
    /\ control.itemIndexChecksum = control.lastFilledItemIndex + control.nextFreeItemIndex
    /\ nextReadingIndex[r] # control.nextFreeItemIndex

\* The read gives up: NULL, nothing moves.
GiveUp(r) ==
    /\ rpc' = [rpc EXCEPT ![r] = "idle"]
    /\ seen' = [seen EXCEPT ![r] = NoRead]
    /\ UNCHANGED <<nextReadingIndex, took, position>>

\* One more word is loaded.
Load(r, pc, words) ==
    /\ rpc' = [rpc EXCEPT ![r] = pc]
    /\ seen' = [seen EXCEPT ![r] = words]
    /\ UNCHANGED <<nextReadingIndex, took, position>>

LoadNext(r) ==
    /\ rpc[r] = "idle"
    /\ Load(r, "next", [seen[r] EXCEPT !.next = control.nextFreeItemIndex])
    /\ UNCHANGED writerVars

LoadLast(r) ==
    /\ rpc[r] = "next"
    /\ Load(r, "last", [seen[r] EXCEPT !.last = control.lastFilledItemIndex])
    /\ UNCHANGED writerVars

\* The third control word, the checks on the three, and where to look.
LoadControlChecksum(r) ==
    LET next == seen[r].next
        last == seen[r].last
        none == next = 0 /\ last = 0
        torn == control.itemIndexChecksum # next + last
        end  == nextReadingIndex[r] = next
    IN  /\ rpc[r] = "last"
        /\ IF none \/ torn \/ end
           THEN GiveUp(r)
           ELSE Load(r, "position", [seen[r] EXCEPT !.position =
                       IF nextReadingIndex[r] = Newest THEN last ELSE nextReadingIndex[r]])
        /\ UNCHANGED writerVars

Entry(r) == seen[r].position % MaxItemsNum

LoadIndex(r) ==
    /\ rpc[r] = "position"
    /\ Load(r, "index", [seen[r] EXCEPT !.index = items[Entry(r)].index,
                                        !.item = tenant[Entry(r)].item,
                                        !.start = tenant[Entry(r)].start,
                                        !.early = tenant[Entry(r)].item >= published])
    /\ UNCHANGED writerVars

LoadOffset(r) ==
    /\ rpc[r] = "index"
    /\ Load(r, "offset", [seen[r] EXCEPT !.offset = items[Entry(r)].offset])
    /\ UNCHANGED writerVars

LoadSize(r) ==
    /\ rpc[r] = "offset"
    /\ Load(r, "size", [seen[r] EXCEPT !.size = items[Entry(r)].size])
    /\ UNCHANGED writerVars

\* The words of the entry agree, and it is the entry to be read next.
Agree(r, checksum) ==
    /\ checksum = seen[r].index + seen[r].offset + seen[r].size
    /\ seen[r].index = seen[r].position

\* They also name a stretch of the segment that is payload.
Believes(r, checksum) ==
    /\ Agree(r, checksum)
    /\ seen[r].offset >= PayloadOffset
    /\ seen[r].offset + seen[r].size <= End

\* Read returns NULL.  Only an entry that agrees but lies outside the payload
\* is stepped over; at any other the reader stays.
RefuseItem(r) ==
    /\ rpc[r] = "size"
    /\ ~ Believes(r, items[Entry(r)].checksum)
    /\ rpc' = [rpc EXCEPT ![r] = "idle"]
    /\ seen' = [seen EXCEPT ![r] = NoRead]
    /\ IF Agree(r, items[Entry(r)].checksum)
       THEN /\ nextReadingIndex' =
                  [nextReadingIndex EXCEPT ![r] = (seen[r].position + 1) % MaxItemIndex]
            /\ position' = [position EXCEPT ![r] = seen[r].item + 1]
       ELSE UNCHANGED <<nextReadingIndex, position>>
    /\ UNCHANGED <<took, writerVars>>

\* Mutant of Accept: the index is stepped back whether it was stepped or not.
AcceptBack(r, step) ==
    /\ rpc[r] = "size"
    /\ Believes(r, items[Entry(r)].checksum)
    /\ rpc' = [rpc EXCEPT ![r] = "holding"]
    /\ seen' = [seen EXCEPT ![r] = NoRead]
    /\ took' = [took EXCEPT ![r] = [item |-> seen[r].item, start |-> seen[r].start,
                                    early |-> seen[r].early,
                                    offset |-> seen[r].offset, size |-> seen[r].size,
                                    body |-> {}]]
    /\ nextReadingIndex' = [nextReadingIndex EXCEPT ![r] =
                               (seen[r].position + 2 * step - 1) % MaxItemIndex]
    /\ position' = [position EXCEPT ![r] = seen[r].item + step]
    /\ UNCHANGED writerVars

\* The reader gets a pointer to the item; afterwards it is `step' further.
Accept(r, step) ==
    /\ rpc[r] = "size"
    /\ Believes(r, items[Entry(r)].checksum)
    /\ rpc' = [rpc EXCEPT ![r] = "holding"]
    /\ seen' = [seen EXCEPT ![r] = NoRead]
    /\ took' = [took EXCEPT ![r] = [item |-> seen[r].item, start |-> seen[r].start,
                                    early |-> seen[r].early,
                                    offset |-> seen[r].offset, size |-> seen[r].size,
                                    body |-> {}]]
    /\ nextReadingIndex' = [nextReadingIndex EXCEPT ![r] =
                               (seen[r].position + step) % MaxItemIndex]
    /\ position' = [position EXCEPT ![r] = seen[r].item + step]
    /\ UNCHANGED writerVars

Read(r) == Accept(r, 1)

\* ReadNoStep is a Read that steps the index back when it got an item.
ReadNoStep(r) == Accept(r, 0)

\* The calls of a handle's owner: PollReadHead looks at an item's head only,
\* PollReadData and ReadData are PollReadDataWithoutIndexStep followed by a
\* ReadIndexStep that does nothing.
PollReadHead(r) == ReadNoStep(r)
PollReadDataWithoutIndexStep(r) == Read(r)

\* Mutant of UsePayload: the caller looks where an item of the largest size ends.
UsePayloadLong(r) ==
    /\ rpc[r] = "holding"
    /\ took[r].body = {}
    /\ took' = [took EXCEPT ![r].body = {payload[u] : u \in Area}]
    /\ UNCHANGED <<nextReadingIndex, rpc, seen, position, writerVars>>

\* The caller reads the payload through the pointer.
UsePayload(r) ==
    /\ rpc[r] = "holding"
    /\ took[r].body = {}
    /\ took' = [took EXCEPT ![r].body =
          {payload[u] : u \in took[r].offset .. took[r].offset + took[r].size - 1}]
    /\ UNCHANGED <<nextReadingIndex, rpc, seen, position, writerVars>>

Release(r) ==
    /\ rpc[r] = "holding"
    /\ took[r].body # {}
    /\ rpc' = [rpc EXCEPT ![r] = "idle"]
    /\ took' = [took EXCEPT ![r] = Nothing]
    /\ UNCHANGED <<nextReadingIndex, seen, position, writerVars>>

ReaderStep(r) ==
    \/ LoadNext(r) \/ LoadLast(r) \/ LoadControlChecksum(r)
    \/ LoadIndex(r) \/ LoadOffset(r) \/ LoadSize(r) \/ RefuseItem(r)
    \/ PollReadDataWithoutIndexStep(r) \/ PollReadHead(r)
    \/ UsePayload(r) \/ Release(r)

\* Where a seek puts the reader, and the absolute number behind it.
SeekTo(r, index, item) ==
    /\ rpc[r] = "idle"
    /\ nextReadingIndex' = [nextReadingIndex EXCEPT ![r] = index]
    /\ position' = [position EXCEPT ![r] = item]
    /\ UNCHANGED <<rpc, seen, took, writerVars>>

\* The reader continues with the last item published when it reads.
SeekReadIndex2WriteIndex(r) == SeekTo(r, Newest, Max2(published - 1, 0))

SeekReadIndex2Zero(r) == SeekTo(r, 0, MaxItemIndex * (published \div MaxItemIndex))

\* An index the caller was given with an item or by GetWriteIndex, less than
\* two laps ago; SearchWholeItems ends in such a seek too.
SeekReadIndex(r) ==
    \E item \in (published - MaxItemIndex + 1) .. published :
        item >= 0 /\ SeekTo(r, IndexOf(item), item)

Seek(r) == SeekReadIndex2WriteIndex(r) \/ SeekReadIndex2Zero(r) \/ SeekReadIndex(r)

Next == Writer \/ \E r \in Readers : ReaderStep(r) \/ Seek(r)

Spec == Init /\ [][Next]_vars

-----------------------------------------------------------------------------
(***************************************************************************)
(* Properties.                                                             *)
(***************************************************************************)

Offsets == 0 .. End
Indices == 0 .. MaxItemIndex - 1
Content == Nat \cup {Zero}

\* Every word keeps its range: indices below MaxItemIndex, offsets and the
\* ends of items inside the segment.
TypeOK ==
    /\ control \in [nextFreeItemIndex : Indices, lastFilledItemIndex : Indices,
                    itemIndexChecksum : Nat, nextFreeItemPayloadOffset : Offsets]
    /\ items \in [Slots -> [index : Indices, offset : Offsets, size : 0 .. PayloadSize,
                            checksum : Nat]]
    /\ payload \in [Area -> Content]
    /\ buffer \in [offset : Offsets, size : 0 .. PayloadSize]
    /\ buffer.offset + buffer.size <= End
    /\ nextReadingIndex \in [Readers -> Indices \cup {Newest}]
    /\ position \in [Readers -> Nat]
    /\ \A r \in Readers :
          /\ took[r].item \in Content
          /\ took[r].offset + took[r].size <= End

\* The items of the table that the writer is not rewriting.
Window == {i \in (published - MaxItemsNum + 1) .. (published - 1) : i >= 0}

\* Neither the table entry of an item nor its payload has been given away.
Kept(item, start) == published - item < MaxItemsNum /\ reach - start <= PayloadSize

\* Between any two stores of Apply, Fill and Commit, and after a crash or an
\* abandoned Apply, each of the last MaxItemsNum - 1 items has its whole table
\* entry, and its whole payload unless the writer has asked for more room than
\* the area had left behind the item's start.
HistoryIntact ==
    \A i \in Window :
        LET k == SlotOf(i)
            e == items[k]
        IN  /\ tenant[k].item = i
            /\ e.index = IndexOf(i)
            /\ e.checksum = e.index + e.offset + e.size
            /\ Kept(i, tenant[k].start)
                  => \A u \in e.offset .. e.offset + e.size - 1 : payload[u] = i

\* A caller finds the item it was given, and only that item, for as long as
\* the writer has not come round to its table entry or its payload, however
\* the loads of Read and the stores of Commit fell.  Left out is the item a
\* reader got before it was published: the sum of two control words is the
\* same when a stale first word meets a fresh second one.
WholeUnlessOverrun ==
    \A r \in Readers :
        (took[r].body # {} /\ ~ took[r].early /\ Kept(took[r].item, took[r].start))
            => took[r].body = {took[r].item}

\* Between two seeks of its owner a reader is never given an item it has come
\* past, although index and table entry only tell two laps apart, and although
\* a reader that was lapped waits for an index that comes up again.
ReadsInOrder ==
    [][\A r \in Readers :
          (rpc[r] = "size" /\ rpc'[r] = "holding") => seen[r].item >= position[r]]_vars

=============================================================================
