----------------------------- MODULE FixedRing -----------------------------
(***************************************************************************)
(* The ring of fixed-size slots behind a LibShmMedia handle.               *)
(*                                                                         *)
(* CTvuBaseShareMemory keeps item_current in the shared header and a       *)
(* private m_uReadIndex in every reader's handle.  Both are unsigned       *)
(* 32-bit indices that only grow; the slot of an index is the index        *)
(* modulo item_count.  Nothing locks the segment and nothing tells the     *)
(* writer how far a reader has come.  CLibShmMediaCtx adds the steps of    *)
(* one item: the writer clears the item's head, fills head and payload,    *)
(* stores the item's length last and only then increments item_current; a  *)
(* reader polls, looks at the length, parses the head, and lends pointers  *)
(* INTO the slot to its caller, who reads the payload later.               *)
(*                                                                         *)
(* Items are named by their absolute number 0, 1, 2, ... since the         *)
(* segment was created.  `published', `position', `refused' and the item   *)
(* number in `took' are history variables: no guard reads them, except     *)
(* the bound MaxPublish on the length of a behaviour.                      *)
(***************************************************************************)
EXTENDS Integers, FiniteSets

CONSTANTS
    Count,       \* item_count of the segment
    IndexMod,    \* 2^32 in the code: what an index wraps at
    Readers,     \* the handles opened for reading
    MaxPublish   \* bound: the writer stops after this many items

\* item_count is positive, an index has an even number of values, and twice
\* the lag at which a reader catches up still has a positive 32-bit difference.
ASSUME RingAssumption ==
    /\ Count \in Nat \ {0}
    /\ IndexMod \in Nat
    /\ IndexMod % 2 = 0
    /\ IndexMod \div 2 > Count
    /\ IndexMod \div 2 > 3
    /\ MaxPublish \in Nat

VARIABLES
    item_current, \* the header's write index
    slots,        \* the items' memory
    wpc,          \* where the writer is inside SendData
    m_uReadIndex, \* each reader's private index
    read_index,   \* the local of PollReadDataWithoutIndexStep
    rpc,          \* where each reader is
    took,         \* what the reader took out of the slot so far
    published,    \* history: how often FinishWrite has run
    refused,      \* history: the slot's last item was published by a failed send
    position      \* history: the absolute number behind m_uReadIndex

writerVars == <<item_current, slots, wpc, published, refused>>
readerVars == <<m_uReadIndex, read_index, rpc, took, position>>
vars == <<writerVars, readerVars>>

Slots == 0 .. Count - 1
Indices == 0 .. IndexMod - 1
Blank == -1          \* zeroed memory, or nothing read yet
Items == Nat
Content == Items \cup {Blank}

BlankSlot == [length |-> Blank, head |-> Blank, body |-> Blank]
Nothing == [item |-> Blank, head |-> Blank, body |-> Blank]

(***************************************************************************)
(* Index arithmetic.                                                       *)
(***************************************************************************)
SlotOf(index) == index % Count
WriteSlot == SlotOf(item_current)

\* int gap = w - r: the 32-bit difference, read back as a signed number.
Gap(w, r) ==
    LET d == (w - r) % IndexMod
    IN  IF d < IndexMod \div 2 THEN d ELSE d - IndexMod

MaxGap == IF Count < 3 THEN 3 ELSE Count

\* Mutants of CatchUp: the comparison off by one; a jump to the newest item.
CatchUpLate(index, gap) ==
    IF gap > MaxGap THEN (index + Count * (gap \div Count)) % IndexMod ELSE index

CatchUpToNewest(index, gap) ==
    IF gap >= MaxGap THEN (index + gap - 1) % IndexMod ELSE index

\* The index a reader continues with when it finds itself `gap' behind.
CatchUp(index, gap) ==
    IF gap >= MaxGap
    THEN (index + Count * (gap \div Count)) % IndexMod
    ELSE index

(***************************************************************************)
(* The initial state: a segment right after InitCreateShm, its readers     *)
(* attached at item_current.                                               *)
(***************************************************************************)
Init ==
    /\ item_current = 0
    /\ slots = [k \in Slots |-> BlankSlot]
    /\ wpc = "idle"
    /\ published = 0
    /\ refused = [k \in Slots |-> FALSE]
    /\ m_uReadIndex = [r \in Readers |-> 0]
    /\ read_index = [r \in Readers |-> 0]
    /\ rpc = [r \in Readers |-> "idle"]
    /\ took = [r \in Readers |-> Nothing]
    /\ position = [r \in Readers |-> 0]

(***************************************************************************)
(* The writer: SendData, or Apply... followed by Commit..., item by item.  *)
(***************************************************************************)

\* writeItemBufferV4 starts by zeroing the item's head, its length included.
ClearItem ==
    /\ wpc = "idle"
    /\ published < MaxPublish
    /\ wpc' = "cleared"
    /\ slots' = [slots EXCEPT ![WriteSlot].length = Blank, ![WriteSlot].head = Blank]
    /\ UNCHANGED <<item_current, published, refused, readerVars>>

\* The head's fields and the payload.
FillItem ==
    /\ wpc = "cleared"
    /\ wpc' = "filled"
    /\ slots' = [slots EXCEPT ![WriteSlot].head = published, ![WriteSlot].body = published]
    /\ UNCHANGED <<item_current, published, refused, readerVars>>

\* The item's length, the last store of writeItemBufferV4.
SealItem ==
    /\ wpc = "filled"
    /\ wpc' = "sealed"
    /\ slots' = [slots EXCEPT ![WriteSlot].length = published]
    /\ UNCHANGED <<item_current, published, refused, readerVars>>

\* An invalid resolution or frame rate (before the video is copied) or
\* invalid audio parameters (after it): -EINVAL, the length still zero.
RejectItem ==
    /\ wpc \in {"cleared", "filled"}
    /\ wpc' = "failed"
    /\ UNCHANGED <<item_current, slots, published, refused, readerVars>>

\* Mutants of FinishWrite: published before the length is stored; an index
\* that does not wrap.
FinishWriteEarly ==
    /\ wpc \in {"filled", "failed"}
    /\ wpc' = "idle"
    /\ item_current' = (item_current + 1) % IndexMod
    /\ published' = published + 1
    /\ refused' = [refused EXCEPT ![WriteSlot] = (wpc = "failed")]
    /\ UNCHANGED <<slots, readerVars>>

FinishWriteUnbounded ==
    /\ wpc \in {"sealed", "failed"}
    /\ wpc' = "idle"
    /\ item_current' = item_current + 1
    /\ published' = published + 1
    /\ refused' = [refused EXCEPT ![WriteSlot] = (wpc = "failed")]
    /\ UNCHANGED <<slots, readerVars>>

\* _sendV4Data calls FinishWrite whatever writeItemBufferV4 returned.
FinishWrite ==
    /\ wpc \in {"sealed", "failed"}
    /\ wpc' = "idle"
    /\ item_current' = (item_current + 1) % IndexMod
    /\ published' = published + 1
    /\ refused' = [refused EXCEPT ![WriteSlot] = (wpc = "failed")]
    /\ UNCHANGED <<slots, readerVars>>

\* The writing process dies anywhere in SendData; the segment stays.
Crash ==
    /\ wpc # "down"
    /\ wpc' = "down"
    /\ UNCHANGED <<item_current, slots, published, refused, readerVars>>

\* It starts again, finds the segment and its geometry good enough and
\* attaches to it as it is: item_current and the slots are not touched.
Reattach ==
    /\ wpc = "down"
    /\ wpc' = "idle"
    /\ UNCHANGED <<item_current, slots, published, refused, readerVars>>

Writer ==
    \/ ClearItem \/ FillItem \/ SealItem \/ RejectItem \/ FinishWrite
    \/ Crash \/ Reattach

\* What PollSendable answers the writer while the segment has its name.
PollSendable == IF wpc = "down" THEN -1 ELSE 1

(***************************************************************************)
(* A reader: PollReadData, or ReadDataWithoutIndexStep and ReadIndexStep.  *)
(***************************************************************************)

\* PollReadDataWithoutIndexStep reads the index BEFORE it polls.
BeginRead(r) ==
    /\ rpc[r] = "idle"
    /\ rpc' = [rpc EXCEPT ![r] = "polling"]
    /\ read_index' = [read_index EXCEPT ![r] = m_uReadIndex[r]]
    /\ UNCHANGED <<m_uReadIndex, took, position, writerVars>>

\* One round of PollReadable that finds the index ahead of the writer's:
\* an index too far behind looks the same.
PollFails(r) ==
    /\ rpc[r] = "polling"
    /\ Gap(item_current, m_uReadIndex[r]) < 0
    /\ rpc' = [rpc EXCEPT ![r] = "error"]
    /\ UNCHANGED <<m_uReadIndex, read_index, took, position, writerVars>>

\* Any other round: catch up when the lag is too large, then report what is
\* left.  Nothing left: another round, or the timeout.
Poll(r) ==
    LET gap  == Gap(item_current, m_uReadIndex[r])
        next == CatchUp(m_uReadIndex[r], gap)
        left == Gap(item_current, next)
    IN  /\ rpc[r] = "polling"
        /\ gap >= 0
        /\ m_uReadIndex' = [m_uReadIndex EXCEPT ![r] = next]
        /\ position' = [position EXCEPT ![r] = published - left]
        /\ \/ /\ left = 0
              /\ \E pc \in {"polling", "idle"} : rpc' = [rpc EXCEPT ![r] = pc]
              /\ UNCHANGED took
           \/ /\ left # 0
              /\ rpc' = [rpc EXCEPT ![r] = "parsing"]
              /\ took' = [took EXCEPT ![r].item = published - left]
        /\ UNCHANGED <<read_index, writerVars>>

\* getItemVerFromReadBuffer refuses an item whose length is zero: the read
\* returns 0 and the index stays.
ReadLength(r) ==
    /\ rpc[r] = "parsing"
    /\ IF slots[SlotOf(read_index[r])].length = Blank
       THEN /\ rpc' = [rpc EXCEPT ![r] = "idle"]
            /\ took' = [took EXCEPT ![r] = Nothing]
       ELSE /\ rpc' = [rpc EXCEPT ![r] = "header"]
            /\ UNCHANGED took
    /\ UNCHANGED <<m_uReadIndex, read_index, position, writerVars>>

\* The head is parsed and pointers into the slot are handed out.  PollReadData
\* steps the index at once, ReadDataWithoutIndexStep leaves that to the caller.
\* A head zeroed in the meantime yields no data.
ParseHead(r) ==
    LET head == slots[SlotOf(read_index[r])].head
    IN  /\ rpc[r] = "header"
        /\ \/ /\ head = Blank
              /\ rpc' = [rpc EXCEPT ![r] = "idle"]
              /\ took' = [took EXCEPT ![r] = Nothing]
              /\ UNCHANGED <<m_uReadIndex, position>>
           \/ /\ head # Blank
              /\ rpc' = [rpc EXCEPT ![r] = "holding"]
              /\ took' = [took EXCEPT ![r].head = head]
              /\ m_uReadIndex' = [m_uReadIndex EXCEPT ![r] = (@ + 1) % IndexMod]
              /\ position' = [position EXCEPT ![r] = @ + 1]
           \/ /\ head # Blank
              /\ rpc' = [rpc EXCEPT ![r] = "peeking"]
              /\ took' = [took EXCEPT ![r].head = head]
              /\ UNCHANGED <<m_uReadIndex, position>>
        /\ UNCHANGED <<read_index, writerVars>>

\* The caller reads the payload through the pointers it was lent.
UsePayload(r) ==
    /\ rpc[r] \in {"holding", "peeking"}
    /\ took[r].body = Blank
    /\ took' = [took EXCEPT ![r].body = slots[SlotOf(read_index[r])].body]
    /\ UNCHANGED <<m_uReadIndex, read_index, rpc, position, writerVars>>

\* Mutants of Release: ReadIndexStep steps no index; the index is stepped again
\* after PollReadData.
ReleaseKeepsIndex(r) ==
    /\ rpc[r] \in {"holding", "peeking"}
    /\ took[r].body # Blank
    /\ rpc' = [rpc EXCEPT ![r] = "idle"]
    /\ took' = [took EXCEPT ![r] = Nothing]
    /\ UNCHANGED <<m_uReadIndex, read_index, position, writerVars>>

ReleaseTwice(r) ==
    /\ rpc[r] \in {"holding", "peeking"}
    /\ took[r].body # Blank
    /\ rpc' = [rpc EXCEPT ![r] = "idle"]
    /\ took' = [took EXCEPT ![r] = Nothing]
    /\ m_uReadIndex' = [m_uReadIndex EXCEPT ![r] = (@ + 1) % IndexMod]
    /\ position' = [position EXCEPT ![r] = @ + 1]
    /\ UNCHANGED <<read_index, writerVars>>

\* The caller is done with the item; after ReadDataWithoutIndexStep it calls
\* ReadIndexStep.
Release(r) ==
    /\ rpc[r] \in {"holding", "peeking"}
    /\ took[r].body # Blank
    /\ rpc' = [rpc EXCEPT ![r] = "idle"]
    /\ took' = [took EXCEPT ![r] = Nothing]
    /\ IF rpc[r] = "peeking"
       THEN /\ m_uReadIndex' = [m_uReadIndex EXCEPT ![r] = (@ + 1) % IndexMod]
            /\ position' = [position EXCEPT ![r] = @ + 1]
       ELSE UNCHANGED <<m_uReadIndex, position>>
    /\ UNCHANGED <<read_index, writerVars>>

\* After an error the caller destroys the handle and opens another, which
\* starts at item_current (InitOpenShm).
Reopen(r) ==
    /\ rpc[r] = "error"
    /\ rpc' = [rpc EXCEPT ![r] = "idle"]
    /\ m_uReadIndex' = [m_uReadIndex EXCEPT ![r] = item_current]
    /\ position' = [position EXCEPT ![r] = published]
    /\ UNCHANGED <<read_index, took, writerVars>>

ReaderStep(r) ==
    \/ BeginRead(r) \/ PollFails(r) \/ Poll(r) \/ ReadLength(r) \/ ParseHead(r)
    \/ UsePayload(r) \/ Release(r) \/ Reopen(r)

SeekReadIndexToWriteIndex(r) ==
    /\ rpc[r] = "idle"
    /\ m_uReadIndex' = [m_uReadIndex EXCEPT ![r] = item_current]
    /\ position' = [position EXCEPT ![r] = published]
    /\ UNCHANGED <<read_index, rpc, took, writerVars>>

\* How far behind the writer SeekReadIndexToRingStart goes.
RingStartLag ==
    IF item_current >= Count THEN Count - 1 ELSE item_current

SeekReadIndexToRingStart(r) ==
    /\ rpc[r] = "idle"
    /\ m_uReadIndex' = [m_uReadIndex EXCEPT ![r] = item_current - RingStartLag]
    /\ position' = [position EXCEPT ![r] = published - RingStartLag]
    /\ UNCHANGED <<read_index, rpc, took, writerVars>>

Seek(r) == SeekReadIndexToWriteIndex(r) \/ SeekReadIndexToRingStart(r)

Next == Writer \/ \E r \in Readers : ReaderStep(r) \/ Seek(r)

Spec == Init /\ [][Next]_vars

-----------------------------------------------------------------------------
(***************************************************************************)
(* Properties.                                                             *)
(***************************************************************************)

\* Every variable keeps its shape: indices are 32-bit, slots hold items.
TypeOK ==
    /\ item_current \in Indices
    /\ slots \in [Slots -> [length : Content, head : Content, body : Content]]
    /\ wpc \in {"idle", "cleared", "filled", "sealed", "failed", "down"}
    /\ m_uReadIndex \in [Readers -> Indices]
    /\ read_index \in [Readers -> Indices]
    /\ rpc \in [Readers -> {"idle", "polling", "parsing", "header", "holding", "peeking", "error"}]
    /\ took \in [Readers -> [item : Content, head : Content, body : Content]]
    /\ published \in Nat
    /\ refused \in [Slots -> BOOLEAN]
    /\ position \in [Readers -> Nat]

\* No index has jumped from one slot sequence into another: item_count divides
\* 2^32, or the index has not wrapped yet.  Where it does not divide it, slot
\* 0 follows the last slot before the wrap out of turn.
NoSeam == IndexMod % Count = 0 \/ published < IndexMod

\* The slot the item with this absolute number was written to.
HomeOf(item) == SlotOf(item % IndexMod)

\* The last Count - 1 published items, which the writer is not working on.
Window == {i \in (published - Count + 1) .. (published - 1) : i >= 0}

\* The ring really keeps a history of Count - 1 items: at any moment, in the
\* middle of any SendData and after any crash and restart of the writer, each
\* of the last Count - 1 items still lies complete in its slot, unless it is
\* an item a failed send published (sharememory.cpp, GetWriteItemAddr and
\* FinishWrite; libshm_media.cpp, _sendV4Data).
WindowIntact ==
    NoSeam => \A i \in Window :
        refused[HomeOf(i)] \/ slots[HomeOf(i)] = [length |-> i, head |-> i, body |-> i]

\* A caller who has read an item's head and payload while the writer stayed
\* fewer than Count items ahead has exactly the polled item: not a torn one,
\* not the slot's next tenant, and not another slot although the item's
\* address was computed from an index read before the catch-up of the poll.
WholeUnlessOverrun ==
    \A r \in Readers :
        (NoSeam /\ took[r].body # Blank /\ published - took[r].item < Count)
            => (took[r].head = took[r].item /\ took[r].body = took[r].item)

\* The same for the index: what the poll chose lies behind the writer, and
\* less than a ring behind, so with three slots or more the reader is never
\* sent to the slot the writer fills next (_readable's catch-up).
PollAvoidsWriterSlot ==
    [][\A r \in Readers :
          (NoSeam /\ rpc[r] = "polling" /\ rpc'[r] = "parsing" /\ Count >= 3)
              => SlotOf(read_index[r]) # WriteSlot]_vars

\* A poll reports an I/O error only to a reader that has fallen behind by half
\* the index range; no seek, catch-up or step puts an index ahead of the
\* writer's, which would look the same (_readable's negative gap).
NoSpuriousError ==
    [][\A r \in Readers :
          (rpc[r] = "polling" /\ rpc'[r] = "error")
              => published - position[r] >= IndexMod \div 2]_vars

=============================================================================
