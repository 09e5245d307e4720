----------------------------- MODULE WrapHandles -----------------------------
(* The handles that send and receive control commands and tvulive frames       *)
(* through a memory of variable items: CLibShmmediaCtrlCmdWrapHandle, whose     *)
(* reader opens the memory again when it was lost, and                         *)
(* CLibShmmediaTvuliveWrapHandle, whose reader can search backwards            *)
(* (CTvuVariableItemBaseShm::SearchWholeItems) and seek.                       *)
(*   memory  the memories there have been: what was sent to each and its close  *)
(*           flag, and the one that has the name (0: none),                    *)
(*   writer  the memory of the writing handle (0: there is none),              *)
(*   reader  the reading handle: its kind, its memory (0: lost), the index it  *)
(*           reads next, the number of the item that this stands for, and that *)
(*           of the item from which on it has read every one,                  *)
(*   call    the call of the reader that is under way,                         *)
(*   got     what was read and what the last search answered.                  *)
(* CompactRing has the words of the ring and ViShmLifecycle the steps of       *)
(* creating and opening; here a Commit is one step and so is each of those.    *)
EXTENDS WrapConstants, SequencesExt

VARIABLES memory, writer, reader, call, got, calls
vars == <<memory, writer, reader, call, got, calls>>

MaxItemIndex == 2 * MaxItemsNum
Newest == -1
IndexOf(i) == i % MaxItemIndex

Items(s) == memory.shms[s].items
WriteIndex(s) == IndexOf(Len(Items(s)))

(* The item whose index stands in the entry of position p; -1 for none.        *)
EntryAt(s, p) ==
  LET here == {i \in 0..Len(Items(s)) - 1 : i % MaxItemsNum = p % MaxItemsNum}
      last == CHOOSE i \in here : \A j \in here : j <= i
  IN IF here # {} /\ IndexOf(last) = p THEN last ELSE -1

-----------------------------------------------------------------------------
(* The writing handle, and those who end a memory.                             *)
Create ==
  /\ writer.shm = 0
  /\ IF memory.name # 0
       THEN /\ writer' = [writer EXCEPT !.shm = memory.name]
            /\ memory' = [memory EXCEPT !.shms[memory.name].closed = FALSE]
       ELSE /\ writer' = [writer EXCEPT !.shm = Len(memory.shms) + 1]
            /\ memory' = [memory EXCEPT !.shms = Append(@, [items |-> <<>>, closed |-> FALSE]),
                                        !.name = Len(memory.shms) + 1]
  /\ UNCHANGED <<reader, call, got, calls>>

(* Whether the name is still there is looked up once a second at most.         *)
SeesRemoved(s) == memory.name # s

Sendable(looks) == ~memory.shms[writer.shm].closed /\ ~(looks /\ SeesRemoved(writer.shm))

(* What write and writeBin send: bytes, as data of the type of the handle.     *)
Sent == [n |-> writer.sent, m |-> Feed[writer.sent + 1]]

Write ==
  /\ writer.shm # 0 /\ ~writer.leaving /\ writer.sent < Len(Feed)
  /\ \E looks \in BOOLEAN : Sendable(looks)
  /\ memory' = [memory EXCEPT !.shms[writer.shm].items = Append(@, Sent)]
  /\ writer' = [writer EXCEPT !.sent = @ + 1]
  /\ UNCHANGED <<reader, call, got, calls>>

Ends == writer.ends < MaxEnds

Destroy ==
  /\ writer.shm # 0 /\ ~writer.leaving /\ Ends
  /\ writer' = [writer EXCEPT !.leaving = TRUE, !.ends = @ + 1]
  /\ memory' = [memory EXCEPT !.shms[writer.shm].closed = TRUE]
  /\ UNCHANGED <<reader, call, got, calls>>

Unlink ==
  /\ writer.leaving
  /\ writer' = [writer EXCEPT !.shm = 0, !.leaving = FALSE]
  /\ memory' = [memory EXCEPT !.name = 0]
  /\ UNCHANGED <<reader, call, got, calls>>

Die ==
  /\ writer.shm # 0 /\ Ends
  /\ writer' = [writer EXCEPT !.shm = 0, !.leaving = FALSE, !.ends = @ + 1]
  /\ UNCHANGED <<memory, reader, call, got, calls>>

RemoveShm ==
  /\ memory.name # 0 /\ Ends
  /\ memory' = [memory EXCEPT !.name = 0]
  /\ writer' = [writer EXCEPT !.ends = @ + 1]
  /\ UNCHANGED <<reader, call, got, calls>>

-----------------------------------------------------------------------------
(* The reading handle.  It starts behind what was sent before.                 *)
Idle == [step |-> "idle", looked |-> 0, want |-> 0, windex |-> 0, at |-> 0, count |-> 0]

(* The reader starts with the first item (mutant of Opened).                   *)
OpenedAtZero(s) == [reader EXCEPT !.shm = s, !.next = 0, !.pos = 0, !.from = Len(Items(s))]
Opened(s) == [reader EXCEPT !.shm = s, !.next = WriteIndex(s), !.pos = Len(Items(s)),
                            !.from = Len(Items(s))]

Open ==
  /\ ~reader.made /\ memory.name # 0
  /\ reader' = [Opened(memory.name) EXCEPT !.made = TRUE]
  /\ UNCHANGED <<memory, writer, call, got, calls>>

NoLeave == [shm |-> 0, from |-> 0, pos |-> 0, looked |-> 0]
NoSearch == [hit |-> FALSE, i |-> 0, want |-> 0, shm |-> 0, looked |-> 0, now |-> 0]

Begin ==
  /\ reader.made /\ call.step = "idle" /\ calls < WrapCalls
  /\ calls' = calls + 1
  /\ got' = [got EXCEPT !.left = NoLeave, !.search = NoSearch]

Read ==
  /\ Begin
  /\ \/ /\ reader.shm # 0
        /\ call' = [Idle EXCEPT !.step = "look"]
        /\ UNCHANGED reader
     \/ /\ reader.shm = 0 /\ memory.name # 0
        /\ reader' = Opened(memory.name)
        /\ call' = [Idle EXCEPT !.step = "look"]
     \/ /\ reader.shm = 0 /\ memory.name = 0
        /\ UNCHANGED <<reader, call>>
  /\ UNCHANGED <<memory, writer>>

(* A control reader lets the memory go, and opens one in its next call.        *)
Lose(looked) ==
  /\ call' = Idle
  /\ reader' = IF reader.kind = "control" THEN [reader EXCEPT !.shm = 0] ELSE reader
  /\ got' = [got EXCEPT !.left = [shm |-> reader.shm, from |-> reader.from, pos |-> reader.pos,
                                  looked |-> looked]]

IsReadable == Len(Items(reader.shm)) > 0 /\ reader.next # WriteIndex(reader.shm)

Look ==
  /\ call.step = "look"
  /\ \/ /\ IsReadable
        /\ call' = [call EXCEPT !.step = "take"]
        /\ UNCHANGED <<reader, got>>
     \/ /\ ~IsReadable /\ SeesRemoved(reader.shm)
        /\ Lose(Len(Items(reader.shm)))
     \/ /\ ~IsReadable
        /\ call' = [call EXCEPT !.step = "flag", !.looked = Len(Items(reader.shm))]
        /\ UNCHANGED <<reader, got>>
  /\ UNCHANGED <<memory, writer, calls>>

(* Only a control reader waits: for a second.                                  *)
LookAtFlag ==
  /\ call.step = "flag"
  /\ \/ memory.shms[reader.shm].closed /\ Lose(call.looked)
     \/ /\ ~memory.shms[reader.shm].closed
        /\ call' = Idle
        /\ UNCHANGED <<reader, got>>
     \/ /\ ~memory.shms[reader.shm].closed /\ reader.kind = "control"
        /\ call' = [call EXCEPT !.step = "look"]
        /\ UNCHANGED <<reader, got>>
  /\ UNCHANGED <<memory, writer, calls>>

Position == IF reader.next = Newest THEN IndexOf(Len(Items(reader.shm)) - 1) ELSE reader.next

(* Data of another type are stepped over; an entry of another index is not.    *)
(* An entry may be of a later lap, and what lies between is lost to the reader. *)
Take ==
  /\ call.step = "take"
  /\ LET i == EntryAt(reader.shm, Position)
         item == Items(reader.shm)[i + 1]
     IN \/ i = -1 /\ UNCHANGED <<reader, got>>
        \/ /\ i # -1
           /\ reader' = [reader EXCEPT !.next = IndexOf(i + 1), !.pos = i + 1,
                                       !.from = IF i < reader.pos + MaxItemIndex THEN @ ELSE i]
           /\ got' = IF item.m = 0 THEN got ELSE [got EXCEPT !.read = Append(@, item.n)]
  /\ call' = Idle
  /\ UNCHANGED <<memory, writer, calls>>

-----------------------------------------------------------------------------
(* Where a reader of tvulive frames goes on.                                   *)
SeekReadIndexToWriteIndex ==
  /\ Begin /\ reader.kind = "tvulive"
  /\ reader' = [reader EXCEPT !.next = Newest, !.pos = Len(Items(reader.shm)) - 1]
  /\ UNCHANGED <<memory, writer, call>>

PreviousIndexStep(p) == IF p = 0 THEN MaxItemIndex - 1 ELSE p - 1

SearchItems ==
  /\ Begin /\ reader.kind = "tvulive"
  /\ \E m \in Range(Feed) \ {0} :
       call' = [Idle EXCEPT !.step = "search", !.want = m, !.looked = Len(Items(reader.shm)),
                            !.windex = WriteIndex(reader.shm), !.count = MaxItemsNum - 1,
                            !.at = PreviousIndexStep(WriteIndex(reader.shm))]
  /\ UNCHANGED <<memory, writer, reader>>

Answer(hit, i, next) ==
  /\ call' = Idle
  /\ reader' = [reader EXCEPT !.next = next, !.pos = i]
  /\ got' = [got EXCEPT !.search = [hit |-> hit, i |-> i, want |-> call.want, shm |-> reader.shm,
                                    looked |-> call.looked, now |-> Len(Items(reader.shm))]]

(* Behind a miss the reader goes on where the search ended (mutant of Miss).   *)
MissAtOldest == Answer(FALSE, call.looked, call.at)
Miss == Answer(FALSE, call.looked, call.windex)

IsSearched(item) == item.m = call.want

(* One item after the other, from the last one back, while their entries are    *)
(* the ones expected.                                                          *)
SearchStep ==
  /\ call.step = "search"
  /\ LET i == EntryAt(reader.shm, call.at)
         item == Items(reader.shm)[i + 1]
     IN \/ (call.count = 0 \/ i = -1) /\ Miss
        \/ call.count > 0 /\ i # -1 /\ IsSearched(item) /\ Answer(TRUE, i, call.at)
        \/ /\ call.count > 0 /\ i # -1 /\ ~IsSearched(item)
           /\ call' = [call EXCEPT !.count = @ - 1, !.at = PreviousIndexStep(@)]
           /\ UNCHANGED <<reader, got>>
  /\ UNCHANGED <<memory, writer, calls>>

-----------------------------------------------------------------------------
Init ==
  /\ memory = [shms |-> <<>>, name |-> 0]
  /\ writer = [shm |-> 0, leaving |-> FALSE, sent |-> 0, ends |-> 0]
  /\ \E kind \in {"control", "tvulive"} :
       reader = [kind |-> kind, made |-> FALSE, shm |-> 0, next |-> 0, pos |-> 0, from |-> 0]
  /\ call = Idle
  /\ got = [read |-> <<>>, left |-> NoLeave, search |-> NoSearch]
  /\ calls = 0

Next ==
  \/ Create \/ Write \/ Destroy \/ Unlink \/ Die \/ RemoveShm
  \/ Open \/ Read \/ Look \/ LookAtFlag \/ Take
  \/ SeekReadIndexToWriteIndex \/ SearchItems \/ SearchStep

Spec == Init /\ [][Next]_vars

-----------------------------------------------------------------------------
Ascending(s) == \A i \in 1..Len(s) - 1 : s[i] < s[i + 1]

(* A control reader gets the commands in the order they were sent and none of   *)
(* them twice, however often it loses the memory and opens it or another one   *)
(* again; and it does not leave a memory before it has got every command that   *)
(* was sent there between its opening, or the last time it was lapped, and its  *)
(* last look, unless the writer has meanwhile gone round all the indices.      *)
CommandsArrive ==
  reader.kind = "control" =>
    /\ Ascending(got.read)
    /\ got.left.shm # 0 /\ got.left.looked - got.left.pos < MaxItemIndex =>
         \A i \in got.left.from..got.left.looked - 1 :
            LET item == Items(got.left.shm)[i + 1] IN item.m # 0 => item.n \in Range(got.read)

(* A search ends at the newest of the items wanted that had been sent when it   *)
(* began; it misses none but those whose entries were reused since, and the    *)
(* reader is then where it skips nothing of what was sent during the search.   *)
SearchEndsAtNewest ==
  LET s == got.search
      Wanted(i) == Items(s.shm)[i + 1].m = s.want
  IN s.shm # 0 =>
       /\ s.hit => Wanted(s.i)
       /\ \A i \in 0..s.looked - 1 :
            i > (IF s.hit THEN s.i ELSE s.looked - MaxItemsNum) /\ Wanted(i)
              => ~s.hit /\ s.now - i >= MaxItemsNum
       /\ ~s.hit => s.i = s.looked
       /\ call.step = "idle" /\ reader.pos = s.i => reader.next \in {IndexOf(s.i), Newest}
=============================================================================
