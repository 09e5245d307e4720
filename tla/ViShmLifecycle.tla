--------------------------- MODULE ViShmLifecycle ---------------------------
(***************************************************************************)
(* The life of a variable-item shared memory: CTvuVariableItemBaseShm      *)
(* (libsharememory/src/shm_variable_item_ring_buff.cpp) on top of          *)
(* SharedCompactRingBuffer and SharedMemory (libvaItemSharedMemory/src),   *)
(* driven by CTvuVariableItemRingShmCtx (libshm_media_variable_item.cpp).  *)
(*                                                                         *)
(* A memory is initialised twice: SharedCompactRingBuffer::Create writes a *)
(* control block with a magic code, then InitCreateShm a header with a     *)
(* version in the area behind it.  Nobody clears the header, and nobody    *)
(* but the creator that made the file zeroes the control block.            *)
(*                                                                         *)
(* As in ShmLifecycle system calls go by name, stores to a mapping, waits  *)
(* have no clock, and between two system calls or two stores others can    *)
(* tell apart everyone else runs.                                          *)
(***************************************************************************)
EXTENDS Naturals, FiniteSets

CONSTANTS
    Creators,     \* processes that call LibViShmMediaCreate
    Readers,      \* processes that call LibViShmMediaOpen
    Removers,     \* processes that call LibViShmMediaRemoveShmFromSystem
    Segments,     \* identities of segments, reused once nobody refers to them
    NoSegment,    \* the name is free, or a process maps nothing
    Geometries,   \* sizes a creator may ask for, as numbers
    MaxItemsNum,  \* entries of the index table
    MaxFrames,    \* bound: items sent to one segment
    MaxFaults     \* bound: kills, failed ftruncates, removals, shutdowns

ASSUME ViLifecycleAssumption ==
    /\ NoSegment \notin Segments
    /\ Geometries \subseteq Nat \ {0}
    /\ MaxItemsNum \in Nat \ {0, 1}
    /\ MaxFrames \in Nat
    /\ MaxFaults \in Nat
    /\ Creators \cap (Readers \cup Removers) = {}
    /\ Readers \cap Removers = {}

VARIABLES
    name,       \* the segment /dev/shm/<name> refers to
    seg,        \* file size, control block and header of every segment
    pc,         \* where each process is
    at,         \* the segment it has open
    span,       \* _size: how much of it it has mapped
    want,       \* the geometry each creator asks for
    readIndex,  \* _nextReadingIndex of each reader and remover
    faults,     \* how many faults have happened
    killed      \* ghost: the last owner of the segment was killed

vars == <<name, seg, pc, at, span, want, readIndex, faults, killed>>

Clients == Readers \cup Removers
MaxItemIndex == 2 * MaxItemsNum
Processes == Creators \cup Clients

\* magic, count, written: the control block is valid, what it was laid out
\* for, how often Commit has finished; version, init, closed: the header.
Blank == [size |-> 0, magic |-> FALSE, count |-> 0, written |-> 0,
          version |-> FALSE, init |-> FALSE, closed |-> FALSE]

Init ==
    /\ name = NoSegment
    /\ seg = [s \in Segments |-> Blank]
    /\ pc = [p \in Processes |-> "idle"]
    /\ at = [p \in Processes |-> NoSegment]
    /\ span = [p \in Processes |-> 0]
    /\ want = [c \in Creators |-> 0]
    /\ readIndex = [r \in Clients |-> 0]
    /\ faults = 0
    /\ killed = [s \in Segments |-> FALSE]

Fault == faults < MaxFaults /\ faults' = faults + 1

At(p, from, to) == pc[p] = from /\ pc' = [pc EXCEPT ![p] = to]

Unreferenced(s) == name # s /\ \A p \in Processes : at[p] # s

\* The kernel frees a segment that has lost its name and its last mapping.
Reap(header, dead) ==
    /\ seg' = [s \in Segments |-> IF Unreferenced(s)' THEN Blank ELSE header[s]]
    /\ killed' = [s \in Segments |-> dead[s] /\ ~Unreferenced(s)']

\* mmap takes no empty file, _isValidShmData no control block but this one.
Mappable(s) == seg[s].size > 0 /\ seg[s].magic /\ seg[s].count = seg[s].size

\* _isValidShmData: the magic code, and a total size equal to the mapping's.
IsValid(p) == seg[at[p]].magic /\ seg[at[p]].count = span[p]

\* setCloseFlag and checkCloseFlag, as for fixed items.
SetCloseFlag(s) == [seg EXCEPT ![s].closed = @ \/ seg[s].version]
CheckCloseFlag(s) == seg[s].closed \/ ~seg[s].version

\* The states of a creator that will keep the segment or set its close flag.
Owning == {"judge", "status", "finish", "ready", "destroy"}

\* Mutant: SharedMemory::Close that leaves _size as it was.
LetGoKeepsSize(p) ==
    /\ at' = [at EXCEPT ![p] = NoSegment]
    /\ UNCHANGED span

\* The handle is closed: munmap, close.
LetGo(p) ==
    /\ at' = [at EXCEPT ![p] = NoSegment]
    /\ span' = [span EXCEPT ![p] = 0]

\* A store to the segment p has open, at one place of its program.
Store(p, from, to, header) ==
    /\ At(p, from, to)
    /\ seg' = header
    /\ UNCHANGED <<name, at, span, want, readIndex, faults, killed>>

-----------------------------------------------------------------------------
(* The creator: CreateShmEntry.                                            *)

\* Mutant: the memory is created without trying to open it first.
OpenNever(c) ==
    /\ At(c, "idle", "make")
    /\ \E g \in Geometries : want' = [want EXCEPT ![c] = g]
    /\ UNCHANGED <<name, seg, at, span, readIndex, faults, killed>>

\* _open, RingShmOpen: shm_open without O_CREAT.
OpenExisting(c) ==
    /\ At(c, "idle", IF name = NoSegment THEN "make" ELSE "map")
    /\ \E g \in Geometries : want' = [want EXCEPT ![c] = g]
    /\ at' = [at EXCEPT ![c] = name]
    /\ UNCHANGED <<name, seg, span, readIndex, faults, killed>>

\* Then mmap and _isValidShmData.
MapExisting(c) ==
    /\ At(c, "map", "wait")
    /\ Mappable(at[c])
    /\ span' = [span EXCEPT ![c] = seg[at[c]].size]
    /\ UNCHANGED <<name, seg, at, want, readIndex, faults, killed>>

\* An empty file cannot be mapped, another is not valid: to be created.
OpenRefused(c) ==
    /\ At(c, "map", "make")
    /\ ~Mappable(at[c])
    /\ LetGo(c)
    /\ UNCHANGED <<name, want, readIndex, faults>>
    /\ Reap(seg, killed)

\* InitOpenShm sees a version.
SeeHeader(c) ==
    /\ At(c, "wait", "judge")
    /\ seg[at[c]].version
    /\ killed' = [killed EXCEPT ![at[c]] = FALSE]
    /\ UNCHANGED <<name, seg, at, span, want, readIndex, faults>>

\* It does not in time: the ring is destroyed, name and all.  CreateOrOpen
\* goes on with the header's address, which is no longer mapped, and the
\* process fails at setCloseFlag; what is left is the same as if it had not.
HeaderMissing(c) ==
    /\ At(c, "wait", "idle")
    /\ ~seg[at[c]].version
    /\ name' = NoSegment
    /\ LetGo(c)
    /\ want' = [want EXCEPT ![c] = 0]
    /\ UNCHANGED <<readIndex, faults>>
    /\ Reap(seg, killed)

\* SharedMemory::Create: shm_open without O_CREAT once more ...
OpenOrCreate(c) ==
    /\ At(c, "make", IF name = NoSegment THEN "create" ELSE "exist")
    /\ at' = [at EXCEPT ![c] = name]
    /\ UNCHANGED <<name, seg, span, want, readIndex, faults, killed>>

\* An empty file; any one will do, since a segment has no identity.
Fresh == CHOOSE s \in Segments : Unreferenced(s)

\* ... then with O_CREAT, without O_EXCL: isNew, whoever made the file.
MakeSegment(c) ==
    /\ At(c, "create", "grow")
    /\ name # NoSegment \/ \E s \in Segments : Unreferenced(s)
    /\ name' = IF name = NoSegment THEN Fresh ELSE name
    /\ at' = [at EXCEPT ![c] = name']
    /\ UNCHANGED <<seg, span, want, readIndex, faults, killed>>

\* ftruncate and mmap.
GrowSegment(c) ==
    /\ At(c, "grow", "zero")
    /\ seg' = [seg EXCEPT ![at[c]].size = want[c]]
    /\ span' = [span EXCEPT ![c] = want[c]]
    /\ UNCHANGED <<name, at, want, readIndex, faults, killed>>

\* ftruncate fails: the call returns, and the file keeps its name.
GrowFails(c) ==
    /\ Fault
    /\ At(c, "grow", "idle")
    /\ LetGo(c)
    /\ want' = [want EXCEPT ![c] = 0]
    /\ UNCHANGED <<name, readIndex>>
    /\ Reap(seg, killed)

\* InitializeZero of the control block ...
ZeroControl(c) ==
    Store(c, "zero", "fill", [seg EXCEPT ![at[c]].magic = FALSE,
                                         ![at[c]].count = 0, ![at[c]].written = 0])

\* ... and its contents.
FillControl(c) ==
    Store(c, "fill", "check", [seg EXCEPT ![at[c]].magic = TRUE, ![at[c]].count = want[c]])

\* Not new: mmap, and sizes that are only warned about.
MapForCreate(c) ==
    /\ At(c, "exist", "check")
    /\ seg[at[c]].size > 0
    /\ span' = [span EXCEPT ![c] = seg[at[c]].size]
    /\ UNCHANGED <<name, seg, at, want, readIndex, faults, killed>>

\* Not new and empty: LibViShmMediaCreate returns NULL, the file stays.
CreateRefused(c) ==
    /\ At(c, "exist", "idle")
    /\ seg[at[c]].size = 0
    /\ LetGo(c)
    /\ want' = [want EXCEPT ![c] = 0]
    /\ UNCHANGED <<name, readIndex, faults>>
    /\ Reap(seg, killed)

\* New or not, a control block that is not valid: unlinked, NULL.
CheckControl(c) ==
    /\ At(c, "check", IF IsValid(c) THEN "header" ELSE "idle")
    /\ IF IsValid(c)
         THEN UNCHANGED <<name, seg, at, span, want, killed>>
         ELSE /\ name' = NoSegment
              /\ LetGo(c)
              /\ want' = [want EXCEPT ![c] = 0]
              /\ Reap(seg, killed)
    /\ UNCHANGED <<readIndex, faults>>

\* InitCreateShm: an invalid version, the geometry, the version.
InvalidateHeader(c) ==
    Store(c, "header", "version", [seg EXCEPT ![at[c]].version = FALSE])
PublishVersion(c) ==
    /\ At(c, "version", "judge")
    /\ seg' = [seg EXCEPT ![at[c]].version = TRUE]
    /\ killed' = [killed EXCEPT ![at[c]] = FALSE]
    /\ UNCHANGED <<name, at, span, want, readIndex, faults>>

\* GetInfo: the memory is as large as was asked for.
Suits(c) ==
    /\ Store(c, "judge", "status", seg)
    /\ want[c] <= seg[at[c]].count

\* Mutant: the memory that is too small is unlinked, its readers not told.
RefuseSilently(c) ==
    /\ Store(c, "judge", "unlink", seg)
    /\ want[c] > seg[at[c]].count

\* It is not: FAILED sets the close flag, the destructor will unlink.
RefuseExisting(c) ==
    /\ Store(c, "judge", "unlink", SetCloseFlag(at[c]))
    /\ want[c] > seg[at[c]].count

\* initShmV4 of a writing handle: close_flag to 0, then init_flag.
ClearCloseFlag(c) ==
    Store(c, "status", "finish", [seg EXCEPT ![at[c]].closed = FALSE])
FinishInit(c) ==
    Store(c, "finish", "ready", [seg EXCEPT ![at[c]].init = TRUE])

\* SendData, ending in Commit.
Send(c) ==
    /\ Store(c, "ready", "ready", [seg EXCEPT ![at[c]].written = @ + 1])
    /\ seg[at[c]].written < MaxFrames

\* PollSendable returns -1: closed, the NAME gone, or not valid.
SendableFails(c) ==
    /\ Store(c, "ready", "destroy", seg)
    /\ CheckCloseFlag(at[c]) \/ name = NoSegment \/ ~IsValid(c)

\* The application shuts its writer down.
ShutDown(c) ==
    /\ Fault
    /\ At(c, "ready", "destroy")
    /\ UNCHANGED <<name, seg, at, span, want, readIndex, killed>>

\* Mutant: LibViShmMediaDestroy without the close flag.
DestroySilently(c) == Store(c, "destroy", "unlink", seg)

\* LibViShmMediaDestroy of a creator: the close flag ...
DestroyFlag(c) == Store(c, "destroy", "unlink", SetCloseFlag(at[c]))

\* ... and SharedMemory::Destroy, which unlinks whatever has the name.
DestroyUnlink(c) ==
    /\ At(c, "unlink", "idle")
    /\ name' = NoSegment
    /\ LetGo(c)
    /\ want' = [want EXCEPT ![c] = 0]
    /\ UNCHANGED <<readIndex, faults>>
    /\ Reap(seg, killed)

\* The process is killed: its mapping goes, name and segment stay.
Kill(c) ==
    /\ Fault
    /\ pc[c] # "idle"
    /\ pc' = [pc EXCEPT ![c] = "idle"]
    /\ LetGo(c)
    /\ want' = [want EXCEPT ![c] = 0]
    /\ UNCHANGED <<name, readIndex>>
    /\ Reap(seg, [s \in Segments |-> killed[s] \/ (at[c] = s /\ pc[c] \in Owning)])

CreatorStep(c) ==
    \/ OpenExisting(c) \/ MapExisting(c) \/ OpenRefused(c)
    \/ SeeHeader(c) \/ HeaderMissing(c)
    \/ OpenOrCreate(c) \/ MakeSegment(c) \/ GrowSegment(c)
    \/ ZeroControl(c) \/ FillControl(c)
    \/ MapForCreate(c) \/ CreateRefused(c) \/ CheckControl(c)
    \/ InvalidateHeader(c) \/ PublishVersion(c)
    \/ Suits(c) \/ RefuseExisting(c) \/ ClearCloseFlag(c) \/ FinishInit(c)
    \/ Send(c) \/ SendableFails(c) \/ DestroyFlag(c) \/ DestroyUnlink(c)

CreatorFault(c) == GrowFails(c) \/ ShutDown(c) \/ Kill(c)
-----------------------------------------------------------------------------
(* The reader: Open, then PollReadable and Read until it returns -1.       *)
(* The remover: Open, the close flag, Close, and RemoveShmFromKernal.      *)

\* Where a client goes once LibViShmMediaOpen has returned NULL.
Failed(r) == IF r \in Removers THEN "rmopen" ELSE "idle"

\* A client that lets go of its handle: munmap and close, never an unlink.
Close(r, from, to) ==
    /\ At(r, from, to)
    /\ LetGo(r)
    /\ readIndex' = [readIndex EXCEPT ![r] = 0]
    /\ UNCHANGED <<name, want, faults>>
    /\ Reap(seg, killed)

\* SharedMemory::Open: shm_open without O_CREAT.
Open(r) ==
    /\ At(r, "idle", IF name = NoSegment THEN Failed(r) ELSE "map")
    /\ at' = [at EXCEPT ![r] = name]
    /\ IF r \in Removers
         THEN Fault
         ELSE name # NoSegment /\ UNCHANGED faults
    /\ UNCHANGED <<name, seg, span, want, readIndex, killed>>

\* mmap and _isValidShmData; in RemoveShmFromKernal as in Open.
Map(r) ==
    /\ At(r, "map", "wait") \/ At(r, "rmmap", "unlink")
    /\ Mappable(at[r])
    /\ span' = [span EXCEPT ![r] = seg[at[r]].size]
    /\ UNCHANGED <<name, seg, at, want, readIndex, faults, killed>>

\* InitOpenShm: a version, and the read index starts at the write index.
SeeVersion(r) ==
    /\ At(r, "wait", "status")
    /\ seg[at[r]].version
    /\ readIndex' = [readIndex EXCEPT ![r] = seg[at[r]].written % MaxItemIndex]
    /\ UNCHANGED <<name, seg, at, span, want, faults, killed>>

\* initShmV4 of a reading handle: the init flag is there.
SeeInit(r) ==
    /\ Store(r, "status", IF r \in Removers THEN "flag" ELSE "poll", seg)
    /\ seg[at[r]].init

\* Not valid, no version in time, no init flag in time: NULL.
OpenFails(r) ==
    \/ Close(r, "map", Failed(r)) /\ ~Mappable(at[r])
    \/ Close(r, "wait", Failed(r)) /\ ~seg[at[r]].version
    \/ Close(r, "status", Failed(r)) /\ ~seg[at[r]].init

\* IsReadable: something was sent, and the write index is another one.
Waiting(r) ==
    /\ seg[at[r]].written > 0
    /\ readIndex[r] # seg[at[r]].written % MaxItemIndex

\* Read finds the index in its entry of the table: it is among the newest.
Holding(r) ==
    \E age \in 1 .. MaxItemsNum :
      /\ age <= seg[at[r]].written
      /\ readIndex[r] = (seg[at[r]].written - age) % MaxItemIndex

\* PollReadable, first: Readable.  A control block that is not valid: -1 ...
PollInvalid(r) == Close(r, "poll", "idle") /\ ~IsValid(r)

\* ... data that is read ...
PollData(r) ==
    /\ At(r, "poll", "poll")
    /\ IsValid(r) /\ Waiting(r) /\ Holding(r)
    /\ readIndex' = [readIndex EXCEPT ![r] = (@ + 1) % MaxItemIndex]
    /\ UNCHANGED <<name, seg, at, span, want, faults, killed>>

\* ... data that is not there any more: "readable" all the same, so Read
\* finds nothing, and the poll comes to nothing of what follows ...
PollStale(r) ==
    /\ Store(r, "poll", "poll", seg)
    /\ IsValid(r) /\ Waiting(r) /\ ~Holding(r)

\* ... or nothing, then the name is looked up, if that is due ...
PollEmpty(r) == Store(r, "poll", "name", seg) /\ IsValid(r) /\ ~Waiting(r)

\* ... and is gone: -1.
PollRemoved(r) == Close(r, "name", "idle") /\ name = NoSegment

\* It is there, or the check is not due.
PollNamed(r) == Store(r, "name", "close", seg)

\* Then CheckCloseFlag: -1, or poll again.
PollLeaves(r) == Close(r, "close", "idle") /\ CheckCloseFlag(at[r])
PollAgain(r) == Store(r, "close", "poll", seg) /\ ~CheckCloseFlag(at[r])

\* LibViShmMediaRemoveShmFromSystem: the close flag and the handle ...
RemoveFlag(r) ==
    /\ At(r, "flag", "rmopen")
    /\ LetGo(r)
    /\ readIndex' = [readIndex EXCEPT ![r] = 0]
    /\ UNCHANGED <<name, want, faults>>
    /\ Reap(SetCloseFlag(at[r]), killed)

\* ... then RemoveShmFromKernal, which opens the memory once more ...
RemoveOpen(r) ==
    /\ At(r, "rmopen", IF name = NoSegment THEN "idle" ELSE "rmmap")
    /\ at' = [at EXCEPT ![r] = name]
    /\ UNCHANGED <<name, seg, span, want, readIndex, faults, killed>>

\* ... leaves one that is not valid, and reports 0 ...
RemoveRefused(r) == Close(r, "rmmap", "idle") /\ ~Mappable(at[r])

\* ... and unlinks whatever has the name by now.
RemoveName(r) ==
    /\ At(r, "unlink", "idle")
    /\ name' = NoSegment
    /\ LetGo(r)
    /\ UNCHANGED <<want, readIndex, faults>>
    /\ Reap(seg, killed)

ClientStep(r) ==
    \/ Open(r) \/ Map(r) \/ SeeVersion(r) \/ SeeInit(r) \/ OpenFails(r)
    \/ PollInvalid(r) \/ PollData(r) \/ PollStale(r) \/ PollEmpty(r)
    \/ PollRemoved(r) \/ PollNamed(r) \/ PollLeaves(r) \/ PollAgain(r)
    \/ RemoveFlag(r) \/ RemoveOpen(r) \/ RemoveRefused(r) \/ RemoveName(r)

Next ==
    \/ \E c \in Creators : CreatorStep(c) \/ CreatorFault(c)
    \/ \E r \in Clients : ClientStep(r)

Spec == Init /\ [][Next]_vars

-----------------------------------------------------------------------------
(* What must hold.                                                         *)

Contents == [size : Nat, magic : BOOLEAN, count : Nat, written : Nat,
             version : BOOLEAN, init : BOOLEAN, closed : BOOLEAN]

\* Where a process has a segment open but not mapped, and where it has both.
Opened == {"map", "exist", "grow", "rmmap"}
Mapped == {"wait", "zero", "fill", "check", "header", "version", "unlink",
           "status", "flag", "poll", "name", "close"} \cup Owning

\* Type invariant: every variable has its type, and a process has a segment
\* open, and mapped, in exactly the states in which the code holds _shmId
\* and _bytes.
TypeOK ==
    /\ name \in Segments \cup {NoSegment}
    /\ seg \in [Segments -> Contents]
    /\ pc \in [Processes -> Opened \cup Mapped \cup {"idle", "make", "create",
                                                    "rmopen"}]
    /\ at \in [Processes -> Segments \cup {NoSegment}]
    /\ span \in [Processes -> Nat]
    /\ want \in [Creators -> Nat]
    /\ readIndex \in [Clients -> 0 .. MaxItemIndex - 1]
    /\ faults \in 0 .. MaxFaults
    /\ killed \in [Segments -> BOOLEAN]
    /\ \A p \in Processes : at[p] # NoSegment <=> pc[p] \in Opened \cup Mapped
    /\ \A p \in Processes : span[p] # 0 <=> pc[p] \in Mapped
    /\ \A c \in Creators : want[c] # 0 <=> pc[c] # "idle"

\* An owner of the segment: it will keep it or set its close flag.
Held(s) == \E c \in Creators : at[c] = s /\ pc[c] \in Owning

Reading(r) == pc[r] \in {"poll", "name", "close"}

\* No reader is stranded: when the memory a reader maps has lost its name,
\* its header says closed, or an owner still has it and will say so, or its
\* last owner was killed.  However creators, removers and refusals overlap:
\* every unlink of a memory with a header comes after its close flag, or
\* takes the name of a memory that is another creator's to close.
NotStranded ==
    \A r \in Readers :
      Reading(r) /\ at[r] # name
        => CheckCloseFlag(at[r]) \/ Held(at[r]) \/ killed[at[r]]

\* The header and the control block a reader relies on are not initialised
\* again: a creator that finds a memory it may use never gets to
\* InitializeZero or InitCreateShm.  Holds with one creator at a time.
NeverReinitialised ==
    \A c \in Creators : pc[c] \in {"zero", "fill", "header", "version"}
      => \A r \in Readers : Reading(r) => at[r] # at[c]
=============================================================================
