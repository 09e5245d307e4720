---------------------------- MODULE ShmLifecycle ----------------------------
(***************************************************************************)
(* The life of a fixed-item shared memory: how a POSIX segment is created, *)
(* attached, initialised, closed, unlinked and abandoned by                *)
(* CTvuBaseShareMemory (libsharememory/src/sharememory.cpp) and            *)
(* CLibShmMediaCtx (libshmmedia/src/libshm_media.cpp).                     *)
(*                                                                         *)
(* A segment lives as long as it has the name or a process maps it.  Every *)
(* system call is by NAME, every store goes to the segment a process maps, *)
(* and the two may have parted: that is where the hard behaviour is.       *)
(* Between any two system calls or header stores of one process, the       *)
(* others run, and a creator may be killed.                                *)
(*                                                                         *)
(* Clocks are not modelled.  A wait of WAIT_MS_NUM ms may time out at any  *)
(* moment at which what it waits for is not there; the once-a-second       *)
(* removal check may or may not be due at any poll.                        *)
(***************************************************************************)
EXTENDS Naturals, FiniteSets

CONSTANTS
    Creators,     \* processes that call LibShmMediaCreate
    Readers,      \* processes that call LibShmMediaOpen
    Removers,     \* processes that call LibShmMediaRemoveShmidFromSystem
    Segments,     \* identities of segments, reused once nobody refers to them
    NoSegment,    \* the name is free, or a process maps nothing
    Geometries,   \* sizes a creator may ask for, as numbers
    MaxFrames,    \* bound: items sent to one segment
    MaxFaults     \* bound: kills, failed ftruncates, removals, shutdowns

ASSUME LifecycleAssumption ==
    /\ NoSegment \notin Segments
    /\ Geometries \subseteq Nat \ {0}
    /\ MaxFrames \in Nat
    /\ MaxFaults \in Nat
    /\ Readers \cap Removers = {}

VARIABLES
    name,         \* the segment /dev/shm/<name> refers to
    seg,          \* file size and header of every segment
    cpc, cseg,    \* where each creator is, the segment it has open
    want,         \* the geometry each creator asks for
    rpc, rseg,    \* where each reader or remover is, the segment it has open
    readIndex,    \* m_uReadIndex of each reader
    sawClosed,    \* bClosed of the poll in progress
    faults,       \* how many faults have happened
    killed,       \* ghost: the last owner of the segment was killed
    owed          \* ghost: what was written when the reader saw the close flag

shared  == <<name, seg>>
creator == <<cpc, cseg, want>>
reader  == <<rpc, rseg, readIndex, sawClosed, owed>>
vars    == <<shared, creator, reader, faults, killed>>

Clients == Readers \cup Removers

\* A file that shm_open has just created: empty, so no header yet.
Blank == [size |-> 0, count |-> 0, valid |-> FALSE, init |-> FALSE,
          closed |-> FALSE, written |-> 0]

Init ==
    /\ name = NoSegment
    /\ seg = [s \in Segments |-> Blank]
    /\ cpc = [c \in Creators |-> "idle"]
    /\ cseg = [c \in Creators |-> NoSegment]
    /\ want = [c \in Creators |-> 0]
    /\ rpc = [r \in Clients |-> "idle"]
    /\ rseg = [r \in Clients |-> NoSegment]
    /\ readIndex = [r \in Clients |-> 0]
    /\ sawClosed = [r \in Clients |-> FALSE]
    /\ owed = [r \in Clients |-> 0]
    /\ faults = 0
    /\ killed = [s \in Segments |-> FALSE]

Fault == faults < MaxFaults /\ faults' = faults + 1

Unreferenced(s) ==
    /\ name # s
    /\ \A c \in Creators : cseg[c] # s
    /\ \A r \in Clients : rseg[r] # s

\* The kernel frees a segment that has lost its name and its last mapping.
\* Said last in an action that drops one of them; header is seg otherwise.
Reap(header, dead) ==
    /\ seg' = [s \in Segments |-> IF Unreferenced(s)' THEN Blank ELSE header[s]]
    /\ killed' = [s \in Segments |-> dead[s] /\ ~Unreferenced(s)']

\* setCloseFlag: a header without a valid version is left alone.
SetCloseFlag(s) == [seg EXCEPT ![s].closed = @ \/ seg[s].valid]

\* checkCloseFlag: a header without a valid version counts as closed.
CheckCloseFlag(s) == seg[s].closed \/ ~seg[s].valid

\* The states of a creator that will still write to its segment's header,
\* or set its close flag.
Owning == {"publish", "status", "finish", "ready", "destroy"}

-----------------------------------------------------------------------------
(* The creator: CreateOrOpen, then initShmV4.                              *)

CreatorAt(c, from, to) == cpc[c] = from /\ cpc' = [cpc EXCEPT ![c] = to]

\* Mutant: CloseMapFile that does not reset m_iShmId.
CreatorGoneKeepsId(c) ==
    /\ want' = [want EXCEPT ![c] = 0]
    /\ UNCHANGED cseg

\* A creator that has closed its handle.
CreatorGone(c) ==
    /\ cseg' = [cseg EXCEPT ![c] = NoSegment]
    /\ want' = [want EXCEPT ![c] = 0]

\* _open(name, true): shm_open without O_CREAT.
OpenExisting(c) ==
    /\ cpc[c] = "idle"
    /\ \E g \in Geometries : want' = [want EXCEPT ![c] = g]
    /\ cseg' = [cseg EXCEPT ![c] = name]
    /\ cpc' = [cpc EXCEPT ![c] = IF name = NoSegment THEN "make" ELSE "map"]
    /\ UNCHANGED <<shared, reader, faults, killed>>

\* mmap of a file that has a size; one of size 0 cannot be mapped.
MapExisting(c) ==
    /\ CreatorAt(c, "map", "wait")
    /\ seg[cseg[c]].size > 0
    /\ UNCHANGED <<shared, reader, cseg, want, faults, killed>>

\* Mutant: the memory that cannot be used keeps its name.
DropExistingKeepsName(c) ==
    /\ \/ CreatorAt(c, "map", "make") /\ seg[cseg[c]].size = 0
       \/ CreatorAt(c, "wait", "make") /\ ~seg[cseg[c]].valid
       \/ CreatorAt(c, "toosmall", "make")
    /\ cseg' = [cseg EXCEPT ![c] = NoSegment]
    /\ UNCHANGED <<name, reader, want, faults>>
    /\ Reap(seg, killed)

\* CloseMapFileAndSleep of a writing handle: close, and unlink BY NAME.
DropExisting(c) ==
    /\ \/ CreatorAt(c, "map", "make") /\ seg[cseg[c]].size = 0
       \/ CreatorAt(c, "wait", "make") /\ ~seg[cseg[c]].valid   \* timed out
       \/ CreatorAt(c, "toosmall", "make")
    /\ name' = NoSegment
    /\ cseg' = [cseg EXCEPT ![c] = NoSegment]
    /\ UNCHANGED <<reader, want, faults>>
    /\ Reap(seg, killed)

\* InitOpenShm saw a version and the memory is large enough: keep it.
AttachExisting(c) ==
    /\ CreatorAt(c, "wait", "status")
    /\ seg[cseg[c]].valid
    /\ want[c] <= seg[cseg[c]].count
    /\ killed' = [killed EXCEPT ![cseg[c]] = FALSE]
    /\ UNCHANGED <<shared, reader, cseg, want, faults>>

\* Mutant: RefuseExisting with no clean_data, its readers are not told.
RefuseSilently(c) ==
    /\ CreatorAt(c, "wait", "toosmall")
    /\ seg[cseg[c]].valid
    /\ want[c] > seg[cseg[c]].count
    /\ killed' = [killed EXCEPT ![cseg[c]] = FALSE]
    /\ UNCHANGED <<shared, reader, cseg, want, faults>>

\* It is too small: clean_data tells its readers, then it is dropped.
RefuseExisting(c) ==
    /\ CreatorAt(c, "wait", "toosmall")
    /\ seg[cseg[c]].valid
    /\ want[c] > seg[cseg[c]].count
    /\ seg' = SetCloseFlag(cseg[c])
    /\ killed' = [killed EXCEPT ![cseg[c]] = FALSE]
    /\ UNCHANGED <<name, reader, cseg, want, faults>>

\* shm_open(O_CREAT | O_RDWR), without O_EXCL: opens whatever has the name.
MakeSegment(c) ==
    /\ CreatorAt(c, "make", "grow")
    /\ IF name # NoSegment
         THEN /\ cseg' = [cseg EXCEPT ![c] = name]
              /\ UNCHANGED <<shared, killed>>
         ELSE \E s \in {x \in Segments : Unreferenced(x)} :
                /\ name' = s
                /\ cseg' = [cseg EXCEPT ![c] = s]
                /\ UNCHANGED <<seg, killed>>
    /\ UNCHANGED <<reader, want, faults>>

\* ftruncate to the size asked for, which may shrink the file, and mmap.
GrowSegment(c) ==
    /\ CreatorAt(c, "grow", "clear")
    /\ seg' = [seg EXCEPT ![cseg[c]].size = want[c]]
    /\ UNCHANGED <<name, reader, cseg, want, faults, killed>>

\* ftruncate fails: unlink by name, and LibShmMediaCreate returns NULL.
GrowFails(c) ==
    /\ Fault
    /\ CreatorAt(c, "grow", "idle")
    /\ name' = NoSegment
    /\ CreatorGone(c)
    /\ UNCHANGED reader
    /\ Reap(seg, killed)

\* InitCreateShm: the whole header to zero ...
ClearHeader(c) ==
    /\ CreatorAt(c, "clear", "publish")
    /\ seg' = [seg EXCEPT ![cseg[c]] =
                 [Blank EXCEPT !.size = seg[cseg[c]].size]]
    /\ UNCHANGED <<name, reader, cseg, want, faults, killed>>

\* ... then the geometry, and the version last.
PublishVersion(c) ==
    /\ CreatorAt(c, "publish", "status")
    /\ seg' = [seg EXCEPT ![cseg[c]].count = want[c], ![cseg[c]].valid = TRUE]
    /\ UNCHANGED <<name, reader, cseg, want, faults, killed>>

\* initShmV4 of a writing handle: close_flag to 0 ...
ClearCloseFlag(c) ==
    /\ CreatorAt(c, "status", "finish")
    /\ seg' = [seg EXCEPT ![cseg[c]].closed = FALSE]
    /\ UNCHANGED <<name, reader, cseg, want, faults, killed>>

\* ... then init_flag to INIT_FINISH_STATE.
FinishInit(c) ==
    /\ CreatorAt(c, "finish", "ready")
    /\ seg' = [seg EXCEPT ![cseg[c]].init = TRUE]
    /\ UNCHANGED <<name, reader, cseg, want, faults, killed>>

\* SendData, ending in FinishWrite.
Send(c) ==
    /\ cpc[c] = "ready"
    /\ seg[cseg[c]].written < MaxFrames
    /\ seg' = [seg EXCEPT ![cseg[c]].written = @ + 1]
    /\ UNCHANGED <<name, creator, reader, faults, killed>>

\* PollSendable returns -1 for a closed memory ...
SendableSeesClosed(c) ==
    /\ CreatorAt(c, "ready", "destroy")
    /\ CheckCloseFlag(cseg[c])
    /\ UNCHANGED <<shared, reader, cseg, want, faults, killed>>

\* ... and for a NAME that is gone, when the check is due.
SendableSeesRemoved(c) ==
    /\ CreatorAt(c, "ready", "destroy")
    /\ name = NoSegment
    /\ UNCHANGED <<shared, reader, cseg, want, faults, killed>>

\* The application shuts its writer down.
ShutDown(c) ==
    /\ Fault
    /\ CreatorAt(c, "ready", "destroy")
    /\ UNCHANGED <<shared, reader, cseg, want, killed>>

\* Mutant: LibShmMediaDestroy without the close flag.
DestroySilently(c) ==
    /\ CreatorAt(c, "destroy", "unlink")
    /\ UNCHANGED <<shared, reader, cseg, want, faults, killed>>

\* LibShmMediaDestroy of a creator: first the close flag ...
DestroyFlag(c) ==
    /\ CreatorAt(c, "destroy", "unlink")
    /\ seg' = SetCloseFlag(cseg[c])
    /\ UNCHANGED <<name, reader, cseg, want, faults, killed>>

\* ... then CloseMapFile, which unlinks whatever has the name by now.
DestroyUnlink(c) ==
    /\ CreatorAt(c, "unlink", "idle")
    /\ name' = NoSegment
    /\ CreatorGone(c)
    /\ UNCHANGED <<reader, faults>>
    /\ Reap(seg, killed)

\* The process is killed: its mapping goes, name and header stay.
Kill(c) ==
    /\ Fault
    /\ cpc[c] # "idle"
    /\ cpc' = [cpc EXCEPT ![c] = "idle"]
    /\ CreatorGone(c)
    /\ UNCHANGED <<name, reader>>
    /\ Reap(seg, [s \in Segments |->
                   killed[s] \/ (cseg[c] = s /\ cpc[c] \in Owning)])

\* What a creator does by itself, without a fault.
CreatorStep(c) ==
    \/ OpenExisting(c) \/ MapExisting(c) \/ DropExisting(c)
    \/ AttachExisting(c) \/ RefuseExisting(c)
    \/ MakeSegment(c) \/ GrowSegment(c) \/ ClearHeader(c) \/ PublishVersion(c)
    \/ ClearCloseFlag(c) \/ FinishInit(c)
    \/ Send(c) \/ SendableSeesClosed(c) \/ SendableSeesRemoved(c)
    \/ DestroyFlag(c) \/ DestroyUnlink(c)

CreatorFault(c) == GrowFails(c) \/ ShutDown(c) \/ Kill(c)

-----------------------------------------------------------------------------
(* The reader: Open, then PollReadable and reading until it returns -1.    *)

ClientAt(r, from, to) == rpc[r] = from /\ rpc' = [rpc EXCEPT ![r] = to]

\* Where a client goes once LibShmMediaOpen has returned NULL.
Failed(r) == IF r \in Removers THEN "remove" ELSE "idle"

\* A handle that is let go: munmap and close, never an unlink.
LetGo(r) ==
    /\ rseg' = [rseg EXCEPT ![r] = NoSegment]
    /\ readIndex' = [readIndex EXCEPT ![r] = 0]
    /\ sawClosed' = [sawClosed EXCEPT ![r] = FALSE]
    /\ owed' = [owed EXCEPT ![r] = 0]

\* Open: shm_open without O_CREAT.
Open(r) ==
    /\ ClientAt(r, "idle", IF name = NoSegment THEN Failed(r) ELSE "map")
    /\ rseg' = [rseg EXCEPT ![r] = name]
    /\ IF r \in Removers
         THEN Fault
         ELSE name # NoSegment /\ UNCHANGED faults
    /\ UNCHANGED <<shared, creator, readIndex, sawClosed, owed, killed>>

Map(r) ==
    /\ ClientAt(r, "map", "wait")
    /\ seg[rseg[r]].size > 0
    /\ UNCHANGED <<shared, creator, rseg, readIndex, sawClosed, owed, faults,
                   killed>>

\* InitOpenShm: the version is there, the read index starts at the write's.
SeeVersion(r) ==
    /\ ClientAt(r, "wait", "status")
    /\ seg[rseg[r]].valid
    /\ readIndex' = [readIndex EXCEPT ![r] = seg[rseg[r]].written]
    /\ UNCHANGED <<shared, creator, rseg, sawClosed, owed, faults, killed>>

\* initShmV4 of a reading handle: the init flag is there.
SeeInit(r) ==
    /\ ClientAt(r, "status", IF r \in Removers THEN "flag" ELSE "open")
    /\ seg[rseg[r]].init
    /\ UNCHANGED <<shared, creator, rseg, readIndex, sawClosed, owed, faults,
                   killed>>

\* An empty file, no version in time, no init flag in time: NULL.
OpenFails(r) ==
    /\ \/ rpc[r] = "map" /\ seg[rseg[r]].size = 0
       \/ rpc[r] = "wait" /\ ~seg[rseg[r]].valid
       \/ rpc[r] = "status" /\ ~seg[rseg[r]].init
    /\ rpc' = [rpc EXCEPT ![r] = Failed(r)]
    /\ LetGo(r)
    /\ UNCHANGED <<name, creator, faults>>
    /\ Reap(seg, killed)

\* PollReadable, first: bClosed = CheckCloseFlag().
PollClosed(r) ==
    /\ ClientAt(r, "open", "gap")
    /\ sawClosed' = [sawClosed EXCEPT ![r] = CheckCloseFlag(rseg[r])]
    /\ owed' = [owed EXCEPT ![r] = IF CheckCloseFlag(rseg[r])
                                     THEN seg[rseg[r]].written ELSE 0]
    /\ UNCHANGED <<shared, creator, rseg, readIndex, faults, killed>>

\* Then _readable.  Something to read is read, whatever bClosed says ...
PollData(r) ==
    /\ ClientAt(r, "gap", "open")
    /\ seg[rseg[r]].written > readIndex[r]
    /\ readIndex' = [readIndex EXCEPT ![r] = @ + 1]
    /\ sawClosed' = [sawClosed EXCEPT ![r] = FALSE]
    /\ owed' = [owed EXCEPT ![r] = 0]
    /\ UNCHANGED <<shared, creator, rseg, faults, killed>>

\* ... a write index behind the read index is an error ...
PollBehind(r) ==
    /\ ClientAt(r, "gap", "idle")
    /\ seg[rseg[r]].written < readIndex[r]
    /\ LetGo(r)
    /\ UNCHANGED <<name, creator, faults>>
    /\ Reap(seg, killed)

\* Mutant: the close flag is loaded after the write index.
PollEmptyThenFlag(r) ==
    /\ \/ /\ ClientAt(r, "gap", "late")
          /\ seg[rseg[r]].written = readIndex[r]
          /\ UNCHANGED <<sawClosed, owed>>
       \/ /\ ClientAt(r, "late", "name")
          /\ sawClosed' = [sawClosed EXCEPT ![r] = CheckCloseFlag(rseg[r])]
          /\ owed' = [owed EXCEPT ![r] = seg[rseg[r]].written]
    /\ UNCHANGED <<shared, creator, rseg, readIndex, faults, killed>>

\* ... and with nothing to read the name is looked up, if that is due.
PollEmpty(r) ==
    /\ ClientAt(r, "gap", "name")
    /\ seg[rseg[r]].written = readIndex[r]
    /\ UNCHANGED <<shared, creator, rseg, readIndex, sawClosed, owed, faults,
                   killed>>

\* _isShmRemovedFromKernal: the NAME is gone, -1.
PollRemoved(r) ==
    /\ ClientAt(r, "name", "idle")
    /\ name = NoSegment
    /\ LetGo(r)
    /\ UNCHANGED <<name, creator, faults>>
    /\ Reap(seg, killed)

\* The name is there, or the check is not due, and bClosed was set: -1.
PollLeaves(r) ==
    /\ ClientAt(r, "name", "idle")
    /\ sawClosed[r]
    /\ LetGo(r)
    /\ UNCHANGED <<name, creator, faults>>
    /\ Reap(seg, killed)

\* The name is there, or the check is not due, and it was not: poll again.
PollAgain(r) ==
    /\ ClientAt(r, "name", "open")
    /\ ~sawClosed[r]
    /\ UNCHANGED <<shared, creator, rseg, readIndex, sawClosed, owed, faults,
                   killed>>

\* LibShmMediaRemoveShmidFromSystem: the close flag and the handle ...
RemoveFlag(r) ==
    /\ ClientAt(r, "flag", "remove")
    /\ LetGo(r)
    /\ UNCHANGED <<name, creator, faults>>
    /\ Reap(SetCloseFlag(rseg[r]), killed)

\* ... then shm_unlink of whatever has the name by now.
RemoveName(r) ==
    /\ ClientAt(r, "remove", "idle")
    /\ name' = NoSegment
    /\ UNCHANGED <<creator, rseg, readIndex, sawClosed, owed, faults>>
    /\ Reap(seg, killed)

ClientStep(r) ==
    \/ Open(r) \/ Map(r) \/ SeeVersion(r) \/ SeeInit(r) \/ OpenFails(r)
    \/ PollClosed(r) \/ PollData(r) \/ PollBehind(r) \/ PollEmpty(r)
    \/ PollRemoved(r) \/ PollLeaves(r) \/ PollAgain(r)
    \/ RemoveFlag(r) \/ RemoveName(r)

Next ==
    \/ \E c \in Creators : CreatorStep(c) \/ CreatorFault(c)
    \/ \E r \in Clients : ClientStep(r)

Spec == Init /\ [][Next]_vars

-----------------------------------------------------------------------------
(* What must hold.                                                         *)

Header == [size : Nat, count : Nat, valid : BOOLEAN, init : BOOLEAN,
           closed : BOOLEAN, written : Nat]

\* The states of CreateOrOpen, initShmV4 and LibShmMediaDestroy in which a
\* creator has a segment open.
WithSegment == {"map", "wait", "toosmall", "grow", "clear", "publish",
                "status", "finish", "ready", "destroy", "unlink"}

\* The states of Open and PollReadable in which a client has one open.
Mapped == {"map", "wait", "status", "open", "gap", "name", "flag"}

\* Type invariant: every variable has its type, and a process has a segment
\* open in exactly the states in which the code holds m_iShmId.
TypeOK ==
    /\ name \in Segments \cup {NoSegment}
    /\ seg \in [Segments -> Header]
    /\ cpc \in [Creators -> WithSegment \cup {"idle", "make"}]
    /\ cseg \in [Creators -> Segments \cup {NoSegment}]
    /\ want \in [Creators -> Nat]
    /\ rpc \in [Clients -> Mapped \cup {"idle", "remove"}]
    /\ rseg \in [Clients -> Segments \cup {NoSegment}]
    /\ readIndex \in [Clients -> Nat]
    /\ sawClosed \in [Clients -> BOOLEAN]
    /\ owed \in [Clients -> Nat]
    /\ faults \in 0 .. MaxFaults
    /\ killed \in [Segments -> BOOLEAN]
    /\ \A c \in Creators : cseg[c] = NoSegment <=> cpc[c] \notin WithSegment
    /\ \A r \in Clients : rseg[r] = NoSegment <=> rpc[r] \notin Mapped

\* Some creator will still write to the segment, or set its close flag.
Held(s) == \E c \in Creators : cseg[c] = s /\ cpc[c] \in Owning

Reading(r) == rpc[r] \in {"open", "gap", "name"}

\* No reader is stranded: when the memory a reader maps has lost its name,
\* its header says closed, or a creator still has it and will say so, or
\* its last creator was killed and no other has kept or refused it since.
\* However creators, restarts and removers overlap: the close flag is set
\* before the unlink (LibShmMediaDestroy, clean_data of CreateOrOpen), and
\* who clears it (initShmV4) stays.
NotStranded ==
    \A r \in Readers :
      Reading(r) /\ rseg[r] # name
        => CheckCloseFlag(rseg[r]) \/ Held(rseg[r]) \/ killed[rseg[r]]

\* A header a reader relies on is never cleared again (InitCreateShm, which
\* an shm_open without O_EXCL may run on an old segment).  Holds when there
\* is one creator at a time.
NeverReinitialised ==
    \A c \in Creators : cpc[c] \in {"clear", "publish"}
      => \A r \in Readers : Reading(r) => rseg[r] # cseg[c]

\* A reader that is told of the close has read all that was written before
\* the flag it saw was set: PollReadable loads the flag before the index.
NothingLostAtClose ==
    [][\A r \in Readers : PollLeaves(r) => readIndex[r] >= owed[r]]_vars
=============================================================================
