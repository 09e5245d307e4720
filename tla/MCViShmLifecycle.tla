-------------------------- MODULE MCViShmLifecycle --------------------------
(***************************************************************************)
(* ViShmLifecycle for TLC: creators alone or in a crowd, the fairness and  *)
(* the liveness of one alone, and what the header says of a removal.       *)
(***************************************************************************)
EXTENDS ViShmLifecycle

CONSTANT Loner

VARIABLE crowd

\* Either one creator runs, restarted after every fault, beside readers and
\* removers, or all creators do, for one size, without faults or removers.
CrowdSize == 1
CrowdFrames == 1
MCInit == Init /\ crowd \in BOOLEAN
MCNext ==
    /\ Next
    /\ UNCHANGED crowd
    /\ IF crowd
         THEN /\ faults' = 0
              /\ \A c \in Creators : want'[c] <= CrowdSize
              /\ \A s \in Segments : seg'[s].written <= CrowdFrames
              /\ \A d \in Removers : pc'[d] = "idle"
         ELSE \A c \in Creators \ {Loner} : pc'[c] = "idle"
MCSpec == MCInit /\ [][MCNext]_<<vars, crowd>>

\* As in MCShmLifecycle: every process runs on, a reader that polls for ever
\* is some time polling when the removal check is due, a removal that has
\* begun ends, and no fault is fair.
Fairness ==
    /\ WF_vars(CreatorStep(Loner))
    /\ \A r \in Readers : WF_vars(ClientStep(r)) /\ SF_vars(PollRemoved(r))
    /\ \A d \in Removers : WF_vars(pc[d] # "idle" /\ ClientStep(d))

LiveSpec == MCSpec /\ Fairness

\* The reader maps the memory the creator sends to.
Joined(r) ==
    Reading(r) /\ \E c \in Creators : pc[c] = "ready" /\ at[c] = at[r]

\* The reader maps a memory whose owner was killed, that has lost its name
\* to another before the reader's check of the name, and is not closed.
Stranded(r) ==
    Reading(r) /\ at[r] # name /\ killed[at[r]] /\ ~CheckCloseFlag(at[r])

\* The reader was lapped: Readable answers 1 for ever and Read finds nothing,
\* so PollReadable comes neither to the name nor to the close flag.
Deaf(r) == pc[r] = "poll" /\ IsValid(r) /\ Waiting(r) /\ ~Holding(r)

\* The name belongs to an empty file whose creator has gone: it cannot be
\* mapped, so it is neither opened, nor created over, nor removed.
Jammed ==
    /\ name # NoSegment
    /\ seg[name].size = 0
    /\ \A c \in Creators : ~ (at[c] = name /\ pc[c] = "grow")

\* One creator alone does not initialise again what a reader relies on: a
\* memory it may use is opened, and another is unlinked first.
AloneInitialisesOnce == crowd \/ NeverReinitialised

\* When faults end, creator and reader find each other and stay together,
\* whatever was killed, removed or half initialised when: the retries get
\* past missing control blocks, missing headers and dead memories.  The ways
\* out are a stranded reader, a lapped one, and an empty file.
Rejoins == ~crowd => <>[](\A r \in Readers : Joined(r) \/ Stranded(r) \/ Deaf(r) \/ Jammed)

\* libshm_media_variable_item.h:469 promises of
\* LibViShmMediaRemoveShmFromSystem "destroy the existing share memory" and
\* "0 : destroy successfully": when it returns, the memory it found, one that
\* no creator is still making, does not have the name any more.
RemovedMeansGone ==
    [][\A d \in Removers :
         /\ pc[d] # "idle" /\ pc'[d] = "idle"
         /\ at[d] # NoSegment
         /\ \A c \in Creators : at[c] # at[d]
         => name' # at[d]]_vars
=============================================================================
