--------------------------- MODULE MCShmLifecycle ---------------------------
(***************************************************************************)
(* ShmLifecycle for TLC: creators alone or in a crowd, the fairness and    *)
(* the liveness of one alone.                                              *)
(***************************************************************************)
EXTENDS ShmLifecycle

CONSTANT Loner

VARIABLE crowd

\* Either one creator runs, restarted after every fault, beside readers and
\* removers, or all creators do: one of them wants another geometry, nothing
\* fails, is removed or is sent.
CrowdWant(c) == IF c = Loner THEN 1 ELSE 2
CrowdFrames == 0
MCInit == Init /\ crowd \in BOOLEAN
MCNext ==
    /\ Next
    /\ UNCHANGED crowd
    /\ IF crowd
         THEN /\ faults' = 0
              /\ \A c \in Creators : want'[c] \in {0, CrowdWant(c)}
              /\ \A s \in Segments : seg'[s].written <= CrowdFrames
              /\ \A d \in Removers : rpc'[d] = "idle"
         ELSE \A c \in Creators \ {Loner} : cpc'[c] = "idle"
MCSpec == MCInit /\ [][MCNext]_<<vars, crowd>>

\* Every process runs on (waits end, a handle that returned -1 is destroyed
\* and created again, as the SDK guide asks), and a reader that polls for
\* ever is some time polling when the once-a-second removal check is due.
\* A removal that has begun ends, but no fault is fair: nothing kills, shuts
\* down or begins to remove for sure.
Fairness ==
    /\ WF_vars(CreatorStep(Loner))
    /\ \A r \in Readers : WF_vars(ClientStep(r)) /\ SF_vars(PollRemoved(r))
    /\ \A d \in Removers : WF_vars(rpc[d] # "idle" /\ ClientStep(d))

LiveSpec == MCSpec /\ Fairness

\* The reader maps the memory the creator sends to.
Joined(r) ==
    Reading(r) /\ \E c \in Creators : cpc[c] = "ready" /\ cseg[c] = rseg[r]

\* The reader maps a memory nobody will ever tell it is dead: its creator
\* was killed, and the name was given to another memory before its check
\* of the name, which does not ask whether it is still the same memory.
Stranded(r) ==
    Reading(r) /\ rseg[r] # name /\ killed[rseg[r]] /\ ~CheckCloseFlag(rseg[r])

\* One creator alone does not initialise again what a reader relies on.
AloneInitialisesOnce == crowd \/ NeverReinitialised

\* When faults end, creator and reader find each other again and stay
\* together, whatever was killed, removed or half initialised when: the
\* retries of CreateOrOpen, Open, PollSendable and PollReadable get past
\* empty files, missing versions and dead memories.  The one way out is a
\* stranded reader.
Rejoins == ~crowd => <>[](\A r \in Readers : Joined(r) \/ Stranded(r))
=============================================================================
