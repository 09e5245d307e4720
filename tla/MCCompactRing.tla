--------------------------- MODULE MCCompactRing ---------------------------
(***************************************************************************)
(* The liveness of CompactRing, and what its header says about it.         *)
(***************************************************************************)
EXTENDS CompactRing

\* A reader's owner keeps polling, uses what it is given and lets it go, and
\* does not look at heads for ever; a call on the writer's side returns.
\* Nobody has to restart a dead writer, and the writer need not send anything.
Fairness ==
    /\ \A r \in Readers :
          /\ WF_vars(ReaderStep(r))
          /\ SF_vars(PollReadDataWithoutIndexStep(r))
    /\ WF_vars(Fill \/ StoreItem \/ StoreControl \/ Publish)

LiveSpec == Spec /\ Fairness

\* A Commit that a dead writer left half done: no reader believes the control
\* block until another item is committed.
LeftTorn ==
    /\ wpc \in {"idle", "down"}
    /\ control.itemIndexChecksum # control.nextFreeItemIndex + control.lastFilledItemIndex

\* An item that waits for a reader is read or left behind, unless its table
\* entry is reused first, or the writer dies between the two stores that make
\* the control block agree with itself again.
MovesOn ==
    \A r \in Readers, i \in 0 .. MaxPublish - 1 :
        (position[r] = i /\ i < published)
            ~> (position[r] # i \/ published - i >= MaxItemsNum \/ LeftTorn)

(***************************************************************************)
(* What libshm_media_variable_item.h says.                                 *)
(***************************************************************************)

\* LibViShmMediaPollReadable returns a positive number when "ready, there is
\* data in".  It goes on doing so when the writer has lapped the reader: the
\* entry the reader waits for holds a later item, and every read returns 0.
ReadyMeansData ==
    \A r \in Readers :
        (rpc[r] = "idle" /\ wpc = "idle" /\ IsReadable(r) /\ nextReadingIndex[r] # Newest)
            => items[nextReadingIndex[r] % MaxItemsNum].index = nextReadingIndex[r]
=============================================================================
