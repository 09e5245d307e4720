---------------------------- MODULE MCFixedRing ----------------------------
(***************************************************************************)
(* FixedRing against the feed it implements, its liveness, and what the    *)
(* SDK manual says about it.                                               *)
(***************************************************************************)
EXTENDS FixedRing

\* The refinement mapping: the cursor is the absolute read position, a reader
\* is in a call from BeginRead until it lets the item go, and an item is lent
\* from the moment pointers into its slot are handed out.
Feed == INSTANCE LossyFeed WITH
    History <- Count,
    feed    <- published,
    cursor  <- position,
    calling <- [r \in Readers |-> rpc[r] # "idle"],
    lent    <- [r \in Readers |-> IF took[r].head = Blank THEN Blank ELSE took[r].item],
    used    <- [r \in Readers |-> took[r].body]

\* The ring implements the lossy feed: every reader is lent published items,
\* in order, each at most once unless its owner seeks, and finds the item it
\* was lent as long as the writer stays fewer than Count items ahead.
ImplementsFeed == Feed!Spec

\* A reader's owner keeps calling (the sample reader's loop), uses what it is
\* lent and lets it go; a call on the writer's side returns.  Nobody has to
\* restart a dead writer, and the writer need not send anything.
Fairness ==
    /\ \A r \in Readers : WF_vars(ReaderStep(r))
    /\ WF_vars(FillItem \/ SealItem \/ RejectItem \/ FinishWrite)

LiveSpec == Spec /\ Fairness

\* A reader does not get stuck: a published item that is waiting for it and
\* was not refused is delivered or left behind, even if the writer stops for
\* good or dies in the middle of the next item.
MovesOn ==
    \A r \in Readers, i \in 0 .. MaxPublish - 1 :
        (position[r] = i /\ i < published /\ ~refused[HomeOf(i)]) ~> (position[r] # i)

(***************************************************************************)
(* What the SDK manual says (doc/MediaMesh_Shared_Memory_SDK.md).          *)
(***************************************************************************)

\* LibShmMediaPollReadable answers > 0 for "data available".  It also does for
\* an item whose SendData failed: the caller sees an empty item at the index
\* it was told to read, with the writer nowhere near that slot.
ReadableMeansData ==
    \A r \in Readers :
        (rpc[r] = "parsing" /\ published - took[r].item < Count)
            => slots[SlotOf(read_index[r])].length # Blank

=============================================================================
