----------------------------- MODULE LossyFeed -----------------------------
(***************************************************************************)
(* What a shared-memory ring promises, whatever its layout: a feed of      *)
(* numbered items that never waits for its readers.                        *)
(*                                                                         *)
(* Every reader has a cursor into the feed.  Inside a read call the cursor *)
(* only moves forward: an item is lent once, items are lent in the order   *)
(* they were published and none before it was published.  A reader may     *)
(* miss items, and outside a call its owner may seek, back at most as far  *)
(* as the history the feed keeps.  What the owner finds in a lent item is  *)
(* that item for as long as the feed has not moved History items past it.  *)
(***************************************************************************)
EXTENDS Integers

CONSTANTS Readers, History

VARIABLES
    feed,     \* how many items were published
    cursor,   \* the number of the item a reader will be lent next
    calling,  \* the reader is inside a read call, or holds a lent item
    lent,     \* the item it was lent, or -1
    used      \* what the owner found in the payload, or -1

vars == <<feed, cursor, calling, lent, used>>

None == -1

Init ==
    /\ feed = 0
    /\ cursor = [r \in Readers |-> 0]
    /\ calling = [r \in Readers |-> FALSE]
    /\ lent = [r \in Readers |-> None]
    /\ used = [r \in Readers |-> None]

Publish ==
    /\ feed' = feed + 1
    /\ UNCHANGED <<cursor, calling, lent, used>>

Call(r) ==
    /\ ~calling[r]
    /\ calling' = [calling EXCEPT ![r] = TRUE]
    /\ UNCHANGED <<feed, cursor, lent, used>>

\* Items are missed; the call may end with nothing to lend.
Skip(r) ==
    /\ calling[r]
    /\ lent[r] = None
    /\ \E c \in cursor[r] .. feed : cursor' = [cursor EXCEPT ![r] = c]
    /\ \E b \in BOOLEAN : calling' = [calling EXCEPT ![r] = b]
    /\ UNCHANGED <<feed, lent, used>>

\* The cursor's item is lent; the cursor moves now or when it is returned.
Lend(r) ==
    /\ calling[r]
    /\ lent[r] = None
    /\ cursor[r] < feed
    /\ lent' = [lent EXCEPT ![r] = cursor[r]]
    /\ \E step \in {0, 1} : cursor' = [cursor EXCEPT ![r] = @ + step]
    /\ UNCHANGED <<feed, calling, used>>

Use(r) ==
    /\ lent[r] # None
    /\ used[r] = None
    /\ \E what \in IF feed - lent[r] < History THEN {lent[r]} ELSE 0 .. feed :
          used' = [used EXCEPT ![r] = what]
    /\ UNCHANGED <<feed, cursor, calling, lent>>

Return(r) ==
    /\ used[r] # None
    /\ lent' = [lent EXCEPT ![r] = None]
    /\ used' = [used EXCEPT ![r] = None]
    /\ calling' = [calling EXCEPT ![r] = FALSE]
    /\ cursor' = [cursor EXCEPT ![r] = lent[r] + 1]
    /\ UNCHANGED feed

Seek(r) ==
    /\ ~calling[r]
    /\ \E c \in (feed - History + 1) .. feed :
          c >= 0 /\ cursor' = [cursor EXCEPT ![r] = c]
    /\ UNCHANGED <<feed, calling, lent, used>>

Next ==
    \/ Publish
    \/ \E r \in Readers : Call(r) \/ Skip(r) \/ Lend(r) \/ Use(r) \/ Return(r) \/ Seek(r)

Spec == Init /\ [][Next]_vars

=============================================================================
