----------------------------- MODULE NodeMemory ------------------------------
(* NodeMemoryManager and NodeHandle: nodes in a vector that doubles, a list of  *)
(* the free ones, and handles that free their node.                             *)
(*   managers  the manager made first and the one it may be moved to: its       *)
(*             nodes, the storage of its vector (0: none), its free list (the   *)
(*             front is the head), its capacity and its count of used nodes,    *)
(*   handles   a handle's manager and pointer; Null when it has none,           *)
(*   raw       pointers that were released,                                     *)
(*   ended     how often the destructor_ was called with each data,             *)
(*   uses      nodes allocated and calls made.                                  *)
(* A node's data is the number of its allocation, so that every piece of data   *)
(* is told from every other; 0 is T{}.  Calls hold the mutex, so each is a step.*)
(* A pointer is a storage and a place in it: it dangles when its storage is     *)
(* given up, and a caller that keeps to the language does not use it then.      *)
EXTENDS NodeConstants, SequencesExt

VARIABLES managers, handles, raw, ended, uses
vars == <<managers, handles, raw, ended, uses>>

Managers == {"first", "second"}
Null == <<>>

FreeNode == [data |-> 0, used |-> FALSE]

(* push_front of the places from a on.                                          *)
PushFront(free, a, b) == [i \in 1..b - a + 1 |-> b - i + 1] \o free

Constructed(n) ==
  [nodes |-> [i \in 1..n |-> FreeNode], storage |-> 1, free |-> PushFront(<<>>, 0, n - 1),
   capacity |-> n, used |-> 0]
MovedFrom == [nodes |-> <<>>, storage |-> 0, free |-> <<>>, capacity |-> 0, used |-> 0]

Node(m, i) == managers[m].nodes[i + 1]
IsLive(p) == \E m \in Managers : managers[m].storage = p.storage

Calling == uses.calls < NodeCalls /\ uses' = [uses EXCEPT !.calls = @ + 1]

-----------------------------------------------------------------------------
(* What the calls make of a manager.                                            *)

(* expandCapacity: the vector moves to a storage of twice the size.             *)
CanExpand(s) == s.capacity * 2 > s.capacity
Expanded(s) ==
  [s EXCEPT !.nodes = @ \o [i \in 1..2 * s.capacity - Len(@) |-> FreeNode],
            !.storage = @ + 1,
            !.free = PushFront(@, Len(s.nodes), 2 * s.capacity - 1),
            !.capacity = 2 * @]

Taken(s, data) ==
  [s EXCEPT !.free = Tail(@), !.used = @ + 1,
            !.nodes[Head(s.free) + 1] = [data |-> data, used |-> TRUE]]

(* Mutant: a node that is not used is freed again.                              *)
DeallocatableAny(s, i) == i < Len(s.nodes)

Deallocatable(s, i) == i < Len(s.nodes) /\ s.nodes[i + 1].used
Deallocated(s, i) ==
  [s EXCEPT !.nodes[i + 1] = FreeNode, !.free = <<i>> \o @, !.used = @ - 1]

Cleared(s) ==
  [s EXCEPT !.nodes = [i \in DOMAIN @ |-> FreeNode],
            !.free = PushFront(<<>>, 0, Len(s.nodes) - 1), !.used = 0]

UsedNodes(s) == {i \in 0..Len(s.nodes) - 1 : s.nodes[i + 1].used}

-----------------------------------------------------------------------------
(* allocate, for a handle that has no node.                                     *)
Allocate(m, h) ==
  /\ handles[h] = Null
  /\ uses.calls < NodeCalls
  /\ LET s == IF managers[m].free = <<>> THEN Expanded(managers[m]) ELSE managers[m]
         data == uses.nodes + 1
     IN /\ managers[m].free # <<>> \/ CanExpand(managers[m])
        /\ managers' = [managers EXCEPT ![m] = Taken(s, data)]
        /\ handles' = [handles EXCEPT
                         ![h] = [manager |-> m, node |-> [storage |-> s.storage, index |-> Head(s.free)]]]
        /\ uses' = [nodes |-> data, calls |-> uses.calls + 1]
  /\ UNCHANGED <<raw, ended>>

(* No free node, and no memory for more, or nothing to double: nullptr.         *)
AllocateFails(m, h) ==
  /\ Calling
  /\ handles[h] = Null /\ managers[m].free = <<>>
  /\ UNCHANGED <<managers, handles, raw, ended>>

(* deallocate of manager m, of the node that p points to: what it frees.        *)
FreeAt(m, p) ==
  IF Deallocatable(managers[m], p.index)
  THEN /\ managers' = [managers EXCEPT ![m] = Deallocated(managers[m], p.index)]
       /\ ended' = [ended EXCEPT ![Node(m, p.index).data] = @ + 1]
  ELSE UNCHANGED <<managers, ended>>

DeallocateIndex(m, i) ==
  /\ Calling
  /\ FreeAt(m, [index |-> i])
  /\ UNCHANGED <<handles, raw>>

(* A manager that was moved has no node at the index: the node stays used.      *)
DeallocateNode(m, p) ==
  /\ Calling
  /\ p \in raw /\ IsLive(p)
  /\ FreeAt(m, p)
  /\ UNCHANGED <<handles, raw>>

Reset(h) ==
  /\ Calling
  /\ handles[h] # Null /\ IsLive(handles[h].node)
  /\ FreeAt(handles[h].manager, handles[h].node)
  /\ handles' = [handles EXCEPT ![h] = Null]
  /\ UNCHANGED raw

Release(h) ==
  /\ Calling
  /\ handles[h] # Null
  /\ raw' = raw \cup {handles[h].node}
  /\ handles' = [handles EXCEPT ![h] = Null]
  /\ UNCHANGED <<managers, ended>>

(* The move assignment of a handle resets the one assigned to.                  *)
MoveHandle(h, k) ==
  /\ Calling
  /\ h # k /\ handles[h] # Null
  /\ IF handles[k] = Null THEN UNCHANGED <<managers, ended>>
     ELSE IsLive(handles[k].node) /\ FreeAt(handles[k].manager, handles[k].node)
  /\ handles' = [handles EXCEPT ![k] = handles[h], ![h] = Null]
  /\ UNCHANGED raw

Clear(m) ==
  /\ Calling
  /\ managers[m].nodes # <<>>
  /\ managers' = [managers EXCEPT ![m] = Cleared(managers[m])]
  /\ ended' = [d \in DOMAIN ended |->
                 ended[d] + Cardinality({i \in UsedNodes(managers[m]) : Node(m, i).data = d})]
  /\ UNCHANGED <<handles, raw>>

(* The move constructor: handles keep the address of the manager moved from.    *)
MoveManager ==
  /\ Calling
  /\ managers["second"].storage = 0
  /\ managers' = [first |-> MovedFrom, second |-> managers["first"]]
  /\ UNCHANGED <<handles, raw, ended>>

Init ==
  /\ \E n \in Capacities : managers = [first |-> Constructed(n), second |-> MovedFrom]
  /\ handles = [h \in NodeHandles |-> Null]
  /\ raw = {}
  /\ ended = [d \in 0..NodeCalls |-> 0]
  /\ uses = [nodes |-> 0, calls |-> 0]

Next ==
  \/ \E m \in Managers :
       \/ \E h \in NodeHandles : Allocate(m, h) \/ AllocateFails(m, h)
       \/ \E i \in 0..managers[m].capacity : DeallocateIndex(m, i)
       \/ \E p \in raw : DeallocateNode(m, p)
       \/ Clear(m)
  \/ \E h \in NodeHandles : Reset(h) \/ Release(h) \/ \E k \in NodeHandles : MoveHandle(h, k)
  \/ MoveManager

-----------------------------------------------------------------------------
(* The free list has every node that is not used, once; the count is of the     *)
(* used ones; and data that was put in a node is in one node of one manager     *)
(* until the destructor_ is called with it, which happens once: whatever        *)
(* handles, clears and frees of the same node come in between (deallocate,      *)
(* clear, expandCapacity).                                                      *)
NodesAreOwned ==
  /\ \A m \in Managers :
       LET s == managers[m] IN
         /\ IsInjective(s.free)
         /\ ToSet(s.free) = (0..Len(s.nodes) - 1) \ UsedNodes(s)
         /\ s.used = Cardinality(UsedNodes(s))
         /\ s.capacity = Len(s.nodes)
  /\ \A m, n \in Managers : \A i \in UsedNodes(managers[m]), j \in UsedNodes(managers[n]) :
       Node(m, i).data = Node(n, j).data => m = n /\ i = j
  /\ \A d \in DOMAIN ended :
       ended[d] = IF d \in 1..uses.nodes
                     /\ \A m \in Managers : \A i \in UsedNodes(managers[m]) : Node(m, i).data # d
                  THEN 1 ELSE 0
=============================================================================
