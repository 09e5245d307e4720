--------------------------- MODULE NodeConstants ----------------------------
(* What the node memory manager (NodeMemory) is stated for.                    *)
EXTENDS Integers

CONSTANTS NodeHandles,  \* names of handles
          Capacities,   \* what a manager is made with
          NodeCalls     \* bound: calls made

ASSUME NodeAssumption == Capacities \subseteq Nat /\ NodeCalls \in Nat
=============================================================================
