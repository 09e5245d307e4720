--------------------------- MODULE WrapConstants ----------------------------
(* What the handles that send commands and frames (WrapHandles) are stated for *)
(* (libshmmedia_control_protocol.cpp, libshmmedia_tvulive_protocol.cpp).       *)
EXTENDS Integers, Sequences

CONSTANTS MaxItemsNum, \* table entries of every memory, not 0
          Feed,        \* what is sent, one after the other; 0 is data of another type
          MaxEnds,     \* bound: how often a writing handle or a name ends
          WrapCalls    \* bound: calls of the reader

ASSUME WrapAssumption == MaxItemsNum \in Nat \ {0} /\ Feed \in Seq(Nat)
=============================================================================
