-------------------------- MODULE SearchConstants --------------------------
(* What the searches among items (ItemSearch) are stated for: the size of the  *)
(* ring, what may be sent, what may be asked for, and the frame rates          *)
(* (libshmmedia/src/libshm_media.cpp, libtvutimestamp).                        *)
EXTENDS Integers, Sequences

CONSTANTS Count,    \* item_count, not 0
          Feeds,    \* sequences of items of a length, a pts and a stamp or NoStamp
          Asks,     \* records of a stamp and a pts to look for
          Rates,    \* frame rate key -> its milliseconds per frame
          Calls     \* bound: calls of the reader

Stamps == [fps : Int, index : Nat]
NoStamp == <<>>

ASSUME SearchAssumption ==
  /\ Count \in Nat \ {0}
  /\ Feeds \subseteq Seq([length : Int, pts : Int, stamp : Stamps \cup {NoStamp}])
  /\ Asks \subseteq [stamp : Stamps, pts : Int]
  /\ \A fps \in DOMAIN Rates : Rates[fps] \in Nat
  /\ Calls \in Nat
=============================================================================
