--------------------------- MODULE HeadConstants ----------------------------
(* What the header of a memory (MemoryHead) is stated for: the builds of the   *)
(* library that meet in it and what they send (libshm_media_struct.h).         *)
EXTENDS Integers

CONSTANTS Creators,  \* names of the handles that create
          Builds,    \* what they are built with: version, sub (version), ext, variable
          HeadLengths, \* header lengths, in bytes, that a creator asks for
          Heads,     \* media heads: vbr, sar, src, dst, other
          Timeouts,  \* what HasReaders is asked with
          MaxClock, HeadCalls \* bounds

(* The extension came with version 4 (preRequireHeadLength).                   *)
ASSUME HeadAssumption ==
  /\ Builds \subseteq [version : 1..4, sub : Nat, ext : BOOLEAN, variable : BOOLEAN]
  /\ \A b \in Builds : b.ext => b.version = 4
  /\ HeadLengths \subseteq Nat
  /\ Heads \subseteq [vbr : Nat, sar : Nat, src : Nat, dst : Nat, other : Nat]
  /\ Timeouts \subseteq Nat
=============================================================================
