-------------------------------- MODULE Units --------------------------------
(* The components that one set of variables stands for, one at a time: the    *)
(* wrap handles, the header of a memory and the node manager.  MCMessages      *)
(* chooses among them and the formats of messages; UnitProofs has what is      *)
(* proved of them.                                                             *)
EXTENDS WrapConstants, HeadConstants, NodeConstants

VARIABLES writer, reader, wire, sent, got, uses

Wrp == INSTANCE WrapHandles WITH memory <- wire, call <- sent, calls <- uses

Hdr == INSTANCE MemoryHead
         WITH memory <- wire, creators <- writer, told <- sent, answer <- got, time <- uses

Nod == INSTANCE NodeMemory WITH managers <- wire, handles <- writer, raw <- reader, ended <- got
=============================================================================
