--------------------------- MODULE MessagesProofs ---------------------------
(***************************************************************************)
(* What is proved of the searches and of the components of Units, said of  *)
(* MCMessages, where a behaviour chooses one of its units and keeps it.    *)
(***************************************************************************)
EXTENDS MCMessages, UnitProofs

units == <<unit, writer, reader, wire, sent, got, uses>>

SearchUnit == unit = "search" => Sch!SearchInv
WrapUnit == unit = "wrap" => WrapInv
HeaderUnit == unit = "header" => HeaderInv
NodeUnit == unit = "nodes" => NodeInv

\* The steps of the search unit: SearchAssumption holds of its constants.
LEMMA SearchUnitSteps ==
  /\ Sch!Init => Sch!SearchInv
  /\ Sch!SearchInv /\ [Sch!Next]_(Sch!vars) => Sch!SearchInv'
<1>1. Sch!Init => Sch!SearchInv
  BY Sch!InitHolds, SearchAssumption DEF Stamps, NoStamp, Sch!Stamps, Sch!NoStamp
<1>2. Sch!SearchInv /\ [Sch!Next]_(Sch!vars) => Sch!SearchInv'
  BY Sch!SearchInductive, SearchAssumption DEF Stamps, NoStamp, Sch!Stamps, Sch!NoStamp
<1> QED BY <1>1, <1>2

\* The unit of the searches keeps the invariant of the searches (libshm_media.cpp).
THEOREM SearchUnitHolds == Spec => []SearchUnit
<1>1. Init => SearchUnit
  BY SearchUnitSteps DEF Init, SearchUnit
<1>2. SearchUnit /\ [Next]_units => SearchUnit'
  <2> SUFFICES ASSUME SearchUnit, [Next]_units, unit' = "search"
               PROVE  Sch!SearchInv'
    BY DEF SearchUnit
  <2>1. unit = "search" /\ [Sch!Next]_(Sch!vars)
    BY DEF Next, units, Sch!vars
  <2> QED BY <2>1, SearchUnitSteps DEF SearchUnit
<1> QED BY <1>1, <1>2, PTL DEF Spec, units

\* The unit of the wrap handles keeps theirs (libshmmedia_control_protocol.cpp,
\* libshmmedia_tvulive_protocol.cpp).
THEOREM WrapUnitHolds == Spec => []WrapUnit
<1>1. Init => WrapUnit
  BY WrapInit DEF Init, WrapUnit
<1>2. WrapUnit /\ [Next]_units => WrapUnit'
  <2> SUFFICES ASSUME WrapUnit, [Next]_units, unit' = "wrap"
               PROVE  WrapInv'
    BY DEF WrapUnit
  <2>1. unit = "wrap" /\ [Wrp!Next]_(Wrp!vars)
    BY DEF Next, units, Wrp!vars
  <2>2. WrapInv /\ [Wrp!Next]_(Wrp!vars) => WrapInv'
    BY WrapInductive
  <2> QED BY <2>1, <2>2 DEF WrapUnit
<1> QED BY <1>1, <1>2, PTL DEF Spec, units

-----------------------------------------------------------------------------
\* A search that is not lapped finds the first item that reaches the time asked
\* for, for every ring size, feed and asking (SearchItemWithTvutimestamp,
\* SearchFirstItemMatching).
THEOREM UnitSearchesFind == Spec => []SearchFinds
<1>1. Sch!SearchInv => Sch!SearchFinds
  BY DEF Sch!SearchInv
<1>2. SearchUnit => SearchFinds
  BY <1>1 DEF SearchUnit, SearchFinds
<1> QED BY <1>2, SearchUnitHolds, PTL

\* What is answered with an index is the item of that index, or a later one if
\* the search was lapped (SearchItemWithTvutimestamp).
THEOREM UnitAnswersAreItems == Spec => []AnswerIsItem
<1>1. Sch!SearchInv => Sch!AnswerIsItem
  BY DEF Sch!SearchInv
<1>2. SearchUnit => AnswerIsItem
  BY <1>1 DEF SearchUnit, AnswerIsItem
<1> QED BY <1>2, SearchUnitHolds, PTL

\* Commands are read in the order they were sent, each once, and all that came
\* before the last look before the memory is left, for every size of the table
\* and everything that is sent (CLibShmmediaCtrlCmdWrapHandle::readBin).
THEOREM UnitCommandsArrive == Spec => []CommandsArrive
<1>1. WrapInv => Wrp!CommandsArrive
  BY WrapArrives
<1>2. WrapUnit => CommandsArrive
  BY <1>1 DEF WrapUnit, CommandsArrive
<1> QED BY <1>2, WrapUnitHolds, PTL

\* A search backwards ends at the newest item wanted, or behind all there is
\* (CTvuVariableItemBaseShm::SearchWholeItems).
THEOREM UnitSearchesEndAtNewest == Spec => []SearchEndsAtNewest
<1>1. WrapInv => Wrp!SearchEndsAtNewest
  BY DEF WrapInv
<1>2. WrapUnit => SearchEndsAtNewest
  BY <1>1 DEF WrapUnit, SearchEndsAtNewest
<1> QED BY <1>2, WrapUnitHolds, PTL

\* The invariant of the header, whatever builds meet in it and however many create
\* it (libshm_media_protocol_internal.cpp, sharememory.cpp).
THEOREM HeaderUnitHolds == Spec => []HeaderUnit
<1>1. Init => HeaderUnit
  BY HeaderInductive DEF Init, HeaderUnit
<1>2. HeaderUnit /\ [Next]_units => HeaderUnit'
  <2> SUFFICES ASSUME HeaderUnit, [Next]_units, unit' = "header"
               PROVE  HeaderInv'
    BY DEF HeaderUnit
  <2>1. unit = "header" /\ [Hdr!Next]_(Hdr!vars)
    BY DEF Next, units, Hdr!vars
  <2> QED BY <2>1, HeaderInductive DEF HeaderUnit
<1> QED BY <1>1, <1>2, PTL DEF Spec, units

\* The close flag is as it was last set, and with one creator at a time the media
\* head is the one sent last (setCloseFlag, SendHead).
THEOREM UnitHeaderSaysLast == Spec => []HeaderSaysLast
<1>1. HeaderUnit => HeaderSaysLast
  BY DEF HeaderUnit, HeaderInv, HeaderSaysLast
<1> QED BY <1>1, HeaderUnitHolds, PTL

\* A creator is told of readers when one asked within the timeout, and then only
\* (HasReaders, _setReadTime).
THEOREM UnitPresenceIsTold == Spec => []PresenceIsTold
<1>1. HeaderUnit => PresenceIsTold
  BY DEF HeaderUnit, HeaderInv, PresenceIsTold
<1> QED BY <1>1, HeaderUnitHolds, PTL

\* What a header with the extension has lies within the header
\* (preRequireHeadLength).
THEOREM UnitHeaderIsWide == Spec => []HeaderIsWide
<1>1. HeaderInv => Hdr!HeaderIsWide
  <2> SUFFICES ASSUME HeaderInv, wire # Hdr!None, wire.build.ext, NEW c \in Hdr!Cells,
                      4 * c >= wire.length
               PROVE  FALSE
    BY DEF Hdr!HeaderIsWide
  <2>1. wire.length >= 120 /\ wire.length \in Nat
    BY DEF HeaderInv, HeaderTypes, Laid, HeadMemories
  <2> QED BY <2>1 DEF Hdr!Cells
<1>2. HeaderUnit => HeaderIsWide
  BY <1>1 DEF HeaderUnit, HeaderIsWide
<1> QED BY <1>2, HeaderUnitHolds, PTL

\* The invariant of the nodes, whatever managers and handles are called with
\* (node_memory_manager.h).
THEOREM NodeUnitHolds == Spec => []NodeUnit
<1>1. Init => NodeUnit
  BY NodesInductive DEF Init, NodeUnit
<1>2. NodeUnit /\ [Next]_units => NodeUnit'
  <2> SUFFICES ASSUME NodeUnit, [Next]_units, unit' = "nodes"
               PROVE  NodeInv'
    BY DEF NodeUnit
  <2>1. unit = "nodes" /\ [Nod!Next]_(Nod!vars)
    BY DEF Next, units, Nod!vars
  <2> QED BY <2>1, NodesInductive DEF NodeUnit
<1> QED BY <1>1, <1>2, PTL DEF Spec, units

\* Every node is in the free list once or used, and data is in one node until the
\* destructor_ is called with it, which happens once, for every capacity, number
\* of handles and of calls (allocate, deallocate, clear, expandCapacity).
THEOREM UnitNodesAreOwned == Spec => []NodesAreOwned
<1>1. NodeUnit => NodesAreOwned
  BY NodesOwned DEF NodeUnit, NodesAreOwned
<1> QED BY <1>1, NodeUnitHolds, PTL

=============================================================================
