-------------------------- MODULE LifecycleProofs --------------------------
(***************************************************************************)
(* ShmLifecycle for any creators, readers, removers and segments: its      *)
(* types, and that no reader is stranded by an orderly end of its memory.  *)
(* For one creator alone, as MCShmLifecycle runs it: what readers rely on  *)
(* is not initialised again, and a reader has read all that was written    *)
(* when it is told of the close.                                           *)
(***************************************************************************)
EXTENDS MCShmLifecycle, TLAPS

USE LifecycleAssumption DEF Fault, Clients, Owning

-----------------------------------------------------------------------------
(* Types.                                                                  *)

\* A header stays a header under the two operators that are not one store.
LEMMA HeaderOps ==
    ASSUME TypeOK
    PROVE  /\ Blank \in Header
           /\ \A s \in Segments : SetCloseFlag(s) \in [Segments -> Header]
  BY DEF TypeOK, Header, Blank, SetCloseFlag

\* Reap leaves headers and marks of the right type.
LEMMA ReapType ==
    ASSUME TypeOK, NEW header \in [Segments -> Header],
           NEW dead \in [Segments -> BOOLEAN], Reap(header, dead)
    PROVE  seg' \in [Segments -> Header] /\ killed' \in [Segments -> BOOLEAN]
  <1>1. Blank \in Header
    BY HeaderOps
  <1>2. seg' \in [Segments -> Header]
    BY <1>1 DEF Reap
  <1>3. killed' \in [Segments -> BOOLEAN]
    BY DEF Reap
  <1> QED
    BY <1>2, <1>3

\* A step of a creator preserves the types.
LEMMA CreatorType ==
    ASSUME TypeOK, NEW c \in Creators, CreatorStep(c) \/ CreatorFault(c)
    PROVE  TypeOK'
  <1> USE DEF CreatorAt, WithSegment
  <1>1. CASE OpenExisting(c)
    BY <1>1 DEF OpenExisting, TypeOK, shared, reader
  <1>2. CASE MapExisting(c)
    BY <1>2 DEF MapExisting, TypeOK, shared, reader
  <1>3. CASE DropExisting(c)
    <2>1. seg' \in [Segments -> Header] /\ killed' \in [Segments -> BOOLEAN]
      BY <1>3, ReapType DEF DropExisting, TypeOK
    <2> QED
      BY <1>3, <2>1 DEF DropExisting, TypeOK, reader
  <1>4. CASE AttachExisting(c)
    BY <1>4 DEF AttachExisting, TypeOK, shared, reader
  <1>5. CASE RefuseExisting(c)
    <2>1. cseg[c] \in Segments
      BY <1>5 DEF RefuseExisting, TypeOK
    <2>2. seg' \in [Segments -> Header]
      BY <1>5, <2>1, HeaderOps DEF RefuseExisting
    <2> QED
      BY <1>5, <2>2 DEF RefuseExisting, TypeOK, reader
  <1>6. CASE MakeSegment(c)
    <2>1. CASE name # NoSegment
      BY <1>6, <2>1 DEF MakeSegment, TypeOK, shared, reader
    <2>2. CASE name = NoSegment
      <3>1. PICK s \in Segments : /\ name' = s
                                  /\ cseg' = [cseg EXCEPT ![c] = s]
                                  /\ UNCHANGED <<seg, killed>>
        BY <1>6, <2>2 DEF MakeSegment
      <3> QED
        BY <1>6, <3>1 DEF MakeSegment, TypeOK, reader
    <2> QED
      BY <2>1, <2>2
  <1>7. CASE GrowSegment(c)
    BY <1>7 DEF GrowSegment, TypeOK, reader, Header
  <1>8. CASE ClearHeader(c)
    <2>1. cseg[c] \in Segments
      BY <1>8 DEF ClearHeader, TypeOK
    <2>2. [Blank EXCEPT !.size = seg[cseg[c]].size] \in Header
      BY <2>1 DEF TypeOK, Header, Blank
    <2>3. seg' \in [Segments -> Header]
      BY <1>8, <2>1, <2>2 DEF ClearHeader, TypeOK
    <2> QED
      BY <1>8, <2>3 DEF ClearHeader, TypeOK, reader
  <1>9. CASE PublishVersion(c)
    <2> DEFINE counted == [seg EXCEPT ![cseg[c]].count = want[c]]
    <2>1. want[c] \in Nat /\ seg \in [Segments -> Header]
      BY DEF TypeOK
    <2>2. counted \in [Segments -> Header]
      BY <2>1 DEF Header
    <2>3. seg' = [counted EXCEPT ![cseg[c]].valid = TRUE]
      BY <1>9 DEF PublishVersion
    <2> HIDE DEF counted
    <2>4. seg' \in [Segments -> Header]
      BY <2>2, <2>3 DEF Header
    <2> QED
      BY <1>9, <2>4 DEF PublishVersion, TypeOK, reader
  <1>10. CASE ClearCloseFlag(c)
    BY <1>10 DEF ClearCloseFlag, TypeOK, reader, Header
  <1>11. CASE FinishInit(c)
    BY <1>11 DEF FinishInit, TypeOK, reader, Header
  <1>12. CASE Send(c)
    BY <1>12 DEF Send, TypeOK, creator, reader, Header
  <1>13. CASE SendableSeesClosed(c) \/ SendableSeesRemoved(c)
    BY <1>13 DEF SendableSeesClosed, SendableSeesRemoved, TypeOK, shared,
                 reader
  <1>14. CASE DestroyFlag(c)
    <2>1. seg' \in [Segments -> Header]
      BY <1>14, HeaderOps DEF DestroyFlag, TypeOK
    <2> QED
      BY <1>14, <2>1 DEF DestroyFlag, TypeOK, reader
  <1>15. CASE DestroyUnlink(c)
    <2>1. seg' \in [Segments -> Header] /\ killed' \in [Segments -> BOOLEAN]
      BY <1>15, ReapType DEF DestroyUnlink, TypeOK
    <2> QED
      BY <1>15, <2>1 DEF DestroyUnlink, CreatorGone, TypeOK, reader
  <1>16. CASE GrowFails(c)
    <2>1. seg' \in [Segments -> Header] /\ killed' \in [Segments -> BOOLEAN]
      BY <1>16, ReapType DEF GrowFails, TypeOK
    <2> QED
      BY <1>16, <2>1 DEF GrowFails, CreatorGone, TypeOK, reader
  <1>17. CASE ShutDown(c)
    BY <1>17 DEF ShutDown, TypeOK, shared, reader
  <1>18. CASE Kill(c)
    <2>1. [s \in Segments |-> killed[s] \/ (cseg[c] = s /\ cpc[c] \in Owning)]
            \in [Segments -> BOOLEAN]
      BY DEF TypeOK
    <2>2. seg' \in [Segments -> Header] /\ killed' \in [Segments -> BOOLEAN]
      BY <1>18, <2>1, ReapType DEF Kill, TypeOK
    <2> QED
      BY <1>18, <2>2 DEF Kill, CreatorGone, TypeOK, reader
  <1> QED
    BY <1>1, <1>2, <1>3, <1>4, <1>5, <1>6, <1>7, <1>8, <1>9, <1>10, <1>11,
       <1>12, <1>13, <1>14, <1>15, <1>16, <1>17, <1>18
       DEF CreatorStep, CreatorFault

\* A step of a reader or a remover preserves the types.
LEMMA ClientType ==
    ASSUME TypeOK, NEW r \in Clients, ClientStep(r)
    PROVE  TypeOK'
  <1> USE DEF ClientAt, Mapped, creator
  <1>1. CASE Open(r)
    BY <1>1 DEF Open, Failed, TypeOK, shared
  <1>2. CASE Map(r)
    BY <1>2 DEF Map, TypeOK, shared
  <1>3. CASE SeeVersion(r)
    BY <1>3 DEF SeeVersion, TypeOK, shared, Header
  <1>4. CASE SeeInit(r)
    BY <1>4 DEF SeeInit, TypeOK, shared
  <1>5. CASE OpenFails(r)
    <2>1. seg' \in [Segments -> Header] /\ killed' \in [Segments -> BOOLEAN]
      BY <1>5, ReapType DEF OpenFails, TypeOK
    <2> QED
      BY <1>5, <2>1 DEF OpenFails, Failed, LetGo, TypeOK
  <1>6. CASE PollClosed(r)
    <2>1. rseg[r] \in Segments
      BY <1>6 DEF PollClosed, TypeOK
    <2>2. CheckCloseFlag(rseg[r]) \in BOOLEAN
      BY <2>1 DEF TypeOK, CheckCloseFlag, Header
    <2>3. sawClosed' \in [Clients -> BOOLEAN]
      BY <1>6, <2>2 DEF PollClosed, TypeOK
    <2>4. owed' \in [Clients -> Nat]
      BY <1>6, <2>1 DEF PollClosed, TypeOK, Header
    <2> QED
      BY <1>6, <2>3, <2>4 DEF PollClosed, TypeOK, shared
  <1>7. CASE PollData(r)
    BY <1>7 DEF PollData, TypeOK, shared
  <1>8. CASE PollEmpty(r) \/ PollAgain(r)
    BY <1>8 DEF PollEmpty, PollAgain, TypeOK, shared
  <1>9. CASE PollBehind(r) \/ PollRemoved(r) \/ PollLeaves(r)
    <2>1. seg' \in [Segments -> Header] /\ killed' \in [Segments -> BOOLEAN]
      BY <1>9, ReapType DEF PollBehind, PollRemoved, PollLeaves, TypeOK
    <2>2. /\ LetGo(r)
          /\ rpc' = [rpc EXCEPT ![r] = "idle"]
          /\ UNCHANGED <<name, creator, faults>>
      BY <1>9 DEF PollBehind, PollRemoved, PollLeaves
    <2> QED
      BY <2>1, <2>2 DEF LetGo, TypeOK
  <1>10. CASE RemoveFlag(r)
    <2>1. rseg[r] \in Segments
      BY <1>10 DEF RemoveFlag, TypeOK
    <2>2. SetCloseFlag(rseg[r]) \in [Segments -> Header]
      BY <2>1, HeaderOps
    <2>3. seg' \in [Segments -> Header] /\ killed' \in [Segments -> BOOLEAN]
      BY <1>10, <2>2, ReapType DEF RemoveFlag, TypeOK
    <2> QED
      BY <1>10, <2>3 DEF RemoveFlag, LetGo, TypeOK
  <1>11. CASE RemoveName(r)
    <2>1. seg' \in [Segments -> Header] /\ killed' \in [Segments -> BOOLEAN]
      BY <1>11, ReapType DEF RemoveName, TypeOK
    <2> QED
      BY <1>11, <2>1 DEF RemoveName, TypeOK
  <1> QED
    BY <1>1, <1>2, <1>3, <1>4, <1>5, <1>6, <1>7, <1>8, <1>9, <1>10, <1>11
       DEF ClientStep

LEMMA TypeNext == TypeOK /\ [Next]_vars => TypeOK'
  <1> SUFFICES ASSUME TypeOK, [Next]_vars PROVE TypeOK'
    OBVIOUS
  <1>1. CASE UNCHANGED vars
    BY <1>1 DEF TypeOK, vars, shared, creator, reader
  <1>2. CASE Next
    BY <1>2, CreatorType, ClientType DEF Next
  <1> QED
    BY <1>1, <1>2

\* Every variable keeps its type, and a process has a segment open in exactly
\* the states of the code that hold one.
THEOREM LifecycleTypes == Spec => []TypeOK
  <1>1. Init => TypeOK
    BY DEF Init, TypeOK, Header, Blank, WithSegment, Mapped
  <1> QED
    BY <1>1, TypeNext, PTL DEF Spec

-----------------------------------------------------------------------------
(* No reader is stranded.  The name plays no part in the argument: whoever *)
(* makes a header say "open" has the segment, and lets go of it only after *)
(* making it say "closed", or when killed.                                 *)

\* An open header has an owner, or its last owner was killed.
Accounted ==
    \A s \in Segments :
      seg[s].valid /\ ~seg[s].closed => Held(s) \/ killed[s]

\* A step that touches neither headers, marks nor owners, except to free
\* segments and to drop ownership nobody had, keeps Accounted.
LEMMA ReapAccounted ==
    ASSUME TypeOK, Accounted,
           NEW header \in [Segments -> Header],
           NEW dead \in [Segments -> BOOLEAN], Reap(header, dead),
           \A s \in Segments : header[s].valid /\ ~header[s].closed
                               => Held(s)' \/ dead[s]
    PROVE  Accounted'
  <1> SUFFICES ASSUME NEW s \in Segments, seg'[s].valid, ~seg'[s].closed
               PROVE  Held(s)' \/ killed'[s]
    BY DEF Accounted
  <1>1. ~Unreferenced(s)' /\ seg'[s] = header[s]
    BY DEF Reap, Blank
  <1>2. killed'[s] = dead[s]
    BY <1>1 DEF Reap
  <1> QED
    BY <1>1, <1>2

\* A step of a creator keeps Accounted.
LEMMA CreatorAccounted ==
    ASSUME TypeOK, Accounted, NEW c \in Creators,
           CreatorStep(c) \/ CreatorFault(c)
    PROVE  Accounted'
  <1> USE DEF CreatorAt
  <1>1. CASE OpenExisting(c)
    BY <1>1 DEF OpenExisting, TypeOK, Accounted, Held, shared
  <1>2. CASE MapExisting(c)
    BY <1>2 DEF MapExisting, TypeOK, Accounted, Held, shared
  <1>3. CASE DropExisting(c)
    <2>1. \A s \in Segments : Held(s) => Held(s)'
      BY <1>3 DEF DropExisting, TypeOK, Held
    <2> QED
      BY <1>3, <2>1, ReapAccounted DEF DropExisting, TypeOK, Accounted
  <1>4. CASE AttachExisting(c)
    BY <1>4 DEF AttachExisting, TypeOK, Accounted, Held, shared
  <1>5. CASE RefuseExisting(c)
    <2>1. \A s \in Segments : Held(s) => Held(s)'
      BY <1>5 DEF RefuseExisting, TypeOK, Held
    <2> QED
      BY <1>5, <2>1 DEF RefuseExisting, SetCloseFlag, TypeOK, Header, Accounted
  <1>6. CASE MakeSegment(c)
    <2>1. \A s \in Segments : Held(s) => Held(s)'
      BY <1>6 DEF MakeSegment, TypeOK, Held
    <2>2. seg' = seg /\ killed' = killed
      BY <1>6 DEF MakeSegment, shared
    <2> QED
      BY <2>1, <2>2 DEF Accounted
  <1>7. CASE GrowSegment(c)
    <2>1. \A s \in Segments : Held(s) => Held(s)'
      BY <1>7 DEF GrowSegment, TypeOK, Held
    <2> QED
      BY <1>7, <2>1 DEF GrowSegment, TypeOK, Header, Accounted
  <1>8. CASE ClearHeader(c)
    <2>1. \A s \in Segments : Held(s) => Held(s)'
      BY <1>8 DEF ClearHeader, TypeOK, Held
    <2> QED
      BY <1>8, <2>1 DEF ClearHeader, TypeOK, Header, Blank, Accounted
  <1>9. CASE PublishVersion(c) \/ ClearCloseFlag(c) \/ FinishInit(c)
    <2>1. \A s \in Segments : Held(s) \/ s = cseg[c] => Held(s)'
      BY <1>9 DEF PublishVersion, ClearCloseFlag, FinishInit, TypeOK, Held
    <2>2. \A s \in Segments : s # cseg[c] => seg'[s] = seg[s]
      BY <1>9 DEF PublishVersion, ClearCloseFlag, FinishInit, TypeOK
    <2>3. killed' = killed
      BY <1>9 DEF PublishVersion, ClearCloseFlag, FinishInit
    <2> QED
      BY <2>1, <2>2, <2>3 DEF Accounted
  <1>10. CASE Send(c)
    BY <1>10 DEF Send, creator, TypeOK, Header, Accounted, Held
  <1>11. CASE SendableSeesClosed(c) \/ SendableSeesRemoved(c) \/ ShutDown(c)
    <2>1. \A s \in Segments : Held(s) => Held(s)'
      BY <1>11 DEF SendableSeesClosed, SendableSeesRemoved, ShutDown, TypeOK,
                   Held
    <2>2. seg' = seg /\ killed' = killed
      BY <1>11 DEF SendableSeesClosed, SendableSeesRemoved, ShutDown, shared
    <2> QED
      BY <2>1, <2>2 DEF Accounted
  <1>12. CASE DestroyFlag(c)
    <2>1. \A s \in Segments : Held(s) /\ s # cseg[c] => Held(s)'
      BY <1>12 DEF DestroyFlag, TypeOK, Held
    <2> QED
      BY <1>12, <2>1 DEF DestroyFlag, SetCloseFlag, TypeOK, Header, Accounted
  <1>13. CASE DestroyUnlink(c)
    <2>1. \A s \in Segments : Held(s) => Held(s)'
      BY <1>13 DEF DestroyUnlink, CreatorGone, TypeOK, Held
    <2> QED
      BY <1>13, <2>1, ReapAccounted DEF DestroyUnlink, TypeOK, Accounted
  <1>14. CASE GrowFails(c)
    <2>1. \A s \in Segments : Held(s) => Held(s)'
      BY <1>14 DEF GrowFails, CreatorGone, TypeOK, Held
    <2> QED
      BY <1>14, <2>1, ReapAccounted DEF GrowFails, TypeOK, Accounted
  <1>15. CASE Kill(c)
    <2> DEFINE dead == [s \in Segments |->
                         killed[s] \/ (cseg[c] = s /\ cpc[c] \in Owning)]
    <2>1. \A s \in Segments :
            Held(s) /\ ~ (cseg[c] = s /\ cpc[c] \in Owning) => Held(s)'
      BY <1>15 DEF Kill, CreatorGone, TypeOK, Held
    <2>2. \A s \in Segments : seg[s].valid /\ ~seg[s].closed
                               => Held(s)' \/ dead[s]
      BY <2>1 DEF Accounted
    <2>3. dead \in [Segments -> BOOLEAN] /\ Reap(seg, dead)
      BY <1>15 DEF Kill, TypeOK
    <2>4. seg \in [Segments -> Header]
      BY DEF TypeOK
    <2> QED
      BY <2>2, <2>3, <2>4, ReapAccounted
  <1> QED
    BY <1>1, <1>2, <1>3, <1>4, <1>5, <1>6, <1>7, <1>8, <1>9, <1>10, <1>11,
       <1>12, <1>13, <1>14, <1>15 DEF CreatorStep, CreatorFault

\* A step of a reader or a remover owns nothing and only ever sets flags.
LEMMA ClientAccounted ==
    ASSUME TypeOK, Accounted, NEW r \in Clients, ClientStep(r)
    PROVE  Accounted'
  <1>1. \A s \in Segments : Held(s)' <=> Held(s)
    BY DEF ClientStep, Open, Map, SeeVersion, SeeInit, OpenFails, PollClosed,
           PollData, PollBehind, PollEmpty, PollRemoved, PollLeaves, PollAgain,
           RemoveFlag, RemoveName, creator, Held
  <1>2. CASE \/ Open(r) \/ Map(r) \/ SeeVersion(r) \/ SeeInit(r)
             \/ PollClosed(r) \/ PollData(r) \/ PollEmpty(r) \/ PollAgain(r)
    <2>1. seg' = seg /\ killed' = killed
      BY <1>2 DEF Open, Map, SeeVersion, SeeInit, PollClosed, PollData,
                  PollEmpty, PollAgain, shared
    <2> QED
      BY <1>1, <2>1 DEF Accounted
  <1>3. CASE \/ OpenFails(r) \/ PollBehind(r) \/ PollRemoved(r)
             \/ PollLeaves(r) \/ RemoveName(r)
    <2>1. Reap(seg, killed)
      BY <1>3 DEF OpenFails, PollBehind, PollRemoved, PollLeaves, RemoveName
    <2> QED
      BY <1>1, <2>1, ReapAccounted DEF TypeOK, Accounted
  <1>4. CASE RemoveFlag(r)
    <2>1. rseg[r] \in Segments
      BY <1>4 DEF RemoveFlag, ClientAt, TypeOK, Mapped
    <2>2. SetCloseFlag(rseg[r]) \in [Segments -> Header]
      BY <2>1, HeaderOps
    <2>3. \A s \in Segments :
            SetCloseFlag(rseg[r])[s].valid /\ ~SetCloseFlag(rseg[r])[s].closed
              => Held(s)' \/ killed[s]
      BY <1>1, <2>1 DEF SetCloseFlag, TypeOK, Header, Accounted
    <2> QED
      BY <1>4, <2>2, <2>3, ReapAccounted DEF RemoveFlag, TypeOK
  <1> QED
    BY <1>2, <1>3, <1>4 DEF ClientStep

\* However many creators, readers and removers overlap: a reader whose memory
\* has lost its name is told, or will be by the creator that still has it,
\* unless the last creator of that memory was killed.
THEOREM NobodyIsStranded == Spec => []NotStranded
  <1>1. Init => Accounted
    BY DEF Init, Accounted, Blank
  <1>2. TypeOK /\ Accounted /\ [Next]_vars => Accounted'
    <2> SUFFICES ASSUME TypeOK, Accounted, [Next]_vars PROVE Accounted'
      OBVIOUS
    <2>1. CASE UNCHANGED vars
      BY <2>1 DEF Accounted, Held, vars, shared, creator
    <2>2. CASE Next
      BY <2>2, CreatorAccounted, ClientAccounted DEF Next
    <2> QED
      BY <2>1, <2>2
  <1>3. TypeOK /\ Accounted => NotStranded
    <2> SUFFICES ASSUME TypeOK, Accounted, NEW r \in Readers, Reading(r),
                        ~CheckCloseFlag(rseg[r])
                 PROVE  Held(rseg[r]) \/ killed[rseg[r]]
      BY DEF NotStranded
    <2>1. rseg[r] \in Segments
      BY DEF Reading, TypeOK, Mapped
    <2> QED
      BY <2>1 DEF Accounted, CheckCloseFlag, TypeOK, Header
  <1> QED
    BY <1>1, <1>2, <1>3, LifecycleTypes, PTL DEF Spec

-----------------------------------------------------------------------------
(* One creator alone never initialises what a reader relies on.  shm_open  *)
(* is without O_EXCL, but whoever comes to it has unlinked the name or     *)
(* found none, and no other creator gives the name away.                   *)

OnlyLoner == \A c \in Creators \ {Loner} : cpc[c] = "idle"

\* What nobody refers to, the kernel has freed.
FreeIsBlank == \A s \in Segments : Unreferenced(s) => seg[s] = Blank

\* No client got further than waiting for the version of this segment.
Fresh(s) ==
    /\ ~seg[s].valid
    /\ \A r \in Clients : rseg[r] = s => rpc[r] \in {"map", "wait"}

MakesNew ==
    \A c \in Creators :
      /\ cpc[c] = "make" => name = NoSegment
      /\ cpc[c] \in {"grow", "clear", "publish"} => Fresh(cseg[c])

AloneInv ==
    /\ TypeOK
    /\ FreeIsBlank
    /\ ~crowd => OnlyLoner /\ MakesNew

\* Whatever loses its last reference in a step is freed by that step.
LEMMA FreeNext == TypeOK /\ FreeIsBlank /\ [Next]_vars => FreeIsBlank'
  <1> SUFFICES ASSUME TypeOK, FreeIsBlank, [Next]_vars,
                      NEW s \in Segments, Unreferenced(s)'
               PROVE  seg'[s] = Blank
    BY DEF FreeIsBlank
  <1>1. ASSUME NEW header, NEW dead, Reap(header, dead) PROVE seg'[s] = Blank
    BY <1>1 DEF Reap
  <1>2. ASSUME Unreferenced(s), seg'[s] = seg[s] PROVE seg'[s] = Blank
    BY <1>2 DEF FreeIsBlank
  <1>3. CASE UNCHANGED vars
    BY <1>2, <1>3 DEF vars, shared, creator, reader, Unreferenced
  <1>4. ASSUME NEW c \in Creators, CreatorStep(c) \/ CreatorFault(c)
        PROVE  seg'[s] = Blank
    <2> USE DEF CreatorAt, WithSegment
    <2>1. CASE DropExisting(c) \/ DestroyUnlink(c) \/ GrowFails(c) \/ Kill(c)
      BY <1>1, <2>1 DEF DropExisting, DestroyUnlink, GrowFails, Kill
    <2>2. CASE OpenExisting(c)
      <3>1. cseg[c] = NoSegment
        BY <2>2 DEF OpenExisting, TypeOK
      <3> QED BY <1>2, <2>2, <3>1 DEF OpenExisting, Unreferenced, shared, reader, TypeOK
    <2>3. CASE MakeSegment(c)
      <3>1. cseg[c] = NoSegment
        BY <2>3 DEF MakeSegment, TypeOK
      <3>2. CASE name # NoSegment
        BY <1>2, <2>3, <3>1, <3>2 DEF MakeSegment, Unreferenced, shared, reader, TypeOK
      <3>3. CASE name = NoSegment
        BY <1>2, <2>3, <3>1, <3>3 DEF MakeSegment, Unreferenced, shared, reader, TypeOK
      <3> QED BY <3>2, <3>3
    <2>4. CASE \/ MapExisting(c) \/ AttachExisting(c) \/ SendableSeesClosed(c)
               \/ SendableSeesRemoved(c) \/ ShutDown(c)
      BY <1>2, <2>4 DEF MapExisting, AttachExisting, SendableSeesClosed,
                        SendableSeesRemoved, ShutDown, Unreferenced, shared, reader
    <2>5. CASE \/ RefuseExisting(c) \/ GrowSegment(c) \/ ClearHeader(c) \/ PublishVersion(c)
               \/ ClearCloseFlag(c) \/ FinishInit(c) \/ Send(c) \/ DestroyFlag(c)
      <3>1. /\ UNCHANGED <<name, cseg, rseg>>
        BY <2>5 DEF RefuseExisting, GrowSegment, ClearHeader, PublishVersion, ClearCloseFlag,
                    FinishInit, Send, DestroyFlag, creator, reader
      <3>2. Unreferenced(s) /\ s # cseg[c]
        BY <3>1 DEF Unreferenced
      <3>3. seg'[s] = seg[s]
        BY <2>5, <3>2 DEF RefuseExisting, GrowSegment, ClearHeader, PublishVersion,
                          ClearCloseFlag, FinishInit, Send, DestroyFlag, SetCloseFlag, TypeOK
      <3> QED BY <1>2, <3>2, <3>3
    <2> QED
      BY <1>4, <2>1, <2>2, <2>3, <2>4, <2>5 DEF CreatorStep, CreatorFault
  <1>5. ASSUME NEW r \in Clients, ClientStep(r)
        PROVE  seg'[s] = Blank
    <2> USE DEF ClientAt, Mapped
    <2>1. CASE \/ OpenFails(r) \/ PollBehind(r) \/ PollRemoved(r) \/ PollLeaves(r)
               \/ RemoveFlag(r) \/ RemoveName(r)
      BY <1>1, <2>1 DEF OpenFails, PollBehind, PollRemoved, PollLeaves, RemoveFlag, RemoveName
    <2>2. CASE Open(r)
      <3>1. rseg[r] = NoSegment
        BY <2>2 DEF Open, TypeOK
      <3> QED BY <1>2, <2>2, <3>1 DEF Open, Unreferenced, shared, creator, TypeOK
    <2>3. CASE \/ Map(r) \/ SeeVersion(r) \/ SeeInit(r) \/ PollClosed(r) \/ PollData(r)
               \/ PollEmpty(r) \/ PollAgain(r)
      BY <1>2, <2>3 DEF Map, SeeVersion, SeeInit, PollClosed, PollData, PollEmpty, PollAgain,
                        Unreferenced, shared, creator
    <2> QED
      BY <1>5, <2>1, <2>2, <2>3 DEF ClientStep
  <1> QED
    BY <1>3, <1>4, <1>5 DEF Next

\* The only creator that takes steps alone is the loner.
LEMMA LonerSteps ==
    ASSUME TypeOK, OnlyLoner, OnlyLoner', NEW c \in Creators,
           CreatorStep(c) \/ CreatorFault(c)
    PROVE  c = Loner
  BY DEF OnlyLoner, TypeOK, CreatorStep, CreatorFault, CreatorAt, OpenExisting, MapExisting,
         DropExisting, AttachExisting, RefuseExisting, MakeSegment, GrowSegment, ClearHeader,
         PublishVersion, ClearCloseFlag, FinishInit, Send, SendableSeesClosed,
         SendableSeesRemoved, DestroyFlag, DestroyUnlink, GrowFails, ShutDown, Kill

LEMMA LonerMakesNew ==
    ASSUME TypeOK, FreeIsBlank, OnlyLoner, MakesNew, OnlyLoner',
           NEW c \in Creators, CreatorStep(c) \/ CreatorFault(c)
    PROVE  MakesNew'
  <1>1. c = Loner
    BY LonerSteps
  <1> SUFFICES /\ cpc'[c] = "make" => name' = NoSegment
               /\ cpc'[c] \in {"grow", "clear", "publish"} => Fresh(cseg[c])'
    BY <1>1 DEF MakesNew, OnlyLoner, Fresh
  <1> USE DEF CreatorAt
  <1>2. CASE OpenExisting(c)
    BY <1>2 DEF OpenExisting, TypeOK, shared
  <1>3. CASE DropExisting(c)
    BY <1>3 DEF DropExisting, TypeOK
  <1>4. CASE MakeSegment(c)
    <2>1. PICK s \in Segments : /\ Unreferenced(s) /\ cseg' = [cseg EXCEPT ![c] = s]
                                /\ UNCHANGED <<seg, killed>>
      BY <1>4 DEF MakeSegment, MakesNew
    <2>2. seg[s] = Blank /\ \A r \in Clients : rseg[r] # s
      BY <2>1 DEF FreeIsBlank, Unreferenced
    <2>3. cpc'[c] = "grow" /\ cseg'[c] = s /\ seg' = seg /\ rseg' = rseg
      BY <1>4, <2>1 DEF MakeSegment, TypeOK, reader
    <2> QED BY <2>2, <2>3 DEF Fresh, Blank
  <1>5. CASE GrowSegment(c) \/ ClearHeader(c)
    <2>1. /\ cpc[c] \in {"grow", "clear"} /\ cpc'[c] \in {"clear", "publish"}
          /\ UNCHANGED <<cseg, rseg, rpc>> /\ cseg[c] \in Segments
      BY <1>5 DEF GrowSegment, ClearHeader, reader, TypeOK, WithSegment
    <2>2. Fresh(cseg[c])
      BY <2>1 DEF MakesNew
    <2>3. seg'[cseg[c]].valid = FALSE
      <3>1. CASE GrowSegment(c)
        BY <2>1, <2>2, <3>1 DEF GrowSegment, Fresh, TypeOK, Header
      <3>2. CASE ClearHeader(c)
        BY <2>1, <3>2 DEF ClearHeader, Blank, TypeOK
      <3> QED BY <1>5, <3>1, <3>2
    <2> QED BY <2>1, <2>2, <2>3 DEF Fresh
  <1>6. CASE ~ (OpenExisting(c) \/ DropExisting(c) \/ MakeSegment(c)
                \/ GrowSegment(c) \/ ClearHeader(c))
    <2>1. cpc'[c] \notin {"make", "grow", "clear", "publish"}
      BY <1>6 DEF CreatorStep, CreatorFault, MapExisting, AttachExisting, RefuseExisting,
                  PublishVersion, ClearCloseFlag, FinishInit, Send, SendableSeesClosed,
                  SendableSeesRemoved, DestroyFlag, DestroyUnlink, GrowFails, ShutDown, Kill,
                  creator, TypeOK
    <2> QED BY <2>1
  <1> QED BY <1>2, <1>3, <1>4, <1>5, <1>6

\* A client neither takes the name for a segment nor makes a header valid, and
\* gets no further than "wait" while the header is not.
LEMMA ClientKeepsNew ==
    ASSUME TypeOK, MakesNew, NEW r \in Clients, ClientStep(r)
    PROVE  MakesNew'
  <1> USE DEF ClientAt
  <1>1. /\ UNCHANGED <<cpc, cseg>>
        /\ name' = name \/ name' = NoSegment
    BY DEF ClientStep, Open, Map, SeeVersion, SeeInit, OpenFails, PollClosed, PollData,
           PollBehind, PollEmpty, PollRemoved, PollLeaves, PollAgain, RemoveFlag, RemoveName,
           creator, shared
  <1> SUFFICES ASSUME NEW c \in Creators, cpc[c] \in {"grow", "clear", "publish"}
               PROVE  Fresh(cseg[c])'
    BY <1>1 DEF MakesNew
  <1> DEFINE s == cseg[c]
  <1>2. /\ s \in Segments /\ ~seg[s].valid
        /\ \A x \in Clients : rseg[x] = s => rpc[x] \in {"map", "wait"}
    BY DEF TypeOK, WithSegment, MakesNew, Fresh
  <1>3. cseg'[c] = s
    BY <1>1
  <1>4. ASSUME NEW header, NEW dead, Reap(header, dead), header[s].valid = seg[s].valid
        PROVE  seg'[s].valid = seg[s].valid
    BY <1>2, <1>3, <1>4 DEF Reap, Unreferenced
  <1>5. seg'[s].valid = seg[s].valid
    <2>1. CASE RemoveFlag(r)
      BY <1>2, <1>4, <2>1 DEF RemoveFlag, SetCloseFlag, TypeOK, Header
    <2>2. CASE OpenFails(r) \/ PollBehind(r) \/ PollRemoved(r) \/ PollLeaves(r) \/ RemoveName(r)
      BY <1>4, <2>2 DEF OpenFails, PollBehind, PollRemoved, PollLeaves, RemoveName
    <2>3. CASE \/ Open(r) \/ Map(r) \/ SeeVersion(r) \/ SeeInit(r) \/ PollClosed(r)
               \/ PollData(r) \/ PollEmpty(r) \/ PollAgain(r)
      BY <2>3 DEF Open, Map, SeeVersion, SeeInit, PollClosed, PollData, PollEmpty, PollAgain,
                  shared
    <2> QED BY <2>1, <2>2, <2>3 DEF ClientStep
  <1>6. ASSUME NEW x \in Clients, rseg'[x] = s PROVE rpc'[x] \in {"map", "wait"}
    <2>1. CASE Open(r)
      <3>1. name = s => rpc'[r] = "map"
        BY <1>2, <2>1 DEF Open, TypeOK
      <3> QED BY <1>2, <1>6, <2>1, <3>1 DEF Open, TypeOK
    <2>2. CASE \/ Map(r) \/ SeeVersion(r) \/ SeeInit(r) \/ PollClosed(r)
               \/ PollData(r) \/ PollEmpty(r) \/ PollAgain(r)
      BY <1>2, <1>6, <2>2 DEF Map, SeeVersion, SeeInit, PollClosed, PollData, PollEmpty,
                              PollAgain, TypeOK
    <2>3. CASE OpenFails(r) \/ PollBehind(r) \/ PollRemoved(r) \/ PollLeaves(r) \/ RemoveFlag(r)
      BY <1>2, <1>6, <2>3 DEF OpenFails, PollBehind, PollRemoved, PollLeaves, RemoveFlag, LetGo,
                              TypeOK
    <2>4. CASE RemoveName(r)
      <3>1. rseg[r] = NoSegment
        BY <2>4 DEF RemoveName, TypeOK, Mapped
      <3> QED BY <1>2, <1>6, <2>4, <3>1 DEF RemoveName, TypeOK
    <2> QED BY <2>1, <2>2, <2>3, <2>4 DEF ClientStep
  <1> QED BY <1>2, <1>3, <1>5, <1>6 DEF Fresh

LEMMA AloneInit == MCInit => AloneInv
  <1>1. Init => TypeOK
    BY DEF Init, TypeOK, Header, Blank, WithSegment, Mapped
  <1>2. Init => FreeIsBlank /\ OnlyLoner /\ MakesNew
    BY DEF Init, FreeIsBlank, OnlyLoner, MakesNew
  <1> QED
    BY <1>1, <1>2 DEF MCInit, AloneInv

LEMMA AloneNext == AloneInv /\ [MCNext]_<<vars, crowd>> => AloneInv'
  <1> SUFFICES ASSUME AloneInv, [MCNext]_<<vars, crowd>> PROVE AloneInv'
    OBVIOUS
  <1>1. [Next]_vars /\ crowd' = crowd
    BY DEF MCNext
  <1>2. TypeOK' /\ FreeIsBlank'
    BY <1>1, TypeNext, FreeNext DEF AloneInv
  <1>3. ASSUME ~crowd PROVE OnlyLoner' /\ MakesNew'
    <2>1. TypeOK /\ FreeIsBlank /\ OnlyLoner /\ MakesNew
      BY <1>3 DEF AloneInv
    <2>2. CASE UNCHANGED vars
      BY <2>1, <2>2 DEF vars, shared, creator, reader, OnlyLoner, MakesNew, Fresh
    <2>3. CASE MCNext
      <3>1. OnlyLoner'
        BY <1>3, <2>3 DEF MCNext, OnlyLoner
      <3> QED
        BY <2>1, <2>3, <3>1, LonerMakesNew, ClientKeepsNew DEF MCNext, Next
    <2> QED
      BY <2>2, <2>3
  <1> QED
    BY <1>1, <1>2, <1>3 DEF AloneInv

\* A creator that is restarted after every fault, with any number of readers
\* and removers beside it, never clears a header a reader relies on.
THEOREM LonerInitialisesOnce == MCSpec => []AloneInitialisesOnce
  <1>1. AloneInv => AloneInitialisesOnce
    BY DEF AloneInv, AloneInitialisesOnce, NeverReinitialised, MakesNew, Fresh, Reading
  <1> QED
    BY <1>1, AloneInit, AloneNext, PTL DEF MCSpec

-----------------------------------------------------------------------------
(* A reader that is told of the close has read everything.  The flag is    *)
(* loaded before the index, and what was written stays written while the   *)
(* header is not cleared under the reader.                                 *)

NothingSent ==
    /\ \A s \in Segments : seg[s].written = 0
    /\ \A r \in Readers : owed[r] = 0

OwedIsThere ==
    \A r \in Readers :
      /\ rpc[r] = "gap" => owed[r] <= seg[rseg[r]].written
      /\ rpc[r] = "name" => owed[r] <= readIndex[r]

CloseInv ==
    /\ AloneInv
    /\ crowd => NothingSent
    /\ OwedIsThere

LEMMA CloseInit == MCInit => CloseInv
  <1>1. Init => NothingSent /\ OwedIsThere
    BY DEF Init, NothingSent, OwedIsThere, Blank
  <1> QED
    BY <1>1, AloneInit DEF MCInit, CloseInv

\* In a crowd nothing is written, so nobody is owed anything.
LEMMA NothingSentNext ==
    ASSUME AloneInv, NothingSent, crowd, [MCNext]_<<vars, crowd>>
    PROVE  NothingSent'
  <1>1. CASE UNCHANGED <<vars, crowd>>
    BY <1>1 DEF NothingSent, vars, shared, reader
  <1>2. CASE MCNext
    <2>1. \A s \in Segments : seg'[s].written = 0
      <3>1. \A s \in Segments : seg'[s].written \in Nat /\ seg'[s].written <= 0
        BY <1>2, AloneNext DEF MCNext, CrowdFrames, AloneInv, TypeOK, Header
      <3> QED BY <3>1
    <2>2. ASSUME NEW r \in Readers PROVE owed'[r] = 0
      <3>1. owed \in [Clients -> Nat] /\ owed[r] = 0 /\ r \in Clients
        BY DEF AloneInv, TypeOK, NothingSent
      <3>2. ASSUME NEW c \in Creators, CreatorStep(c) \/ CreatorFault(c) PROVE owed' = owed
        BY <3>2 DEF CreatorStep, CreatorFault, OpenExisting, MapExisting, DropExisting,
                    AttachExisting, RefuseExisting, MakeSegment, GrowSegment, ClearHeader,
                    PublishVersion, ClearCloseFlag, FinishInit, Send, SendableSeesClosed,
                    SendableSeesRemoved, DestroyFlag, DestroyUnlink, GrowFails, ShutDown, Kill,
                    reader
      <3>3. ASSUME NEW x \in Clients, ClientStep(x) PROVE owed'[r] = 0
        <4>1. CASE PollClosed(x)
          <5>1. rseg[x] \in Segments
            BY <4>1 DEF PollClosed, ClientAt, AloneInv, TypeOK, Mapped
          <5> QED BY <3>1, <4>1, <5>1 DEF PollClosed, NothingSent
        <4>2. CASE ~PollClosed(x)
          <5>1. owed' = owed \/ owed' = [owed EXCEPT ![x] = 0]
            BY <3>3, <4>2 DEF ClientStep, Open, Map, SeeVersion, SeeInit, OpenFails, PollData,
                              PollBehind, PollEmpty, PollRemoved, PollLeaves, PollAgain,
                              RemoveFlag, RemoveName, LetGo
          <5> QED BY <3>1, <5>1
        <4> QED BY <4>1, <4>2
      <3> QED BY <1>2, <3>1, <3>2, <3>3 DEF MCNext, Next
    <2> QED BY <2>1, <2>2 DEF NothingSent
  <1> QED BY <1>1, <1>2

\* A creator's step takes nothing away from a memory that is being read, where
\* headers in use are not cleared.
LEMMA CreatorKeepsWritten ==
    ASSUME TypeOK, NeverReinitialised, NEW c \in Creators, CreatorStep(c) \/ CreatorFault(c),
           NEW r \in Readers, Reading(r)
    PROVE  seg'[rseg[r]].written >= seg[rseg[r]].written
  <1> USE DEF CreatorAt
  <1> DEFINE s == rseg[r]
  <1>1. s \in Segments /\ r \in Clients /\ seg[s].written \in Nat
    BY DEF TypeOK, Header, Reading, Mapped
  <1>2. CASE \/ OpenExisting(c) \/ MapExisting(c) \/ AttachExisting(c) \/ MakeSegment(c)
             \/ SendableSeesClosed(c) \/ SendableSeesRemoved(c) \/ ShutDown(c)
    <2>1. seg' = seg
      BY <1>2 DEF OpenExisting, MapExisting, AttachExisting, MakeSegment, SendableSeesClosed,
                  SendableSeesRemoved, ShutDown, shared
    <2> QED BY <1>1, <2>1
  <1>3. CASE DropExisting(c) \/ DestroyUnlink(c) \/ GrowFails(c) \/ Kill(c)
    <2>1. rseg' = rseg /\ \E dead : Reap(seg, dead)
      BY <1>3 DEF DropExisting, DestroyUnlink, GrowFails, Kill, reader
    <2>2. seg'[s] = seg[s]
      BY <1>1, <2>1 DEF Reap, Unreferenced
    <2> QED BY <1>1, <2>2
  <1>4. CASE ClearHeader(c)
    <2>1. s # cseg[c]
      BY <1>4 DEF ClearHeader, NeverReinitialised
    <2> QED BY <1>1, <1>4, <2>1 DEF ClearHeader, TypeOK
  <1>5. CASE \/ RefuseExisting(c) \/ GrowSegment(c) \/ PublishVersion(c) \/ ClearCloseFlag(c)
             \/ FinishInit(c) \/ Send(c) \/ DestroyFlag(c)
    <2>1. seg'[s].written = seg[s].written \/ seg'[s].written = seg[s].written + 1
      BY <1>1, <1>5 DEF RefuseExisting, GrowSegment, PublishVersion, ClearCloseFlag, FinishInit,
                        Send, DestroyFlag, SetCloseFlag, TypeOK, Header
    <2> QED BY <1>1, <2>1
  <1> QED BY <1>2, <1>3, <1>4, <1>5 DEF CreatorStep, CreatorFault

\* Nor does a client's step.
LEMMA ClientKeepsWritten ==
    ASSUME TypeOK, NEW x \in Clients, ClientStep(x), NEW s \in Segments,
           \E r \in Clients : rseg'[r] = s
    PROVE  seg'[s].written = seg[s].written
  <1>1. ASSUME NEW header, NEW dead, Reap(header, dead), header[s].written = seg[s].written
        PROVE  seg'[s].written = seg[s].written
    BY <1>1 DEF Reap, Unreferenced
  <1>2. CASE RemoveFlag(x)
    <2>1. SetCloseFlag(rseg[x])[s].written = seg[s].written
      BY DEF SetCloseFlag, TypeOK, Header
    <2>2. Reap(SetCloseFlag(rseg[x]), killed)
      BY <1>2 DEF RemoveFlag
    <2> QED BY <1>1, <2>1, <2>2
  <1>3. CASE OpenFails(x) \/ PollBehind(x) \/ PollRemoved(x) \/ PollLeaves(x) \/ RemoveName(x)
    BY <1>1, <1>3 DEF OpenFails, PollBehind, PollRemoved, PollLeaves, RemoveName
  <1>4. CASE \/ Open(x) \/ Map(x) \/ SeeVersion(x) \/ SeeInit(x) \/ PollClosed(x)
             \/ PollData(x) \/ PollEmpty(x) \/ PollAgain(x)
    BY <1>4 DEF Open, Map, SeeVersion, SeeInit, PollClosed, PollData, PollEmpty, PollAgain,
                shared
  <1> QED BY <1>2, <1>3, <1>4 DEF ClientStep

\* The reader's own steps: the flag's load fixes what is owed, and an empty
\* poll means it has been read.
LEMMA OwedNext ==
    ASSUME CloseInv, [MCNext]_<<vars, crowd>>
    PROVE  OwedIsThere'
  <1>t. TypeOK /\ TypeOK' /\ OwedIsThere
    BY AloneNext DEF CloseInv, AloneInv
  <1> SUFFICES ASSUME NEW r \in Readers
               PROVE  /\ rpc'[r] = "gap" => owed'[r] <= seg'[rseg'[r]].written
                      /\ rpc'[r] = "name" => owed'[r] <= readIndex'[r]
    BY DEF OwedIsThere
  <1>r. r \in Clients /\ owed[r] \in Nat /\ owed'[r] \in Nat
    BY <1>t DEF TypeOK
  <1>1. CASE UNCHANGED <<vars, crowd>>
    BY <1>1, <1>t DEF OwedIsThere, vars, shared, reader
  <1>2. ASSUME NEW c \in Creators, CreatorStep(c) \/ CreatorFault(c)
        PROVE  /\ rpc'[r] = "gap" => owed'[r] <= seg'[rseg'[r]].written
               /\ rpc'[r] = "name" => owed'[r] <= readIndex'[r]
    <2>1. UNCHANGED reader
      BY <1>2 DEF CreatorStep, CreatorFault, OpenExisting, MapExisting, DropExisting,
                  AttachExisting, RefuseExisting, MakeSegment, GrowSegment, ClearHeader,
                  PublishVersion, ClearCloseFlag, FinishInit, Send, SendableSeesClosed,
                  SendableSeesRemoved, DestroyFlag, DestroyUnlink, GrowFails, ShutDown, Kill
    <2>2. CASE rpc[r] = "gap"
      <3>1. rseg[r] \in Segments /\ Reading(r)
        BY <1>r, <1>t, <2>2 DEF TypeOK, Mapped, Reading
      <3>2. seg'[rseg[r]].written \in Nat /\ seg[rseg[r]].written \in Nat
        BY <1>t, <3>1 DEF TypeOK, Header
      <3>3. CASE crowd
        <4>1. owed[r] = 0
          BY <3>3 DEF CloseInv, NothingSent
        <4> QED BY <2>1, <2>2, <3>2, <4>1 DEF reader
      <3>4. CASE ~crowd
        <4>1. NeverReinitialised
          BY <3>4 DEF CloseInv, AloneInv, MakesNew, Fresh, NeverReinitialised, Reading
        <4>2. seg'[rseg[r]].written >= seg[rseg[r]].written
          BY <1>2, <1>t, <3>1, <4>1, CreatorKeepsWritten
        <4>3. owed[r] <= seg[rseg[r]].written
          BY <1>t, <2>2 DEF OwedIsThere
        <4> QED BY <1>r, <2>1, <2>2, <3>2, <4>2, <4>3 DEF reader
      <3> QED BY <3>3, <3>4
    <2>3. CASE rpc[r] # "gap"
      BY <1>t, <2>1, <2>3 DEF reader, OwedIsThere
    <2> QED BY <2>2, <2>3
  <1>3. ASSUME NEW x \in Clients, ClientStep(x)
        PROVE  /\ rpc'[r] = "gap" => owed'[r] <= seg'[rseg'[r]].written
               /\ rpc'[r] = "name" => owed'[r] <= readIndex'[r]
    <2> USE DEF ClientAt
    <2>1. CASE PollClosed(x) /\ x = r
      <3>1. /\ seg' = seg /\ rseg' = rseg /\ rpc'[r] = "gap" /\ rseg[r] \in Segments
            /\ owed'[r] = seg[rseg[r]].written \/ owed'[r] = 0
        BY <1>r, <1>t, <2>1 DEF PollClosed, shared, TypeOK, Mapped
      <3>2. seg[rseg[r]].written \in Nat
        BY <1>t, <3>1 DEF TypeOK, Header
      <3> QED BY <3>1, <3>2
    <2>2. CASE PollEmpty(x) /\ x = r
      <3>1. /\ rpc[r] = "gap" /\ rpc'[r] = "name" /\ owed' = owed /\ readIndex' = readIndex
            /\ seg[rseg[r]].written = readIndex[r]
        BY <1>r, <1>t, <2>2 DEF PollEmpty, TypeOK
      <3> QED BY <1>t, <3>1 DEF OwedIsThere
    <2>3. CASE x = r /\ ~PollClosed(x) /\ ~PollEmpty(x)
      <3>1. rpc'[r] \notin {"gap", "name"}
        BY <1>3, <1>r, <1>t, <2>3
           DEF ClientStep, Open, Map, SeeVersion, SeeInit, OpenFails, PollData, PollBehind,
               PollRemoved, PollLeaves, PollAgain, RemoveFlag, RemoveName, Failed, TypeOK
      <3> QED BY <3>1
    <2>4. CASE x # r
      <3>1. /\ rpc'[r] = rpc[r] /\ rseg'[r] = rseg[r] /\ owed'[r] = owed[r]
            /\ readIndex'[r] = readIndex[r]
        BY <1>3, <1>r, <1>t, <2>4
           DEF ClientStep, Open, Map, SeeVersion, SeeInit, OpenFails, PollClosed, PollData,
               PollBehind, PollEmpty, PollRemoved, PollLeaves, PollAgain, RemoveFlag,
               RemoveName, LetGo, TypeOK
      <3>2. CASE rpc[r] = "gap"
        <4>1. rseg[r] \in Segments
          BY <1>r, <1>t, <3>2 DEF TypeOK, Mapped
        <4>2. seg'[rseg[r]].written = seg[rseg[r]].written
          BY <1>3, <1>r, <1>t, <3>1, <4>1, ClientKeepsWritten
        <4> QED BY <1>t, <3>1, <3>2, <4>2 DEF OwedIsThere
      <3>3. CASE rpc[r] # "gap"
        BY <1>t, <3>1, <3>3 DEF OwedIsThere
      <3> QED BY <3>2, <3>3
    <2> QED BY <2>1, <2>2, <2>3, <2>4
  <1> QED
    BY <1>1, <1>2, <1>3 DEF MCNext, Next

\* A reader that leaves because of the close flag has read all that had been
\* written when it saw the flag.
THEOREM CloseLosesNothing == MCSpec => NothingLostAtClose
  <1>1. CloseInv /\ [MCNext]_<<vars, crowd>> => CloseInv'
    BY AloneNext, NothingSentNext, OwedNext DEF CloseInv, MCNext
  <1>2. CloseInv /\ [MCNext]_<<vars, crowd>>
          => [\A r \in Readers : PollLeaves(r) => readIndex[r] >= owed[r]]_vars
    <2> SUFFICES ASSUME CloseInv, NEW r \in Readers, PollLeaves(r)
                 PROVE  readIndex[r] >= owed[r]
      OBVIOUS
    <2>1. owed[r] <= readIndex[r] /\ owed[r] \in Nat /\ readIndex[r] \in Nat
      BY DEF PollLeaves, ClientAt, CloseInv, OwedIsThere, AloneInv, TypeOK
    <2> QED BY <2>1
  <1> QED
    BY <1>1, <1>2, CloseInit, PTL DEF MCSpec, NothingLostAtClose

=============================================================================
