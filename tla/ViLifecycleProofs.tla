------------------------- MODULE ViLifecycleProofs -------------------------
(***************************************************************************)
(* ViShmLifecycle for any creators, readers, removers, segments and sizes: *)
(* its types, that no reader is stranded by an orderly end, and that one   *)
(* creator alone initialises nothing a reader relies on.                   *)
(***************************************************************************)
EXTENDS MCViShmLifecycle, TLAPS

USE ViLifecycleAssumption DEF Fault, At, Clients, Processes, MaxItemIndex

-----------------------------------------------------------------------------
(* Types.                                                                  *)

\* Contents stay contents under the operators that are not one store.
LEMMA ContentsOps ==
    ASSUME TypeOK
    PROVE  /\ Blank \in Contents
           /\ \A s \in Segments : SetCloseFlag(s) \in [Segments -> Contents]
  BY DEF TypeOK, Contents, Blank, SetCloseFlag

\* Reap leaves contents and marks of the right type.
LEMMA ReapType ==
    ASSUME TypeOK, NEW header \in [Segments -> Contents],
           NEW dead \in [Segments -> BOOLEAN], Reap(header, dead)
    PROVE  seg' \in [Segments -> Contents] /\ killed' \in [Segments -> BOOLEAN]
  <1>1. Blank \in Contents
    BY ContentsOps
  <1>2. seg' \in [Segments -> Contents]
    BY <1>1 DEF Reap
  <1>3. killed' \in [Segments -> BOOLEAN]
    BY DEF Reap
  <1> QED
    BY <1>2, <1>3

\* A process between two states in which it has its segment mapped.
LEMMA StoreType ==
    ASSUME TypeOK, NEW p \in Processes, NEW from \in Mapped, NEW to \in Mapped,
           NEW header \in [Segments -> Contents], Store(p, from, to, header)
    PROVE  TypeOK'
  BY DEF Store, TypeOK, Mapped, Owning, Opened

\* A process that ends, or goes where it has no handle, letting go of it.
LEMMA CloseType ==
    ASSUME TypeOK, NEW r \in Clients, NEW from, NEW to \in {"idle", "rmopen"},
           Close(r, from, to)
    PROVE  TypeOK'
  <1>1. seg' \in [Segments -> Contents] /\ killed' \in [Segments -> BOOLEAN]
    BY ReapType DEF Close, TypeOK
  <1> QED
    BY <1>1 DEF Close, LetGo, TypeOK, Mapped, Opened, Owning

\* The creator's stores to the control block and the header.
LEMMA CreatorStoreType ==
    ASSUME TypeOK, NEW c \in Creators,
           \/ ZeroControl(c) \/ FillControl(c) \/ InvalidateHeader(c)
           \/ Suits(c) \/ RefuseExisting(c) \/ ClearCloseFlag(c)
           \/ FinishInit(c) \/ Send(c) \/ SendableFails(c) \/ DestroyFlag(c)
    PROVE  TypeOK'
  <1> USE DEF Mapped, Owning
  <1>1. seg \in [Segments -> Contents] /\ want[c] \in Nat
    BY DEF TypeOK
  <1>2. pc[c] \in Mapped => at[c] \in Segments
    BY DEF TypeOK
  <1>3. CASE ZeroControl(c)
    <2> DEFINE one == [seg EXCEPT ![at[c]].magic = FALSE]
               two == [one EXCEPT ![at[c]].count = 0]
               three == [two EXCEPT ![at[c]].written = 0]
    <2>0. Store(c, "zero", "fill", three)
      BY <1>3 DEF ZeroControl
    <2>1. one \in [Segments -> Contents]
      BY <1>1 DEF Contents
    <2> HIDE DEF one
    <2>2. two \in [Segments -> Contents]
      BY <2>1 DEF Contents
    <2> HIDE DEF two
    <2>3. three \in [Segments -> Contents]
      BY <2>2 DEF Contents
    <2> HIDE DEF three
    <2> QED
      BY <2>0, <2>3, StoreType
  <1>4. CASE FillControl(c)
    <2> DEFINE one == [seg EXCEPT ![at[c]].magic = TRUE]
               two == [one EXCEPT ![at[c]].count = want[c]]
    <2>1. one \in [Segments -> Contents]
      BY <1>1 DEF Contents
    <2>2. two \in [Segments -> Contents]
      BY <1>1, <2>1 DEF Contents
    <2>3. Store(c, "fill", "check", two)
      BY <1>4 DEF FillControl
    <2> QED
      BY <2>2, <2>3, StoreType
  <1>5. CASE InvalidateHeader(c)
    <2>1. [seg EXCEPT ![at[c]].version = FALSE] \in [Segments -> Contents]
      BY <1>1 DEF Contents
    <2> QED
      BY <1>5, <2>1, StoreType DEF InvalidateHeader
  <1>6. CASE Suits(c) \/ SendableFails(c)
    BY <1>1, <1>6, StoreType DEF Suits, SendableFails
  <1>7. CASE RefuseExisting(c) \/ DestroyFlag(c)
    <2>1. SetCloseFlag(at[c]) \in [Segments -> Contents]
      BY <1>2, <1>7, ContentsOps DEF RefuseExisting, DestroyFlag, Store
    <2> QED
      BY <1>7, <2>1, StoreType DEF RefuseExisting, DestroyFlag
  <1>8. CASE ClearCloseFlag(c)
    <2>1. [seg EXCEPT ![at[c]].closed = FALSE] \in [Segments -> Contents]
      BY <1>1 DEF Contents
    <2> QED
      BY <1>8, <2>1, StoreType DEF ClearCloseFlag
  <1>9. CASE FinishInit(c)
    <2>1. [seg EXCEPT ![at[c]].init = TRUE] \in [Segments -> Contents]
      BY <1>1 DEF Contents
    <2> QED
      BY <1>9, <2>1, StoreType DEF FinishInit
  <1>10. CASE Send(c)
    <2>1. at[c] \in Segments
      BY <1>2, <1>10 DEF Send, Store
    <2>2. [seg EXCEPT ![at[c]].written = @ + 1] \in [Segments -> Contents]
      BY <1>1, <2>1 DEF Contents
    <2> QED
      BY <1>10, <2>2, StoreType DEF Send
  <1> QED
    BY <1>3, <1>4, <1>5, <1>6, <1>7, <1>8, <1>9, <1>10

\* A creator that ends without a handle: the call has failed, the writer is
\* destroyed, the process was killed.
LEMMA CreatorEndType ==
    ASSUME TypeOK, NEW c \in Creators, LetGo(c),
           pc' = [pc EXCEPT ![c] = "idle"], want' = [want EXCEPT ![c] = 0],
           name' \in {name, NoSegment}, UNCHANGED readIndex,
           faults' \in 0 .. MaxFaults,
           NEW dead \in [Segments -> BOOLEAN], Reap(seg, dead)
    PROVE  TypeOK'
  <1>1. seg' \in [Segments -> Contents] /\ killed' \in [Segments -> BOOLEAN]
    BY ReapType DEF TypeOK
  <1> QED
    BY <1>1 DEF LetGo, TypeOK, Mapped, Opened, Owning

\* A step of a creator preserves the types.
LEMMA CreatorType ==
    ASSUME TypeOK, NEW c \in Creators, CreatorStep(c) \/ CreatorFault(c)
    PROVE  TypeOK'
  <1> USE DEF Mapped, Opened, Owning
  <1>1. CASE OpenExisting(c)
    BY <1>1 DEF OpenExisting, TypeOK
  <1>2. CASE MapExisting(c)
    <2>1. at[c] \in Segments /\ seg[at[c]].size \in Nat \ {0}
      BY <1>2 DEF MapExisting, Mappable, TypeOK, Contents
    <2> QED
      BY <1>2, <2>1 DEF MapExisting, TypeOK
  <1>3. CASE OpenRefused(c)
    <2>1. seg' \in [Segments -> Contents] /\ killed' \in [Segments -> BOOLEAN]
      BY <1>3, ReapType DEF OpenRefused, TypeOK
    <2> QED
      BY <1>3, <2>1 DEF OpenRefused, LetGo, TypeOK
  <1>4. CASE SeeHeader(c)
    BY <1>4 DEF SeeHeader, TypeOK
  <1>5. CASE HeaderMissing(c)
    BY <1>5, CreatorEndType DEF HeaderMissing, TypeOK
  <1>6. CASE OpenOrCreate(c)
    BY <1>6 DEF OpenOrCreate, TypeOK
  <1>7. CASE MakeSegment(c)
    <2>1. name' \in Segments
      BY <1>7 DEF MakeSegment, Fresh, TypeOK
    <2> QED
      BY <1>7, <2>1 DEF MakeSegment, TypeOK
  <1>8. CASE GrowSegment(c)
    <2>1. want[c] \in Nat \ {0}
      BY <1>8 DEF GrowSegment, TypeOK
    <2>2. seg' \in [Segments -> Contents]
      BY <1>8, <2>1 DEF GrowSegment, TypeOK, Contents
    <2> QED
      BY <1>8, <2>1, <2>2 DEF GrowSegment, TypeOK
  <1>9. CASE MapForCreate(c)
    <2>1. at[c] \in Segments /\ seg[at[c]].size \in Nat \ {0}
      BY <1>9 DEF MapForCreate, TypeOK, Contents
    <2> QED
      BY <1>9, <2>1 DEF MapForCreate, TypeOK
  <1>10. CASE CreateRefused(c)
    BY <1>10, CreatorEndType DEF CreateRefused, TypeOK
  <1>11. CASE CheckControl(c)
    <2>1. CASE IsValid(c)
      BY <1>11, <2>1 DEF CheckControl, TypeOK
    <2>2. CASE ~IsValid(c)
      BY <1>11, <2>2, CreatorEndType DEF CheckControl, TypeOK
    <2> QED
      BY <2>1, <2>2
  <1>12. CASE PublishVersion(c)
    <2>0. seg \in [Segments -> Contents]
      BY DEF TypeOK
    <2>1. [seg EXCEPT ![at[c]].version = TRUE] \in [Segments -> Contents]
      BY <2>0 DEF Contents
    <2>2. seg' \in [Segments -> Contents]
      BY <1>12, <2>1 DEF PublishVersion
    <2> QED
      BY <1>12, <2>2 DEF PublishVersion, TypeOK
  <1>13. CASE DestroyUnlink(c)
    BY <1>13, CreatorEndType DEF DestroyUnlink, TypeOK
  <1>14. CASE GrowFails(c)
    <2>1. faults' \in 0 .. MaxFaults
      BY <1>14 DEF GrowFails, TypeOK
    <2>2. killed \in [Segments -> BOOLEAN]
      BY DEF TypeOK
    <2> QED
      BY <1>14, <2>1, <2>2, CreatorEndType DEF GrowFails
  <1>15. CASE ShutDown(c)
    BY <1>15 DEF ShutDown, TypeOK
  <1>16. CASE Kill(c)
    <2>1. [s \in Segments |-> killed[s] \/ (at[c] = s /\ pc[c] \in Owning)]
            \in [Segments -> BOOLEAN]
      BY DEF TypeOK
    <2>2. faults' \in 0 .. MaxFaults
      BY <1>16 DEF Kill, TypeOK
    <2> QED
      BY <1>16, <2>1, <2>2, CreatorEndType DEF Kill
  <1> QED
    BY <1>1, <1>2, <1>3, <1>4, <1>5, <1>6, <1>7, <1>8, <1>9, <1>10, <1>11,
       <1>12, <1>13, <1>14, <1>15, <1>16, CreatorStoreType
       DEF CreatorStep, CreatorFault

\* A step of a reader or a remover preserves the types.
LEMMA ClientType ==
    ASSUME TypeOK, NEW r \in Clients, ClientStep(r)
    PROVE  TypeOK'
  <1> USE DEF Mapped, Opened, Owning
  <1>0. Failed(r) \in {"idle", "rmopen"}
    BY DEF Failed
  <1>1. CASE Open(r)
    BY <1>1 DEF Open, Failed, TypeOK
  <1>2. CASE Map(r)
    <2>1. at[r] \in Segments /\ seg[at[r]].size \in Nat \ {0}
      BY <1>2 DEF Map, Mappable, TypeOK, Contents
    <2> QED
      BY <1>2, <2>1 DEF Map, TypeOK
  <1>3. CASE SeeVersion(r)
    <2>1. at[r] \in Segments /\ seg[at[r]].written \in Nat
      BY <1>3 DEF SeeVersion, TypeOK, Contents
    <2>2. seg[at[r]].written % MaxItemIndex \in 0 .. MaxItemIndex - 1
      BY <2>1
    <2> QED
      BY <1>3, <2>2 DEF SeeVersion, TypeOK
  <1>4. CASE SeeInit(r)
    <2>1. PICK to \in {"flag", "poll"} : Store(r, "status", to, seg)
      BY <1>4 DEF SeeInit
    <2> QED
      BY <2>1, StoreType DEF TypeOK
  <1>5. CASE OpenFails(r)
    BY <1>0, <1>5, CloseType DEF OpenFails
  <1>6. CASE PollData(r)
    <2>1. (readIndex[r] + 1) % MaxItemIndex \in 0 .. MaxItemIndex - 1
      BY DEF TypeOK
    <2> QED
      BY <1>6, <2>1 DEF PollData, TypeOK
  <1>7. CASE PollStale(r) \/ PollEmpty(r) \/ PollNamed(r) \/ PollAgain(r)
    BY <1>7, StoreType DEF PollStale, PollEmpty, PollNamed, PollAgain, TypeOK
  <1>8. CASE \/ PollInvalid(r) \/ PollRemoved(r) \/ PollLeaves(r)
             \/ RemoveRefused(r)
    BY <1>8, CloseType DEF PollInvalid, PollRemoved, PollLeaves, RemoveRefused
  <1>9. CASE RemoveFlag(r)
    <2>1. at[r] \in Segments
      BY <1>9 DEF RemoveFlag, TypeOK
    <2>2. seg' \in [Segments -> Contents] /\ killed' \in [Segments -> BOOLEAN]
      BY <1>9, <2>1, ContentsOps, ReapType DEF RemoveFlag, TypeOK
    <2> QED
      BY <1>9, <2>2 DEF RemoveFlag, LetGo, TypeOK
  <1>10. CASE RemoveOpen(r)
    BY <1>10 DEF RemoveOpen, TypeOK
  <1>11. CASE RemoveName(r)
    <2>1. seg' \in [Segments -> Contents] /\ killed' \in [Segments -> BOOLEAN]
      BY <1>11, ReapType DEF RemoveName, TypeOK
    <2> QED
      BY <1>11, <2>1 DEF RemoveName, LetGo, TypeOK
  <1> QED
    BY <1>1, <1>2, <1>3, <1>4, <1>5, <1>6, <1>7, <1>8, <1>9, <1>10, <1>11
       DEF ClientStep

LEMMA TypeNext == TypeOK /\ [Next]_vars => TypeOK'
  <1> SUFFICES ASSUME TypeOK, [Next]_vars PROVE TypeOK'
    OBVIOUS
  <1>1. CASE UNCHANGED vars
    BY <1>1 DEF TypeOK, vars
  <1>2. CASE Next
    BY <1>2, CreatorType, ClientType DEF Next
  <1> QED
    BY <1>1, <1>2

\* Every variable keeps its type, a process has a segment open and mapped in
\* exactly the states of the code that hold _shmId and _bytes, and only a
\* creator at work asks for a size.
THEOREM ViLifecycleTypes == Spec => []TypeOK
  <1>1. Init => TypeOK
    BY DEF Init, TypeOK, Contents, Blank, Opened, Mapped, Owning
  <1> QED
    BY <1>1, TypeNext, PTL DEF Spec

-----------------------------------------------------------------------------
(* No reader is stranded.  As for fixed items the name plays no part: who  *)
(* makes a header say "open" owns the segment, and lets go of it only      *)
(* after making it say "closed", or when killed.  The control block, which *)
(* two creators may initialise together, plays no part either.             *)

\* An open header has an owner, or its last owner was killed.
Accounted ==
    \A s \in Segments :
      seg[s].version /\ ~seg[s].closed => Held(s) \/ killed[s]

\* A step that opens no header, drops no owner and only frees segments.
LEMMA ReapAccounted ==
    ASSUME NEW header \in [Segments -> Contents],
           NEW dead \in [Segments -> BOOLEAN], Reap(header, dead),
           \A s \in Segments : header[s].version /\ ~header[s].closed
                               => Held(s)' \/ dead[s]
    PROVE  Accounted'
  <1> SUFFICES ASSUME NEW s \in Segments, seg'[s].version, ~seg'[s].closed
               PROVE  Held(s)' \/ killed'[s]
    BY DEF Accounted
  <1>1. ~Unreferenced(s)' /\ seg'[s] = header[s]
    BY DEF Reap, Blank
  <1>2. killed'[s] = dead[s]
    BY <1>1 DEF Reap
  <1> QED
    BY <1>1, <1>2

\* A creator that was not an owner ends.
LEMMA EndAccounted ==
    ASSUME TypeOK, Accounted, NEW c \in Creators, pc[c] \notin Owning,
           pc' = [pc EXCEPT ![c] = "idle"], LetGo(c), Reap(seg, killed)
    PROVE  Accounted'
  <1>1. \A s \in Segments : Held(s) => Held(s)'
    BY DEF Held, LetGo, TypeOK
  <1> QED
    BY <1>1, ReapAccounted DEF TypeOK, Accounted

\* The creator's stores keep Accounted: those that open a header are an
\* owner's, those that end the ownership close it.
LEMMA CreatorStoreAccounted ==
    ASSUME TypeOK, Accounted, NEW c \in Creators,
           \/ ZeroControl(c) \/ FillControl(c) \/ InvalidateHeader(c)
           \/ PublishVersion(c)
           \/ Suits(c) \/ RefuseExisting(c) \/ ClearCloseFlag(c)
           \/ FinishInit(c) \/ Send(c) \/ SendableFails(c) \/ DestroyFlag(c)
    PROVE  Accounted'
  <1> USE DEF Store, Owning
  <1>0. seg \in [Segments -> Contents] /\ killed \in [Segments -> BOOLEAN]
    BY DEF TypeOK
  <1>1. CASE ZeroControl(c) \/ FillControl(c) \/ InvalidateHeader(c)
    <2>1. \A s \in Segments : Held(s) => Held(s)'
      BY <1>1 DEF ZeroControl, FillControl, InvalidateHeader, Held, TypeOK
    <2>2. \A s \in Segments : /\ seg'[s].version => seg[s].version
                              /\ seg'[s].closed = seg[s].closed
      BY <1>0, <1>1 DEF ZeroControl, FillControl, InvalidateHeader, Contents
    <2>3. killed' = killed
      BY <1>1 DEF ZeroControl, FillControl, InvalidateHeader
    <2> QED
      BY <2>1, <2>2, <2>3 DEF Accounted
  <1>2. CASE PublishVersion(c) \/ ClearCloseFlag(c) \/ FinishInit(c)
    <2>1. \A s \in Segments : Held(s) \/ s = at[c] => Held(s)'
      BY <1>2 DEF PublishVersion, ClearCloseFlag, FinishInit, Held, TypeOK
    <2>2. \A s \in Segments :
            s # at[c] => seg'[s] = seg[s] /\ killed'[s] = killed[s]
      BY <1>0, <1>2 DEF PublishVersion, ClearCloseFlag, FinishInit
    <2> QED
      BY <2>1, <2>2 DEF Accounted
  <1>3. CASE Suits(c) \/ SendableFails(c) \/ Send(c)
    <2>1. \A s \in Segments : Held(s) => Held(s)'
      BY <1>3 DEF Suits, SendableFails, Send, Held, TypeOK
    <2>2. \A s \in Segments : /\ seg'[s].version = seg[s].version
                              /\ seg'[s].closed = seg[s].closed
      BY <1>0, <1>3 DEF Suits, SendableFails, Send, Contents
    <2>3. killed' = killed
      BY <1>3 DEF Suits, SendableFails, Send
    <2> QED
      BY <2>1, <2>2, <2>3 DEF Accounted
  <1>4. CASE RefuseExisting(c) \/ DestroyFlag(c)
    <2>1. \A s \in Segments : Held(s) /\ s # at[c] => Held(s)'
      BY <1>4 DEF RefuseExisting, DestroyFlag, Held, TypeOK
    <2>2. seg' = SetCloseFlag(at[c]) /\ killed' = killed
      BY <1>4 DEF RefuseExisting, DestroyFlag
    <2>3. \A s \in Segments :
            /\ seg'[s].version = seg[s].version
            /\ s # at[c] => seg'[s].closed = seg[s].closed
            /\ s = at[c] /\ seg[s].version => seg'[s].closed
      BY <1>0, <2>2 DEF SetCloseFlag, Contents
    <2> QED
      BY <2>1, <2>2, <2>3 DEF Accounted
  <1> QED
    BY <1>1, <1>2, <1>3, <1>4

\* A step of a creator keeps Accounted.
LEMMA CreatorAccounted ==
    ASSUME TypeOK, Accounted, NEW c \in Creators,
           CreatorStep(c) \/ CreatorFault(c)
    PROVE  Accounted'
  <1>0. seg \in [Segments -> Contents] /\ killed \in [Segments -> BOOLEAN]
    BY DEF TypeOK
  <1>1. CASE \/ OpenExisting(c) \/ MapExisting(c) \/ OpenOrCreate(c)
             \/ MakeSegment(c) \/ MapForCreate(c)
    <2>1. \A s \in Segments : Held(s) => Held(s)'
      BY <1>1 DEF OpenExisting, MapExisting, OpenOrCreate, MakeSegment,
                  MapForCreate, Held, Owning, TypeOK
    <2>2. seg' = seg /\ killed' = killed
      BY <1>1 DEF OpenExisting, MapExisting, OpenOrCreate, MakeSegment,
                  MapForCreate
    <2> QED
      BY <2>1, <2>2 DEF Accounted
  <1>2. CASE OpenRefused(c)
    <2>1. \A s \in Segments : Held(s) => Held(s)'
      BY <1>2 DEF OpenRefused, LetGo, Held, Owning, TypeOK
    <2> QED
      BY <1>0, <1>2, <2>1, ReapAccounted DEF OpenRefused, Accounted
  <1>3. CASE SeeHeader(c)
    <2>1. \A s \in Segments : Held(s) \/ s = at[c] => Held(s)'
      BY <1>3 DEF SeeHeader, Held, Owning, TypeOK
    <2>2. \A s \in Segments : s # at[c] => killed'[s] = killed[s]
      BY <1>0, <1>3 DEF SeeHeader
    <2> QED
      BY <1>3, <2>1, <2>2 DEF SeeHeader, Accounted
  <1>4. CASE GrowSegment(c)
    <2>1. \A s \in Segments : Held(s) => Held(s)'
      BY <1>4 DEF GrowSegment, Held, Owning, TypeOK
    <2>2. \A s \in Segments : /\ seg'[s].version = seg[s].version
                              /\ seg'[s].closed = seg[s].closed
      BY <1>0, <1>4 DEF GrowSegment, Contents
    <2> QED
      BY <1>4, <2>1, <2>2 DEF GrowSegment, Accounted
  <1>5. CASE \/ HeaderMissing(c) \/ CreateRefused(c) \/ DestroyUnlink(c)
             \/ GrowFails(c)
    BY <1>5, EndAccounted DEF HeaderMissing, CreateRefused, DestroyUnlink,
                              GrowFails, Owning
  <1>6. CASE CheckControl(c)
    <2>1. CASE IsValid(c)
      BY <1>6, <2>1 DEF CheckControl, Accounted, Held, Owning, TypeOK
    <2>2. CASE ~IsValid(c)
      BY <1>6, <2>2, EndAccounted DEF CheckControl, Owning
    <2> QED
      BY <2>1, <2>2
  <1>7. CASE ShutDown(c)
    <2>1. \A s \in Segments : Held(s) => Held(s)'
      BY <1>7 DEF ShutDown, Held, Owning, TypeOK
    <2> QED
      BY <1>7, <2>1 DEF ShutDown, Accounted
  <1>8. CASE Kill(c)
    <2> DEFINE dead == [s \in Segments |->
                         killed[s] \/ (at[c] = s /\ pc[c] \in Owning)]
    <2>1. \A s \in Segments :
            Held(s) /\ ~ (at[c] = s /\ pc[c] \in Owning) => Held(s)'
      BY <1>8 DEF Kill, LetGo, Held, TypeOK
    <2>2. \A s \in Segments : seg[s].version /\ ~seg[s].closed
                               => Held(s)' \/ dead[s]
      BY <2>1 DEF Accounted
    <2>3. dead \in [Segments -> BOOLEAN] /\ Reap(seg, dead)
      BY <1>0, <1>8 DEF Kill
    <2> QED
      BY <1>0, <2>2, <2>3, ReapAccounted
  <1> QED
    BY <1>1, <1>2, <1>3, <1>4, <1>5, <1>6, <1>7, <1>8, CreatorStoreAccounted
       DEF CreatorStep, CreatorFault

\* A step of a reader or a remover owns nothing and only ever sets flags.
LEMMA ClientAccounted ==
    ASSUME TypeOK, Accounted, NEW r \in Clients, ClientStep(r)
    PROVE  Accounted'
  <1>0. seg \in [Segments -> Contents] /\ killed \in [Segments -> BOOLEAN]
    BY DEF TypeOK
  <1>1. \A c \in Creators : pc'[c] = pc[c] /\ at'[c] = at[c]
    BY DEF ClientStep, Open, Map, SeeVersion, SeeInit, OpenFails, PollInvalid,
           PollData, PollStale, PollEmpty, PollRemoved, PollNamed, PollLeaves,
           PollAgain, RemoveFlag, RemoveOpen, RemoveRefused, RemoveName,
           Close, LetGo, Store, TypeOK
  <1>2. \A s \in Segments : Held(s)' <=> Held(s)
    BY <1>1 DEF Held
  <1>3. CASE \/ Open(r) \/ Map(r) \/ SeeVersion(r) \/ SeeInit(r)
             \/ PollData(r) \/ PollStale(r) \/ PollEmpty(r) \/ PollNamed(r)
             \/ PollAgain(r) \/ RemoveOpen(r)
    <2>1. seg' = seg /\ killed' = killed
      BY <1>3 DEF Open, Map, SeeVersion, SeeInit, PollData, PollStale,
                  PollEmpty, PollNamed, PollAgain, RemoveOpen, Store
    <2> QED
      BY <1>2, <2>1 DEF Accounted
  <1>4. CASE \/ OpenFails(r) \/ PollInvalid(r) \/ PollRemoved(r)
             \/ PollLeaves(r) \/ RemoveRefused(r) \/ RemoveName(r)
    <2>1. Reap(seg, killed)
      BY <1>4 DEF OpenFails, PollInvalid, PollRemoved, PollLeaves,
                  RemoveRefused, RemoveName, Close
    <2> QED
      BY <1>0, <1>2, <2>1, ReapAccounted DEF Accounted
  <1>5. CASE RemoveFlag(r)
    <2>1. at[r] \in Segments
      BY <1>5 DEF RemoveFlag, TypeOK, Mapped
    <2>2. SetCloseFlag(at[r]) \in [Segments -> Contents]
      BY <2>1, ContentsOps
    <2>3. \A s \in Segments :
            SetCloseFlag(at[r])[s].version /\ ~SetCloseFlag(at[r])[s].closed
              => Held(s)' \/ killed[s]
      BY <1>0, <1>2, <2>1 DEF SetCloseFlag, Contents, Accounted
    <2> QED
      BY <1>0, <1>5, <2>2, <2>3, ReapAccounted DEF RemoveFlag
  <1> QED
    BY <1>3, <1>4, <1>5 DEF ClientStep

\* However many creators, readers and removers overlap: a reader whose memory
\* has lost its name is told, or will be by the owner that still has it,
\* unless the last owner of that memory was killed.
THEOREM ViNobodyIsStranded == Spec => []NotStranded
  <1>1. Init => Accounted
    BY DEF Init, Accounted, Blank
  <1>2. TypeOK /\ Accounted /\ [Next]_vars => Accounted'
    <2> SUFFICES ASSUME TypeOK, Accounted, [Next]_vars PROVE Accounted'
      OBVIOUS
    <2>1. CASE UNCHANGED vars
      BY <2>1 DEF Accounted, Held, vars
    <2>2. CASE Next
      BY <2>2, CreatorAccounted, ClientAccounted DEF Next
    <2> QED
      BY <2>1, <2>2
  <1>3. TypeOK /\ Accounted => NotStranded
    <2> SUFFICES ASSUME TypeOK, Accounted, NEW r \in Readers, Reading(r),
                        ~CheckCloseFlag(at[r])
                 PROVE  Held(at[r]) \/ killed[at[r]]
      BY DEF NotStranded
    <2>1. at[r] \in Segments
      BY DEF Reading, TypeOK, Mapped
    <2> QED
      BY <2>1 DEF Accounted, CheckCloseFlag, TypeOK, Contents
  <1> QED
    BY <1>1, <1>2, <1>3, ViLifecycleTypes, PTL DEF Spec

-----------------------------------------------------------------------------
(* One creator alone never initialises what a reader relies on.  A memory  *)
(* it finds under the name it either attaches to, or destroys when its     *)
(* control block is not valid; only a file that it has made itself goes on *)
(* to InitializeZero and InitCreateShm, and nobody else gives it a name.   *)

OnlyLoner == \A c \in Creators \ {Loner} : pc[c] = "idle"

\* What nobody refers to, the kernel has freed.
FreeIsBlank == \A s \in Segments : Unreferenced(s) => seg[s] = Blank

\* No reader got further than waiting for the version of this segment.
Untouched(s) ==
    /\ ~seg[s].version
    /\ \A r \in Clients : at[r] = s => pc[r] \in {"map", "wait", "rmmap", "unlink"}

MakesNew ==
    \A c \in Creators :
      /\ pc[c] = "map" => name \in {at[c], NoSegment}
      /\ pc[c] = "make" => name = NoSegment \/ ~Mappable(name)
      /\ pc[c] = "create" => name = NoSegment
      /\ pc[c] = "exist" => ~Mappable(at[c])
      /\ pc[c] = "check" => Untouched(at[c]) \/ ~IsValid(c)
      /\ pc[c] \in {"grow", "zero", "fill", "header", "version"} => Untouched(at[c])

AloneInv ==
    /\ TypeOK
    /\ FreeIsBlank
    /\ ~crowd => OnlyLoner /\ MakesNew

\* Whatever loses its last reference in a step is freed by that step.
LEMMA FreeNext == TypeOK /\ FreeIsBlank /\ [Next]_vars => FreeIsBlank'
  <1> SUFFICES ASSUME TypeOK, FreeIsBlank, [Next]_vars,
                      NEW s \in Segments, Unreferenced(s)'
               PROVE  seg'[s] = Blank
    BY DEF FreeIsBlank
  <1>1. ASSUME NEW header, NEW dead, Reap(header, dead) PROVE seg'[s] = Blank
    BY <1>1 DEF Reap
  <1>2. ASSUME Unreferenced(s), seg'[s] = seg[s] PROVE seg'[s] = Blank
    BY <1>2 DEF FreeIsBlank
  <1>3. CASE UNCHANGED vars
    BY <1>2, <1>3 DEF vars, Unreferenced
  <1>4. ASSUME NEW p \in Processes, at[p] = NoSegment, name \in {name', NoSegment}, seg' = seg,
               \A q \in Processes : q # p => at'[q] = at[q]
        PROVE  seg'[s] = Blank
    BY <1>2, <1>4 DEF Unreferenced
  <1>5. ASSUME NEW c \in Creators, CreatorStep(c) \/ CreatorFault(c)
        PROVE  seg'[s] = Blank
    <2>1. CASE \/ OpenRefused(c) \/ HeaderMissing(c) \/ CreateRefused(c) \/ DestroyUnlink(c)
               \/ GrowFails(c) \/ Kill(c)
      BY <1>1, <2>1 DEF OpenRefused, HeaderMissing, CreateRefused, DestroyUnlink, GrowFails, Kill
    <2>2. CASE OpenExisting(c) \/ OpenOrCreate(c)
      <3>1. at[c] = NoSegment
        BY <2>2 DEF OpenExisting, OpenOrCreate, TypeOK, Opened, Mapped, Owning
      <3> QED BY <1>4, <2>2, <3>1 DEF OpenExisting, OpenOrCreate, TypeOK
    <2>3. CASE MakeSegment(c)
      <3>1. at[c] = NoSegment
        BY <2>3 DEF MakeSegment, TypeOK, Opened, Mapped, Owning
      <3>2. at' = [at EXCEPT ![c] = name'] /\ seg' = seg /\ name \in {name', NoSegment}
        BY <2>3 DEF MakeSegment
      <3> QED BY <1>4, <3>1, <3>2 DEF TypeOK
    <2>4. CASE MapExisting(c) \/ SeeHeader(c) \/ MapForCreate(c) \/ ShutDown(c)
      BY <1>2, <2>4 DEF MapExisting, SeeHeader, MapForCreate, ShutDown, Unreferenced
    <2>5. CASE CheckControl(c)
      <3>1. CASE IsValid(c)
        BY <1>2, <2>5, <3>1 DEF CheckControl, Unreferenced
      <3>2. CASE ~IsValid(c)
        BY <1>1, <2>5, <3>2 DEF CheckControl
      <3> QED BY <3>1, <3>2
    <2>6. CASE \/ GrowSegment(c) \/ ZeroControl(c) \/ FillControl(c) \/ InvalidateHeader(c)
               \/ PublishVersion(c) \/ Suits(c) \/ RefuseExisting(c) \/ ClearCloseFlag(c)
               \/ FinishInit(c) \/ Send(c) \/ SendableFails(c) \/ DestroyFlag(c)
      <3>1. UNCHANGED <<name, at>>
        BY <2>6 DEF GrowSegment, ZeroControl, FillControl, InvalidateHeader, PublishVersion,
                    Suits, RefuseExisting, ClearCloseFlag, FinishInit, Send, SendableFails,
                    DestroyFlag, Store
      <3>2. Unreferenced(s) /\ s # at[c]
        BY <3>1 DEF Unreferenced
      <3>3. seg'[s] = seg[s]
        BY <2>6, <3>2 DEF GrowSegment, ZeroControl, FillControl, InvalidateHeader,
                          PublishVersion, Suits, RefuseExisting, ClearCloseFlag, FinishInit,
                          Send, SendableFails, DestroyFlag, Store, SetCloseFlag, TypeOK
      <3> QED BY <1>2, <3>2, <3>3
    <2> QED
      BY <1>5, <2>1, <2>2, <2>3, <2>4, <2>5, <2>6 DEF CreatorStep, CreatorFault
  <1>6. ASSUME NEW r \in Clients, ClientStep(r)
        PROVE  seg'[s] = Blank
    <2>1. CASE \/ OpenFails(r) \/ PollInvalid(r) \/ PollRemoved(r) \/ PollLeaves(r)
               \/ RemoveFlag(r) \/ RemoveRefused(r) \/ RemoveName(r)
      BY <1>1, <2>1 DEF OpenFails, PollInvalid, PollRemoved, PollLeaves, RemoveFlag,
                        RemoveRefused, RemoveName, Close
    <2>2. CASE Open(r) \/ RemoveOpen(r)
      <3>1. at[r] = NoSegment
        BY <2>2 DEF Open, RemoveOpen, TypeOK, Opened, Mapped, Owning
      <3> QED BY <1>4, <2>2, <3>1 DEF Open, RemoveOpen, TypeOK
    <2>3. CASE \/ Map(r) \/ SeeVersion(r) \/ SeeInit(r) \/ PollData(r) \/ PollStale(r)
               \/ PollEmpty(r) \/ PollNamed(r) \/ PollAgain(r)
      BY <1>2, <2>3 DEF Map, SeeVersion, SeeInit, PollData, PollStale, PollEmpty, PollNamed,
                        PollAgain, Store, Unreferenced
    <2> QED
      BY <1>6, <2>1, <2>2, <2>3 DEF ClientStep
  <1> QED
    BY <1>3, <1>5, <1>6 DEF Next

\* The only creator that takes steps alone is the loner.
LEMMA LonerSteps ==
    ASSUME TypeOK, OnlyLoner, OnlyLoner', NEW c \in Creators,
           CreatorStep(c) \/ CreatorFault(c)
    PROVE  c = Loner
  BY DEF OnlyLoner, TypeOK, CreatorStep, CreatorFault, OpenExisting, MapExisting, OpenRefused,
         SeeHeader, HeaderMissing, OpenOrCreate, MakeSegment, GrowSegment, ZeroControl,
         FillControl, MapForCreate, CreateRefused, CheckControl, InvalidateHeader,
         PublishVersion, Suits, RefuseExisting, ClearCloseFlag, FinishInit, Send,
         SendableFails, DestroyFlag, DestroyUnlink, GrowFails, ShutDown, Kill, Store

\* What the loner's step leaves alone of the clients.
LEMMA CreatorLeavesClients ==
    ASSUME TypeOK, NEW c \in Creators, CreatorStep(c) \/ CreatorFault(c),
           NEW r \in Clients
    PROVE  pc'[r] = pc[r] /\ at'[r] = at[r]
  <1>1. r # c /\ r \in Processes
    OBVIOUS
  <1> QED
    BY <1>1 DEF TypeOK, CreatorStep, CreatorFault, OpenExisting, MapExisting, OpenRefused,
         SeeHeader, HeaderMissing, OpenOrCreate, MakeSegment, GrowSegment, ZeroControl,
         FillControl, MapForCreate, CreateRefused, CheckControl, InvalidateHeader,
         PublishVersion, Suits, RefuseExisting, ClearCloseFlag, FinishInit, Send,
         SendableFails, DestroyFlag, DestroyUnlink, GrowFails, ShutDown, Kill, Store, LetGo

\* The loner initialises what it has made: what it finds it attaches to, or
\* finds invalid again.
LEMMA LonerMakesNew ==
    ASSUME TypeOK, FreeIsBlank, OnlyLoner, MakesNew, OnlyLoner',
           NEW c \in Creators, CreatorStep(c) \/ CreatorFault(c)
    PROVE  MakesNew'
  <1>1. c = Loner
    BY LonerSteps
  <1>2. \A r \in Clients : pc'[r] = pc[r] /\ at'[r] = at[r]
    BY CreatorLeavesClients
  <1>3. ASSUME ~ seg'[at'[c]].version,
               \A r \in Clients : at[r] = at'[c] => pc[r] \in {"map", "wait", "rmmap", "unlink"}
        PROVE  Untouched(at[c])'
    BY <1>2, <1>3 DEF Untouched
  <1> SUFFICES
      /\ pc'[c] = "map" => name' \in {at'[c], NoSegment}
      /\ pc'[c] = "make" => name' = NoSegment \/ ~Mappable(name)'
      /\ pc'[c] = "create" => name' = NoSegment
      /\ pc'[c] = "exist" => ~Mappable(at[c])'
      /\ pc'[c] = "check" => Untouched(at[c])' \/ ~IsValid(c)'
      /\ pc'[c] \in {"grow", "zero", "fill", "header", "version"} => Untouched(at[c])'
    BY <1>1 DEF MakesNew, OnlyLoner
  <1>4. CASE OpenExisting(c)
    BY <1>4 DEF OpenExisting, TypeOK
  <1>5. CASE OpenRefused(c)
    <2>1. pc'[c] = "make" /\ name' = name /\ Reap(seg, killed) /\ name \in {at[c], NoSegment}
      BY <1>5 DEF OpenRefused, TypeOK, MakesNew
    <2>2. CASE name = NoSegment
      BY <2>1, <2>2
    <2>3. CASE name = at[c] /\ name \in Segments
      <3>1. seg'[name] = seg[name]
        BY <2>1, <2>3 DEF Reap, Unreferenced
      <3>2. ~Mappable(name)
        BY <1>5, <2>3 DEF OpenRefused
      <3> QED BY <2>1, <3>1, <3>2 DEF Mappable
    <2> QED BY <2>1, <2>2, <2>3 DEF TypeOK
  <1>6. CASE OpenOrCreate(c)
    BY <1>6 DEF OpenOrCreate, TypeOK, MakesNew, Mappable
  <1>7. CASE MakeSegment(c)
    <2>1. name = NoSegment /\ \E s \in Segments : Unreferenced(s)
      BY <1>7 DEF MakeSegment, MakesNew
    <2>2. Fresh \in Segments /\ Unreferenced(Fresh)
      BY <2>1 DEF Fresh
    <2>3. pc'[c] = "grow" /\ at'[c] = Fresh /\ seg' = seg
      BY <1>7, <2>1 DEF MakeSegment, TypeOK
    <2>4. seg[Fresh] = Blank /\ \A r \in Clients : at[r] # Fresh
      BY <2>2 DEF FreeIsBlank, Unreferenced
    <2> QED BY <1>3, <2>3, <2>4 DEF Blank
  <1>8. CASE GrowSegment(c) \/ ZeroControl(c) \/ FillControl(c) \/ InvalidateHeader(c)
    <2>1. /\ pc[c] \in {"grow", "zero", "fill", "header"}
          /\ pc'[c] \in {"zero", "fill", "check", "version"}
          /\ at' = at /\ at[c] \in Segments
      BY <1>8 DEF GrowSegment, ZeroControl, FillControl, InvalidateHeader, Store, TypeOK,
                  Opened, Mapped, Owning
    <2>2. Untouched(at[c])
      BY <2>1 DEF MakesNew
    <2>3. ~seg'[at[c]].version
      BY <1>8, <2>1, <2>2 DEF GrowSegment, ZeroControl, FillControl, InvalidateHeader, Store,
                              Untouched, TypeOK, Contents
    <2>4. Untouched(at[c])'
      BY <1>3, <2>1, <2>2, <2>3 DEF Untouched
    <2> QED BY <2>1, <2>4
  <1>9. CASE MapForCreate(c)
    <2>1. pc'[c] = "check" /\ at' = at /\ seg' = seg /\ span'[c] = seg[at[c]].size
      BY <1>9 DEF MapForCreate, TypeOK
    <2>2. ~Mappable(at[c]) /\ seg[at[c]].size > 0
      BY <1>9 DEF MapForCreate, MakesNew
    <2> QED BY <2>1, <2>2 DEF Mappable, IsValid
  <1>10. CASE CheckControl(c)
    <2>1. CASE IsValid(c)
      <3>1. pc'[c] = "header" /\ at' = at /\ seg' = seg
        BY <1>10, <2>1 DEF CheckControl, TypeOK
      <3>2. Untouched(at[c])
        BY <1>10, <2>1 DEF CheckControl, MakesNew
      <3> QED BY <1>3, <3>1, <3>2 DEF Untouched
    <2>2. CASE ~IsValid(c)
      <3>1. pc'[c] = "idle"
        BY <1>10, <2>2 DEF CheckControl, TypeOK
      <3> QED BY <3>1
    <2> QED BY <2>1, <2>2
  <1>11. CASE ~ (\/ OpenExisting(c) \/ OpenRefused(c) \/ OpenOrCreate(c) \/ MakeSegment(c)
                 \/ GrowSegment(c) \/ ZeroControl(c) \/ FillControl(c) \/ InvalidateHeader(c)
                 \/ MapForCreate(c) \/ CheckControl(c))
    <2>1. pc'[c] \notin {"map", "make", "create", "exist", "check", "grow", "zero", "fill",
                        "header", "version"}
      BY <1>11 DEF CreatorStep, CreatorFault, MapExisting, SeeHeader, HeaderMissing,
                   CreateRefused, PublishVersion, Suits, RefuseExisting, ClearCloseFlag,
                   FinishInit, Send, SendableFails, DestroyFlag, DestroyUnlink, GrowFails,
                   ShutDown, Kill, Store, TypeOK
    <2> QED BY <2>1
  <1> QED BY <1>4, <1>5, <1>6, <1>7, <1>8, <1>9, <1>10, <1>11

\* A client neither gives a file the name nor changes anything but the close
\* flag of one that is referred to.
LEMMA ClientLeaves ==
    ASSUME TypeOK, NEW r \in Clients, ClientStep(r)
    PROVE  /\ \A c \in Creators : pc'[c] = pc[c] /\ at'[c] = at[c] /\ span'[c] = span[c]
           /\ name' \in {name, NoSegment}
           /\ \A s \in Segments : ~Unreferenced(s)' =>
                /\ seg'[s].size = seg[s].size /\ seg'[s].magic = seg[s].magic
                /\ seg'[s].count = seg[s].count /\ seg'[s].version = seg[s].version
  <1>1. \A c \in Creators : pc'[c] = pc[c] /\ at'[c] = at[c] /\ span'[c] = span[c]
    BY DEF ClientStep, Open, Map, SeeVersion, SeeInit, OpenFails, PollInvalid, PollData,
           PollStale, PollEmpty, PollRemoved, PollNamed, PollLeaves, PollAgain, RemoveFlag,
           RemoveOpen, RemoveRefused, RemoveName, Close, LetGo, Store, TypeOK
  <1>2. name' \in {name, NoSegment}
    BY DEF ClientStep, Open, Map, SeeVersion, SeeInit, OpenFails, PollInvalid, PollData,
           PollStale, PollEmpty, PollRemoved, PollNamed, PollLeaves, PollAgain, RemoveFlag,
           RemoveOpen, RemoveRefused, RemoveName, Close, Store
  <1>3. seg' = seg \/ \E dead : Reap(seg, dead) \/ Reap(SetCloseFlag(at[r]), dead)
    BY DEF ClientStep, Open, Map, SeeVersion, SeeInit, OpenFails, PollInvalid, PollData,
           PollStale, PollEmpty, PollRemoved, PollNamed, PollLeaves, PollAgain, RemoveFlag,
           RemoveOpen, RemoveRefused, RemoveName, Close, Store
  <1>4. ASSUME NEW s \in Segments, ~Unreferenced(s)'
        PROVE  /\ seg'[s].size = seg[s].size /\ seg'[s].magic = seg[s].magic
               /\ seg'[s].count = seg[s].count /\ seg'[s].version = seg[s].version
    <2>1. seg'[s] \in {seg[s], SetCloseFlag(at[r])[s]}
      BY <1>3, <1>4 DEF Reap
    <2> QED BY <2>1 DEF SetCloseFlag, TypeOK, Contents
  <1> QED BY <1>1, <1>2, <1>4

LEMMA ClientKeepsNew ==
    ASSUME TypeOK, MakesNew, NEW r \in Clients, ClientStep(r)
    PROVE  MakesNew'
  <1>1. \A c \in Creators : pc'[c] = pc[c] /\ at'[c] = at[c] /\ span'[c] = span[c]
    BY ClientLeaves
  <1>2. name' \in {name, NoSegment}
    BY ClientLeaves
  <1>3. \A s \in Segments : ~Unreferenced(s)' =>
          /\ seg'[s].size = seg[s].size /\ seg'[s].magic = seg[s].magic
          /\ seg'[s].count = seg[s].count /\ seg'[s].version = seg[s].version
    BY ClientLeaves
  <1> SUFFICES ASSUME NEW c \in Creators
      PROVE /\ pc[c] = "map" => name' \in {at[c], NoSegment}
            /\ pc[c] = "make" => name' = NoSegment \/ ~Mappable(name)'
            /\ pc[c] = "create" => name' = NoSegment
            /\ pc[c] = "exist" => ~Mappable(at[c])'
            /\ pc[c] = "check" => Untouched(at[c])' \/ ~IsValid(c)'
            /\ pc[c] \in {"grow", "zero", "fill", "header", "version"} => Untouched(at[c])'
    BY <1>1 DEF MakesNew
  <1>4. pc[c] = "map" => name' \in {at[c], NoSegment}
    BY <1>2 DEF MakesNew
  <1>5. ASSUME pc[c] = "make" PROVE name' = NoSegment \/ ~Mappable(name)'
    <2>1. CASE name' = name /\ name \in Segments
      <3>1. ~Unreferenced(name)'
        BY <2>1 DEF Unreferenced
      <3>2. ~Mappable(name)
        BY <1>5, <2>1 DEF MakesNew
      <3> QED BY <1>3, <2>1, <3>1, <3>2 DEF Mappable
    <2> QED BY <1>2, <2>1 DEF TypeOK
  <1>6. pc[c] = "create" => name' = NoSegment
    BY <1>2 DEF MakesNew
  <1>7. at[c] \in Segments =>
          /\ seg'[at[c]].size = seg[at[c]].size /\ seg'[at[c]].magic = seg[at[c]].magic
          /\ seg'[at[c]].count = seg[at[c]].count
          /\ seg'[at[c]].version = seg[at[c]].version
    BY <1>1, <1>3 DEF Unreferenced
  <1>8. pc[c] \in {"exist", "check", "grow", "zero", "fill", "header", "version"}
          => at[c] \in Segments
    BY DEF TypeOK, Opened, Mapped
  <1>9. pc[c] = "exist" => ~Mappable(at[c])'
    BY <1>1, <1>7, <1>8 DEF Mappable, MakesNew
  <1>10. at[c] \in Segments => (IsValid(c)' <=> IsValid(c))
    BY <1>1, <1>7 DEF IsValid
  <1>11. ASSUME at[c] \in Segments, Untouched(at[c]) PROVE Untouched(at[c])'
    <2>1. ~seg'[at[c]].version
      BY <1>7, <1>11 DEF Untouched
    <2>2. ASSUME NEW x \in Clients, at'[x] = at[c]
          PROVE  pc'[x] \in {"map", "wait", "rmmap", "unlink"}
      <3>1. CASE x # r
        <4>1. pc'[x] = pc[x] /\ at'[x] = at[x]
          BY <3>1 DEF ClientStep, Open, Map, SeeVersion, SeeInit, OpenFails, PollInvalid,
                      PollData, PollStale, PollEmpty, PollRemoved, PollNamed, PollLeaves,
                      PollAgain, RemoveFlag, RemoveOpen, RemoveRefused, RemoveName, Close,
                      LetGo, Store, TypeOK
        <4> QED BY <1>11, <2>2, <4>1 DEF Untouched
      <3>2. CASE x = r
        <4>1. CASE Open(r) \/ RemoveOpen(r)
          BY <1>11, <2>2, <3>2, <4>1 DEF Open, RemoveOpen, TypeOK
        <4>2. CASE \/ OpenFails(r) \/ PollInvalid(r) \/ PollRemoved(r) \/ PollLeaves(r)
                   \/ RemoveFlag(r) \/ RemoveRefused(r) \/ RemoveName(r)
          <5>1. at'[r] = NoSegment
            BY <4>2 DEF OpenFails, PollInvalid, PollRemoved, PollLeaves, RemoveFlag,
                        RemoveRefused, RemoveName, Close, LetGo, TypeOK
          <5> QED BY <1>11, <2>2, <3>2, <5>1
        <4>3. CASE \/ Map(r) \/ SeeVersion(r) \/ SeeInit(r) \/ PollData(r) \/ PollStale(r)
                   \/ PollEmpty(r) \/ PollNamed(r) \/ PollAgain(r)
          <5>1. at' = at
            BY <4>3 DEF Map, SeeVersion, SeeInit, PollData, PollStale, PollEmpty, PollNamed,
                        PollAgain, Store
          <5>2. pc[r] \in {"map", "wait", "rmmap", "unlink"}
            BY <1>11, <2>2, <3>2, <5>1 DEF Untouched
          <5> QED
            BY <1>11, <2>2, <3>2, <4>3, <5>1, <5>2
               DEF Map, SeeVersion, SeeInit, PollData, PollStale, PollEmpty, PollNamed,
                   PollAgain, Store, Untouched, TypeOK
        <4> QED BY <4>1, <4>2, <4>3 DEF ClientStep
      <3> QED BY <3>1, <3>2
    <2> QED BY <1>1, <2>1, <2>2 DEF Untouched
  <1>12. pc[c] = "check" => Untouched(at[c])' \/ ~IsValid(c)'
    BY <1>8, <1>10, <1>11 DEF MakesNew
  <1>13. pc[c] \in {"grow", "zero", "fill", "header", "version"} => Untouched(at[c])'
    BY <1>8, <1>11 DEF MakesNew
  <1> QED BY <1>4, <1>5, <1>6, <1>9, <1>12, <1>13

LEMMA AloneInit == MCInit => AloneInv
  <1>1. Init => TypeOK
    BY DEF Init, TypeOK, Contents, Blank, Opened, Mapped, Owning
  <1>2. Init => FreeIsBlank /\ OnlyLoner /\ MakesNew
    BY DEF Init, FreeIsBlank, OnlyLoner, MakesNew
  <1> QED
    BY <1>1, <1>2 DEF MCInit, AloneInv

LEMMA AloneNext == AloneInv /\ [MCNext]_<<vars, crowd>> => AloneInv'
  <1> SUFFICES ASSUME AloneInv, [MCNext]_<<vars, crowd>> PROVE AloneInv'
    OBVIOUS
  <1>1. [Next]_vars /\ crowd' = crowd
    BY DEF MCNext
  <1>2. TypeOK' /\ FreeIsBlank'
    BY <1>1, TypeNext, FreeNext DEF AloneInv
  <1>3. ASSUME ~crowd PROVE OnlyLoner' /\ MakesNew'
    <2>1. TypeOK /\ FreeIsBlank /\ OnlyLoner /\ MakesNew
      BY <1>3 DEF AloneInv
    <2>2. CASE UNCHANGED vars
      BY <2>1, <2>2 DEF vars, OnlyLoner, MakesNew, Untouched, Mappable, IsValid
    <2>3. CASE MCNext
      <3>1. OnlyLoner'
        BY <1>3, <2>3 DEF MCNext, OnlyLoner
      <3> QED
        BY <2>1, <2>3, <3>1, LonerMakesNew, ClientKeepsNew DEF MCNext, Next
    <2> QED
      BY <2>2, <2>3
  <1> QED
    BY <1>1, <1>2, <1>3 DEF AloneInv

\* A creator that is restarted after every fault, with any number of readers
\* and removers beside it, clears neither control block nor header of a memory
\* that a reader polls.
THEOREM ViLonerInitialisesOnce == MCSpec => []AloneInitialisesOnce
  <1>1. AloneInv => AloneInitialisesOnce
    BY DEF AloneInv, AloneInitialisesOnce, NeverReinitialised, MakesNew, Untouched, Reading
  <1> QED
    BY <1>1, AloneInit, AloneNext, PTL DEF MCSpec
=============================================================================
