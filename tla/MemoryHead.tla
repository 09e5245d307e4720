----------------------------- MODULE MemoryHead ------------------------------
(* The header of a memory: its version, its flags, the media head of what is    *)
(* sent and the time of the last reader, as processes built with this library   *)
(* and with earlier ones leave it to each other.                                *)
(*   memory    the first bytes of the memory in cells of four, the length of    *)
(*             the header in bytes, and the build that made it; None: no memory,*)
(*   creators  handles that create: their build and the media head they copied, *)
(*   reader    the handle of a reader: the version it found, 0 when not open,   *)
(*   told      what the header was last told: the close flag, the media head    *)
(*             and the first vbr of the creator, whether creators were alone,   *)
(*             the last time a reader asked,                                    *)
(*   answer    what HasReaders said,                                            *)
(*   time      the calls made and the clock.                                    *)
(* ShmLifecycle and ViShmLifecycle have the steps in which a memory is made and *)
(* opened; here each is one step.  One field stands for those treated alike:    *)
(* sar, src, dst for a width and a height, other for what is compared and not   *)
(* kept in the header.                                                          *)
EXTENDS HeadConstants, Sequences

VARIABLES memory, creators, reader, told, answer, time
vars == <<memory, creators, reader, told, answer, time>>

None == <<>>
Item == 7      \* a cell of the first item
Finished == 3  \* INIT_FINISH_STATE

-----------------------------------------------------------------------------
(* The cells.                                                                   *)
HeadFields == <<"vbr", "sar", "src", "dst">>

(* shm_media_head_info_v2_t and _v3_t, the first part of _v4_t: what follows    *)
(* the five cells of shm_construct_t.                                           *)
FieldsOf(v) ==
  CASE v = 1 -> <<>>
    [] v = 2 -> <<"close", "init">> \o HeadFields
    [] OTHER -> <<"sub", "close", "init">> \o HeadFields
CellOf(v, f) == 4 + CHOOSE i \in DOMAIN FieldsOf(v) : FieldsOf(v)[i] = f

Version == 0
HeadDataSize == 15
ExtVersion == 24
ReadTime == 28
Cells == 0..29

Get(m, f) == m.cells[CellOf(m.cells[Version], f)]
Put(m, f, x) == [m EXCEPT !.cells[CellOf(m.cells[Version], f)] = x]

(* Mutant: the extension is forgotten.                                          *)
PreRequireHeadLengthBare(b) ==
  CASE b.version \in {1, 2} -> 56 [] b.version = 3 -> 60 [] b.version = 4 -> 96

PreRequireHeadLength(b) ==
  CASE b.version \in {1, 2} -> 56
    [] b.version = 3 -> 60
    [] b.version = 4 -> 96 + (IF b.ext THEN 24 ELSE 0)

Align16(n) == ((n + 15) \div 16) * 16

(* The length of the header that CreateShmEntry asks CreateOrOpen for.          *)
HeaderLength(b, asked) ==
  Align16(IF asked < PreRequireHeadLength(b) THEN PreRequireHeadLength(b) + 16 ELSE asked)

(* InitCreateShm: the header is zero but for the version and, of a build that   *)
(* knows it, the extension; what lies behind it is of the first item.           *)
InitCreateShm(b, len, byte) ==
  LET bare == [c \in Cells |-> IF 4 * c < len THEN 0 ELSE IF c = ExtVersion THEN byte ELSE Item]
      made == [bare EXCEPT ![Version] = b.version]
  IN [cells |-> IF b.ext THEN [made EXCEPT ![ExtVersion] = 1, ![ReadTime] = 0] ELSE made,
      length |-> len, build |-> b]

-----------------------------------------------------------------------------
(* The close flag.                                                              *)
MapVer(m) ==
  IF m.cells[Version] <= 2 THEN m.cells[Version] ELSE m.cells[Version] + Get(m, "sub")

SetCloseFlag(m, closed) == IF MapVer(m) = 1 THEN m ELSE Put(m, "close", IF closed THEN 1 ELSE 0)

CheckCloseFlag(m) == m.cells[Version] # 1 /\ Get(m, "close") # 0

(* What a handle that creates writes.                                           *)
InitShmV2(m) == Put(Put(m, "close", 0), "init", Finished)
InitShmV3(m, b) == Put(Put(Put(m, "sub", b.sub), "close", 0), "init", Finished)
InitShmV4(m, b) == InitShmV3([m EXCEPT !.cells[HeadDataSize] = m.length], b)
InitToWrite(m, b) ==
  CASE m.cells[Version] = 1 -> m
    [] m.cells[Version] = 2 -> InitShmV2(m)
    [] m.cells[Version] = 3 -> InitShmV3(m, b)
    [] m.cells[Version] = 4 -> InitShmV4(m, b)

(* What a handle that reads waits for, in CheckShmStatus of either kind.        *)
CanReadVariable(m) ==
  m.cells[Version] \in {3, 4} /\ Get(m, "init") = Finished /\ Get(m, "sub") = 0
CanReadFixed(m) ==
  \/ m.cells[Version] = 1
  \/ m.cells[Version] = 2 /\ Get(m, "init") = Finished
  \/ CanReadVariable(m)

-----------------------------------------------------------------------------
(* Creating and opening.                                                        *)
NoHandle == [open |-> FALSE, build |-> None, head |-> None]
Others(c) == \E d \in Creators \ {c} : creators[d].open

Calling == time.calls < HeadCalls /\ time' = [time EXCEPT !.calls = @ + 1]

(* A new memory, whole, or left by a creator that died before the init flag.    *)
Create(c) ==
  /\ Calling
  /\ memory = None /\ ~creators[c].open
  /\ \E b \in Builds, asked \in HeadLengths, byte \in {0, 1}, dies \in BOOLEAN :
       LET made == InitCreateShm(b, HeaderLength(b, asked), byte) IN
         /\ memory' = IF dies THEN made ELSE InitToWrite(made, b)
         /\ creators' = IF dies THEN creators
                        ELSE [creators EXCEPT ![c] = [open |-> TRUE, build |-> b, head |-> None]]
  /\ told' = [told EXCEPT !.close = FALSE, !.head = None, !.alone = TRUE, !.asked = 0]
  /\ UNCHANGED <<reader, answer>>

(* A memory that is there: of another version it is closed and refused.         *)
Attach(c) ==
  /\ Calling
  /\ memory # None /\ ~creators[c].open
  /\ \E b \in Builds :
       /\ b.variable = memory.build.variable
       /\ IF b.version # memory.cells[Version]
            THEN /\ memory' = SetCloseFlag(memory, TRUE)
                 /\ told' = [told EXCEPT !.close = TRUE]
                 /\ UNCHANGED creators
            ELSE /\ memory' = InitToWrite(memory, b)
                 /\ told' = [told EXCEPT !.close = FALSE, !.head = None,
                                         !.alone = ~Others(c)]
                 /\ creators' = [creators EXCEPT
                                   ![c] = [open |-> TRUE, build |-> b, head |-> None]]
  /\ UNCHANGED <<reader, answer>>

(* LibShmMediaDestroy of a creator sets the close flag.                         *)
Destroy(c) ==
  /\ Calling
  /\ creators[c].open
  /\ creators' = [creators EXCEPT ![c] = NoHandle]
  /\ memory' = SetCloseFlag(memory, TRUE)
  /\ told' = [told EXCEPT !.close = TRUE]
  /\ UNCHANGED <<reader, answer>>

(* A creator that is killed sets nothing.                                       *)
Die(c) ==
  /\ Calling
  /\ creators[c].open
  /\ creators' = [creators EXCEPT ![c] = NoHandle]
  /\ UNCHANGED <<memory, reader, told, answer>>

Open ==
  /\ Calling
  /\ memory # None /\ reader = 0
  /\ IF memory.build.variable THEN CanReadVariable(memory) ELSE CanReadFixed(memory)
  /\ reader' = memory.cells[Version]
  /\ UNCHANGED <<memory, creators, told, answer>>

(* LibShmMediaSetCloseflag, of any handle.                                      *)
SetFlag ==
  /\ Calling
  /\ memory # None
  /\ reader # 0 \/ \E c \in Creators : creators[c].open
  /\ \E closed \in BOOLEAN :
       /\ memory' = SetCloseFlag(memory, closed)
       /\ told' = [told EXCEPT !.close = closed]
  /\ UNCHANGED <<creators, reader, answer>>

-----------------------------------------------------------------------------
(* The media head.                                                              *)
CopyFromParam(m, h) ==
  IF m.cells[Version] = 1 THEN m
  ELSE Put(Put(Put(Put(m, "vbr", h.vbr), "sar", h.sar), "src", h.src), "dst", h.dst)

Compared == {"sar", "src", "dst", "other"}

(* Mutant: the size of the source is not compared either.                       *)
HeaderChangedButSrc(mine, h) == \E f \in Compared \ {"src"} : mine[f] # h[f]

HeaderChanged(mine, h) == \E f \in Compared : mine[f] # h[f]
CopyHeader(mine, h) == [f \in DOMAIN mine |-> IF f \in Compared THEN h[f] ELSE mine[f]]
Copied(mine, h) == IF mine = None THEN h ELSE CopyHeader(mine, h)

(* The header after SendHead, with mine the copy of the handle (None: none yet). *)
WriteHead(m, mine, h) ==
  IF mine = None \/ HeaderChanged(mine, h) THEN CopyFromParam(m, Copied(mine, h)) ELSE m

SendHead(c) ==
  /\ Calling
  /\ creators[c].open
  /\ \E h \in Heads :
       LET mine == creators[c].head IN
         /\ memory' = WriteHead(memory, mine, h)
         /\ creators' = [creators EXCEPT ![c].head = Copied(mine, h)]
         /\ told' = [told EXCEPT !.head = h, !.vbr = IF mine = None THEN h.vbr ELSE @]
  /\ UNCHANGED <<reader, answer>>

-----------------------------------------------------------------------------
(* Who reads.                                                                   *)

(* _setReadTime: at the place of the extension, whatever made the memory.       *)
SetReadTime(m, now) == IF m.cells[ExtVersion] = 1 THEN [m EXCEPT !.cells[ReadTime] = now] ELSE m

(* Readable, which ends with _setReadTime.                                      *)
Readable ==
  /\ Calling
  /\ reader # 0
  /\ memory' = SetReadTime(memory, time.clock)
  /\ told' = [told EXCEPT !.asked = time.clock]
  /\ UNCHANGED <<creators, reader, answer>>

(* Mutant: a memory that nobody has read yet counts as read at time 0.          *)
NobodyReadsByClock(m, now, timeout) ==
  m.cells[ExtVersion] = 1 /\ now - m.cells[ReadTime] > timeout

NobodyReads(m, now, timeout) ==
  /\ m.cells[ExtVersion] = 1
  /\ now - m.cells[ReadTime] > timeout \/ m.cells[ReadTime] = 0

(* LibShmMediaHasReader, of the builds that have it.                            *)
HasReaders(c) ==
  /\ Calling
  /\ creators[c].open /\ creators[c].build.ext
  /\ \E timeout \in Timeouts :
       answer' = [asked |-> told.asked, now |-> time.clock, timeout |-> timeout,
                  stamped |-> memory.build.ext, room |-> memory.length > 4 * ExtVersion,
                  has |-> ~NobodyReads(memory, time.clock, timeout)]
  /\ UNCHANGED <<memory, creators, reader, told>>

Tick ==
  /\ time.clock < MaxClock
  /\ time' = [time EXCEPT !.clock = @ + 1]
  /\ UNCHANGED <<memory, creators, reader, told, answer>>

-----------------------------------------------------------------------------
Init ==
  /\ memory = None
  /\ creators = [c \in Creators |-> NoHandle]
  /\ reader = 0
  /\ told = [close |-> FALSE, head |-> None, vbr |-> 0, alone |-> TRUE, asked |-> 0]
  /\ answer = None
  /\ time = [calls |-> 0, clock |-> 1]

Next ==
  \/ \E c \in Creators :
       Create(c) \/ Attach(c) \/ Destroy(c) \/ Die(c) \/ SendHead(c) \/ HasReaders(c)
  \/ Open \/ SetFlag \/ Readable \/ Tick

-----------------------------------------------------------------------------
(* The header says what it was last told, whichever build asks: the close flag  *)
(* as it was last set, and, with one creator at a time, the media head sent     *)
(* last; but the vbr is that of the first head of the creator, for              *)
(* _cmp_shm_header and _copy_shm_header leave it out.                           *)
HeaderSaysLast ==
  memory # None /\ memory.cells[Version] # 1 =>
    /\ CheckCloseFlag(memory) = told.close
    /\ told.alone /\ told.head # None =>
         /\ Get(memory, "vbr") = told.vbr
         /\ \A f \in {"sar", "src", "dst"} : Get(memory, f) = told.head[f]

(* What the header has is within the header: nothing a handle of any build      *)
(* writes to it lies in the items of a memory that this build made              *)
(* (preRequireHeadLength, _setReadTime).                                        *)
HeaderIsWide ==
  memory # None /\ memory.build.ext =>
    \A c \in Cells : 4 * c >= memory.length => memory.cells[c] = Item

(* "0 -- no reader": a creator is told so when no reader asked within the       *)
(* timeout, and then only; a memory without the extension always has readers,   *)
(* when its header has room for one (HasReaders).                               *)
PresenceIsTold ==
  answer # None /\ (answer.stamped \/ answer.room) =>
    answer.has = (answer.stamped => answer.asked # 0 /\ answer.now - answer.asked <= answer.timeout)
=============================================================================
