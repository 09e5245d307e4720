# Verification of the TVU shared-memory media library

TLA+ modules, TLC runs and TLAPS proofs for the libraries under
`src/sourceCode/libshmmedia/prj`: processes on one machine pass audio and video
items through POSIX shared memory, one writer and any number of readers, with
no lock anywhere. Paths below are relative to that directory.

## 1. Inventory

### The fixed-item ring
*Code:* `libsharememory/src/sharememory.cpp` (`CTvuBaseShareMemory`),
`libshmmedia/src/libshm_media.cpp` (`CLibShmMediaCtx`),
`libshmmedia/src/libshm_media_internal.h` (the polls),
`libshmmediaProto/src/libshm_media_protocol_internal.cpp` (item layout).

*State.* In the segment: a header with version, `item_count`, `item_length`,
`item_current`, close flag, init flag; `item_count` slots. In each handle: the
mapping and `m_uReadIndex`.
*Operations.* Create, Open, SendData (or Apply and Commit), PollSendable,
PollReadable, PollReadData, ReadDataWithoutIndexStep, ReadIndexStep, seeks,
searches, Destroy, RemoveShmid.
*Hard.* The writer never learns where readers are, so it overwrites what is
being read; indices are 32 bits and wrap; a poll moves the index of a reader
that is behind ("catch-up") after the read has already copied that index; a
failing send publishes its slot all the same; a writer may be killed anywhere.
*Correct when* the last `item_count - 1` items lie whole in their slots, a reader
less than a ring behind gets exactly the item it polled, an error is only
reported to a reader that is really lost, and no reader gets stuck.

### The life of a fixed-item memory
*Code:* `CreateOrOpen`, `_open`, `CloseMapFile`, `InitCreateShm`, `InitOpenShm` in
`sharememory.cpp`; `initShmV4`, `checkCloseFlag`, `setCloseFlag` in
`libshm_media_protocol_internal.cpp`; `LibShmMediaDestroy` and
`LibShmMediaRemoveShmidFromSystem` in `libshm_media.cpp`.

*State.* The kernel's names and segments; version, init flag and close flag.
*Hard.* System calls go by name, stores go to a mapping, and the two part when a
name is unlinked and taken again. A creator may be killed between any two steps
of the initialisation; two creators may start at once (`shm_open` without
`O_EXCL`); waits time out.
*Correct when* a reader of a memory that is no longer used learns of it, nothing
sent before an orderly close is lost to a reader that polls, a header a reader
uses is not cleared, and creator and readers find each other again after faults.

### The compact ring of variable-size items
*Code:* `libvaItemSharedMemory/src/TvuShmSharedCompactRingBuffer.cpp`,
wrapped by `libsharememory/src/shm_variable_item_ring_buff.cpp` and
`libshmmedia/src/libshm_media_variable_item.cpp`.

*State.* A control block of four moving words with a checksum, a table of
`maxItemsNum` entries (offset, size, index, checksum), a payload area filled
round and round. In each handle: `_nextReadingIndex`.
*Operations.* Create, Apply, Commit, IsReadable, Read, ReadNoStep, seeks.
*Hard.* Commit is eight plain stores and Read seven plain loads, trusted when
sums agree; payload is overwritten independently of the table; a writer that
dies in Commit leaves a sum that does not agree; a lapped reader waits for an
index that comes up again two laps later.
*Correct when* recent history is whole between any two stores, what a reader was
given is the item it was told, and reads never go back.

### The life of a variable-item memory
*Code:* `libvaItemSharedMemory/src/TvuSharedMemory.cpp` (`SharedMemory`), `Create`, `Open`
and `_isValidShmData` of `TvuShmSharedCompactRingBuffer.cpp`, `CreateOrOpen`, `_open`,
`InitCreateShm`, `InitOpenShm` and `RemoveShmFromKernal` of `shm_variable_item_ring_buff.cpp`,
`CreateShmEntry` and `LibViShmMediaRemoveShmFromSystem` of `libshm_media_variable_item.cpp`.

*State.* As for fixed items, but initialised at two levels: a control block with a
magic code and a size, and a header behind it. In each handle `_shmId`, `_bytes`, `_size`.
*Hard.* All of the above, and: neither level is zeroed by whoever comes later; a
file without a size can be neither mapped nor removed; `PollReadable` looks at the
close flag last, and a lapped reader never gets that far; a creator that does
not see a version in time goes on with an address it has unmapped.
*Correct when* as for fixed items, up to what it cannot keep: see section 4.

### The messages
Eight formats of bytes that travel as payload, user data or head of an item:
*control commands* (`libshmmedia/src/libshmmedia_control_protocol.cpp`), *key-value
parameters* and the media head made of them (`libshmUtil/src/libshm_key_value.cpp`,
`libshmmediaProto/src/libshm_media_key_value_proto.cpp`), *binary concatenation*
(`libshm_media_bin_concat_protocol.cpp`), *subtitles*
(`libshm_media_subtitle_private_protocol_internal.cpp`), *extended data*
(`libshm_media_extension_protocol.cpp`), *tvulive frames*
(`libshmmedia_tvulive_protocol.cpp`), *channel layouts*
(`libshm_media_audio_track_channel_protocol.cpp`) and *encoded frames*
(`libshmmedia_encoding_protocol.cpp`); most of them over the buffer controller and the
compact integers of `libshmUtil/src/buffer_ctrl.cpp`.

*State.* The handles: a growing buffer with a current and a write position, a map of
parameters, a table of offsets, a copy of the data, or a flag, channels and a binary.
The structure a caller passes again and again. The caller's buffer.
*Operations.* Write (or set, append, concatenate, serialise), estimate, flush; read (or
extract, split, parse), reset, copy, compare, tune time stamps in place.
*Hard.* Handles are used again and again, and what an earlier use left behind lies behind
what a later one wrote; peers are of other versions, with longer heads and parameters, or
callers with shorter structures; a message is cut short; memory runs out in the middle of
a write; some functions change their object before they find out that they fail.
*Correct when* whatever handles did before, a whole message of this version or of a later
one is read as what was written, and a part of one is refused or is read as a part.

### Items in their slots
*Code:* `writeItemBufferV4`, the `getReadItemBufferLayout` functions and the guess of a version
in `libshm_media_protocol_internal.cpp`; `SendData` and its variants, `ReadItemData`,
`PollReadRawData`, `ApplyItemBuffer`, `CommitItemBuffer` in `libshm_media.cpp` and
`libshm_media_variable_item.cpp`; `libshm_media_raw_data_opt.cpp`.

*State.* A slot: a head of one of four layouts (versions 2, 3, and 4 with a short and a long
head), six parts behind it, and key-values behind those. The caller's head structure.
*Operations.* Send, relay raw data, ask for a length, apply, write in place, commit; read data,
read the head, read out for a search.
*Hard.* What an earlier item left in the slot; a version that is guessed from sums of lengths;
an item refused half-written; a length asked for in one call and an item written in another;
parts that are in place already; relayed items at another alignment.
*Correct when* every reader finds the item as it was sent, and nothing where it was refused.

### Searches
*Code:* `SearchItemWithTvutimestamp`, `SearchFirstItemMatching`, `SetReadIndex`,
`PollReadDateWithTvutimestamp` in `libshm_media.cpp`, the notes in `libshm_media_item_info.cpp`,
`SearchItems` of variable items.

*State.* A reader's index and its notes, one for each slot.
*Hard.* The ring moves while it is searched, slot by slot; notes outlive items; items without
a time lie in between.
*Correct when* a search finds the first item that reaches the time asked for, the answer is the
item at the index answered, and a search backwards ends at the newest item wanted.

### Wrap handles
*Code:* the wrap functions of `libshmmedia_control_protocol.cpp` and `libshmmedia_tvulive_protocol.cpp`.

*State.* A handle that creates a variable-item memory, or opens it again whenever it is lost.
*Hard.* The memory ends and comes back between any two calls; a reader that opens starts at the
write index; a read that fails lets the memory go.
*Correct when* commands arrive in order and once, and all that a reader was told of arrives before
it leaves a memory.

### The memory's header and its readers' presence
*Code:* `preRequireHeadLength`, `initShmV2` to `initShmV4`, `setCloseFlag`, `checkCloseFlag`,
`SendHead`, `CreateShmEntry`, `HasReaders`, `_setReadTime`.

*State.* The header: version, sub version, flags, media head, the extension with the time of the
last reader. In a creator: a copy of the head it sent last.
*Hard.* Processes built with different versions, with and without the extension, meet in one
memory; a header is written only when it differs from a copy; the place of the extension is
fixed whatever length the header has.
*Correct when* the header says what it was last told, nothing of it lies in an item, and a creator
knows whether somebody reads.

### Utilities
*Node memory manager* (`libshmUtil/src/libshm_node_mem_manager.h`): nodes in a vector, a free
list, handles that free; nothing in the libraries uses it yet. *Hard:* frees by index, by pointer
and by `clear` of a node that a handle still has; growth moves nodes. *Correct when* every node
has one owner and its data is destructed once. *Time stamps*: compared in searches. Not planned:
128-bit arithmetic beyond bytes, file lock, four-character codes, SysV and Windows branches,
samples, tests.

### How they interact
Writer and readers share only the segment. In the fixed ring the one word both
sides use to synchronise is `item_current`; in the compact ring the control
block. The life cycle wraps both: a ring exists between `FinishInit` and the
close flag, and a reader's loop `PollReadable` / read is where the two meet: one
call looks at the close flag, then at the index, then, if there is nothing to
read, at the name.

## 2. Modules

| Module | Models |
|---|---|
| `FixedRing` | the fixed-item ring: every step of SendData, of a read, the relative seeks, crash and re-attachment |
| `LossyFeed` | what a ring promises its readers, with no ring in it |
| `MCFixedRing` | `FixedRing` as an implementation of `LossyFeed`, fairness, what the SDK manual says |
| `ModLemmas` | lemmas about `%` and `\div` |
| `FixedRingProofs` | proofs about `FixedRing`, and that it implements `LossyFeed` |
| `CompactRing` | the compact ring, store by store and load by load |
| `MCCompactRing` | its fairness, and what its header file says |
| `CompactRingProofs` | proofs about `CompactRing` |
| `ShmLifecycle` | creators, readers and removers of one name |
| `MCShmLifecycle` | creators alone or in a crowd, fairness, liveness |
| `LifecycleProofs` | proofs about `ShmLifecycle` and `MCShmLifecycle` |
| `ViShmLifecycle` | creators, readers and removers of one variable-item memory |
| `MCViShmLifecycle` | its fairness and liveness, and what its header file says |
| `ViLifecycleProofs` | proofs about `ViShmLifecycle` and `MCViShmLifecycle` |
| `BufferCtrl` | the buffer controller: growth, positions, reads and writes of either byte order |
| `CompactInteger` | the integers of one to ten bytes, their count, encoding and decoding |
| `KeyValueMap`, `KeyValue` | variants and maps of parameters as bytes; the callers that set, append and extract them, and the media head |
| `ControlProtocol` | control handles: eleven commands, written and read |
| `BinConcat` | segments in one binary |
| `Subtitle` | subtitle entries and the tuning of their time stamps |
| `ExtData` | extended data, of this version and of the two before |
| `Tvulive` | tvulive frames of five versions, and the wrap handles that send them |
| `AudioLayout` | channel layouts as objects and as binaries |
| `EncodingData` | encoded frames |
| `ItemLayout` | items in slots of either kind, of versions 2, 3 and 4: sent, relayed, filled in place, found |
| `ItemSearch` | searches by time stamp, by pts and in order, while items are sent |
| `SearchConstants` | what the searches are stated for: ring size, feeds, askings, frame rates, and the assumption on them |
| `ItemSearchProofs` | proofs about `ItemSearch` |
| `WrapHandles` | control and tvulive wrap handles over a memory that ends and comes back; searches backwards |
| `WrapConstants` | what the wrap handles are stated for: the table and what is sent, and the assumption on them |
| `MemoryHead` | the header of a memory between creators and readers of different builds |
| `HeadConstants` | what the header is stated for: builds, header lengths, media heads, and the assumption on them |
| `NodeMemory` | the node memory manager and its handles |
| `NodeConstants` | what the node manager is stated for: handles, capacities, calls, and the assumption on them |
| `Units` | `WrapHandles`, `MemoryHead` and `NodeMemory` over one set of variables |
| `UnitProofs` | proofs about these three |
| `MCMessages` | the thirteen of these that are state machines in one model: a behaviour chooses one |
| `MessagesProofs` | what is proved of `ItemSearch` and of the components of `Units`, said of `MCMessages` |

### FixedRing
`item_current` and `m_uReadIndex` are the code's; `read_index` is the local of
`PollReadDataWithoutIndexStep`, read *before* the poll. A slot is three fields,
in the order in which the code stores and loads them: `length` (stored last,
looked at first), `head`, `body`. A value is the absolute number of the item it
belongs to, or `Blank`. Items are counted from 0 in the history variables
`published`, `position`, `took.item`, `refused`; no guard reads them except the
bound `MaxPublish`. One SendData is ClearItem, FillItem, SealItem, FinishWrite,
with RejectItem for the -EINVAL exits and Crash in between; one read is
BeginRead, Poll (or PollFails), ReadLength, ParseHead, UsePayload, Release.
ParseHead and Release together are both calling conventions: PollReadData steps
the index at once ("holding"), ReadDataWithoutIndexStep leaves the step to
ReadIndexStep ("peeking").

`IndexMod` is 2^32. Where `item_count` does not divide it, slot 0 follows out of
turn at the wrap; `NoSeam` says no such wrap has been passed, and the ring
properties are stated under it.

### CompactRing
Each store of Commit is one step (`StoreItem`, `StoreControl`, `Publish`, ordered
by `After`), each load of Read is one step. Payload is an array of units; a unit
holds the item last written there. `tenant`, `lap` and `reach` are history: whose
index a table entry holds, and how far the writer has come with rewinds counted,
so that "the payload of this item has been given away" can be said. Apply, with
the zeroing of the rest of the area, and Fill are one step each: a payload
being overwritten is outside what any property claims (`Kept`).

### ShmLifecycle
`name` is what the name refers to, `seg` the file sizes and headers, `cseg` and
`rseg` what each process maps. Each system call and each header store that
another process can see is a step. `Reap` is the kernel: a segment with neither
name nor mapping is freed. Waits have no clock: a wait for X may time out in any
state where X does not hold, and the once-a-second removal check may or may not
be due. `ShutDown`, `Kill`, `GrowFails` and the start of a removal are faults,
bounded by `MaxFaults`. `owed` and `killed` are ghosts.

Two indices count frames without a ring or wrap here: `FixedRing` is where those are.
`killed` marks a segment whose owner (a creator between its version and its close flag)
was killed, until another creator keeps or refuses it.

### ViShmLifecycle
The same conventions; `pc` and `at` are kept for all processes together, since
creators and clients share `SharedMemory`, and `span` is `_size`, which `IsValid`
compares with the control block. `Store` and `Close` are the two shapes most steps
have: a store to the mapped segment, and letting go of the handle. A segment's
`count` is the total size of the control block. Frames are counted in `written`, and
`readIndex` is `_nextReadingIndex`, so that `Waiting` and `Holding` can tell a reader that
has something to read from one that only thinks so. `HeaderMissing` ends the
process: `InitOpenShm` has timed out, `_open` returns the unmapped address, and
`setCloseFlag` fails on it. Which free segment the kernel gives is fixed by
`CHOOSE`, as segments have no identity; that divides the state space by four.

### The messages
The eight formats and `ItemLayout` have the same variables: `writer` and `reader`, what the two handles or
structures hold; `wire`, the bytes on the way; `sent`, what was written and how it travels;
`got`, what the last read answered; `uses`, the bound of calls. So `MCMessages` can run each
of them in turn over the same variables, `unit` saying which; `ItemSearch`, `WrapHandles`, `MemoryHead` and `NodeMemory` have
variables of their own, which are substituted (`WITH`): those of the last three in `Units`, which `MCMessages`
extends. It takes `ItemSearch` with its proofs
(`INSTANCE ItemSearchProofs`), which changes nothing for TLC. A read answers places in a
buffer, as the code answers pointers, and the properties look at what lies there (`Seen`).
Bytes are bytes where lengths and offsets are; a field nobody computes with is the tuple
of its bytes. `PeerWrites` is a peer of a later (or, in `ExtData` and `Tvulive`, of an
earlier) version, `Cut` a caller that hands over a part: both are outside the library.
`BufferCtrl` and `CompactInteger` are pure operators, so that a handle is a value; their
every function answers what it leaves, and `With` and `Then` chain the steps of one; their
constants make memory run out (`Memory`), positions run over (`IntMax`) and integers go
through all their lengths (`GroupBits`, `WordBits`, `LongBits`).

### ItemLayout
`writer` says which kind of memory and which version, `wire` is the slot, with the base it lies at
(alignment) and its room. A head field is a cell, and one field stands for those that are treated
alike. `Lay` clears and fills the head, `WriteItem` is `writeItemBufferV4` with its refusals in
their order, `ItemVersion` the guess of a version from the sums. A send is one step here: the
order of its stores is `FixedRing`'s. `Relay` carries an item from one memory to
another, `FillItem`, `CommitItem` and `WriteBuffer` are the three ways to write in place, and
`PeerWrites` is a process with the first version 4 head.

### ItemSearch
A search goes slot by slot, and the writer may store between any two slots: `Poll`, `Snapshot`,
`First`, `Last`, `Middle`, `Conclude` and `GoOn` are the parts of `SearchFirstItemMatching` and its
callers between which it does, `Fallback` and `Seek` what happens without a match. `nodes` are the
notes (`ItemInfo`); an item is its number in the feed, `Feeds` says what time each has. `NoItem`
stands for a slot that is empty or being written: its length is 0 until the last store of the item. A match
is kept as the code keeps it, as the place of a note (`ResultRecorder.pItem` points into `_itemNodes`), so what
is answered is what that note says when the search ends.

### WrapHandles
`memory` has every memory there has been, as its handles see it: what was sent to it, its close flag,
and which one has the name. `EntryAt` says which item an entry of the table still holds, with
indices modulo twice the table. Memories end by `Destroy`, `Unlink`, `Die` and `RemoveShm`; `Look`, `LookAtFlag` and
`Take` are the parts of a read between which they may, `Lose` and `Open` how a control reader changes over,
`SearchItems`, `SearchStep` and `Miss` the search backwards. `reader.pos` and `reader.from` are ghosts: the item that the
next index stands for, and the item from which on the reader has had every one. The index of an item comes up again
`MaxItemIndex` items later, so a reader that far behind is given the later item, and `Take` then sets `from` to it: what
lies between is lost to the reader, which cannot know.

### MemoryHead
The first bytes of a memory in cells of four, up to the extension; what lies behind the
header is of the first item. A build is a version, a sub version, whether it has the extension and
which kind of memory it makes. Making and opening a memory are one step each (their steps are
in the life cycles), so a creator that dies leaves a header without an init flag. `told` is a
ghost: what the header was last told, and when a reader last asked.

### NodeMemory
A node is named by a storage and a place in it: growth gives up the storage, and what points there
dangles; a caller does not use it. The data of a node is the number of its allocation, and `ended` counts for each
how often the destructor was called with it, so that "destructed once" can be said.

## 3. Runs

| Run | Question | Bounds |
|---|---|---|
| `fixed_safety` | history, whole reads, catch-up, errors | 3 slots, indices mod 12, 14 items |
| `fixed_feed` | refinement of `LossyFeed`; no reader gets stuck | 3 slots, mod 8, 6 items |
| `fixed_readable` | the manual on PollReadable (violated) | 3 slots, 5 items |
| `compact_safety` | history, whole reads, order | 2 entries, 7 units of payload, sizes 1 and 3, 5 items, 1 crash or abandoned item |
| `compact_live` | no reader gets stuck | same, 3 items |
| `compact_ready` | the header file on PollReadable (violated) | same, 3 items, no crash |
| `lifecycle` | overlapping creators strand no reader; close, clearing, finding each other again | 1 creator, 1 reader, 1 remover, 3 segments, 2 sizes, 2 frames, 2 faults; or 2 creators of different sizes, no faults, no frames |
| `vi_lifecycle` | the same of variable items | 1 creator as in `lifecycle`, 2 table entries, 3 frames; or 2 creators, 1 size, 1 frame, no faults |
| `vi_removed` | the header file on the removal (violated) | 1 creator, 1 remover, 1 size, 2 faults |
| `messages` | formats and items: what is written is read, a part is refused; searches, wrap handles, headers, nodes | 3 to 7 calls each, see below |
| `item_applied` | the header file on the length of an applied item (violated) | 3 calls |
| `layout_flag` | the header file on parsing a channel layout (violated) | 7 calls |

Why the bounds are enough to be interesting.
*Fixed ring:* three slots is the smallest count at which the catch-up lag is the
count and not the constant 3; 14 items take the index past its wrap at 12 and go
round the ring four times, so a reader meets every lag from 0 to more than half
the index range, and PollFails fires. In `fixed_feed` the count does not divide
the index range, but 6 items do not reach the wrap.
*Compact ring:* five items are two and a half laps of the table and pass the
index range (4) once; sizes 1 and 3 in 7 units, aligned to 2, rewind the payload
with every fill level and let an item be overwritten while its table entry is
still there. *Life cycle:* three segments let a mapped old one, a half-made one
and a new one exist at once; two sizes make "too small" happen; two faults make
a kill followed by another. In `vi_lifecycle` three frames over two table entries lap
a reader that has not moved; the crowd of two creators is for what only they can do to each
other, such as zeroing a control block under a reader (`AloneInitialisesOnce` and `Rejoins`
say nothing of it).
*Messages:* four to seven calls are enough to write, cut, fail, write something shorter or
longer, copy, reset and read again with the same handles; buffers grow by 8 or 16 bytes up
to 32, 64, 128 or 256, so that growth and its failure both happen within a message; a
write position overruns at 200; key-value integers have 5 and 8 bits in groups of 2, so
that three and four bytes of them occur, and a 128-bit value has 3 bytes. The samples
are chosen to take every branch: lengths over the limit of 255, 33 volumes where 32
are read, empty segments, sections and texts, time stamps that carry.
*Items:* a slot of 76 cells takes the longest of eight messages and not one of 50 cells of
video; an alignment of 4 with bases 0 and 3, so that a relayed item lies differently; three calls
are a send over a longer one and a read, or a send, a relay and a read.
*Searches:* five slots and three feeds of seven items, so that the ring is lapped during a search; items without a time
stamp, without a pts and of length 0; three askings, two calls.
*Wrap handles:* two table entries, so that indices go from 0 to 3, a feed of five commands, two ends of the memory, three calls
of the reader: it reopens in the middle, and a reader at item 0 can be lapped by a whole range of indices.
*Headers:* seven builds, two lengths, three heads, five calls by two creators and a reader, a clock
of three: create, send, die, attach and send again fit.
*Nodes:* capacities 0 to 2, two handles, six calls: growth twice, or growth, a free and a reuse.

One reader in each run: readers share nothing with each other and never write to
the ring; in the life cycle they only keep segments alive. The proofs are for
any number.

### Fairness
A process that is inside a library call returns from it (weak fairness of its
steps); a reader's loop goes on calling, as `sampleCode/read_sample_code.cpp` does,
and reopens after -1. Sending is fair nowhere: a writer may stop for good after
any item, and in the rings nobody has to restart a dead writer. Two strong
fairnesses: in `LifecycleLive` (run `lifecycle`) a reader that polls for ever polls some time when
the once-a-second removal check is due; in `CompactRingLive` an owner that looks
at heads again and again some time takes an item. In `LifecycleLive` a creator
whose handle returned -1 destroys it and creates again; faults are never fair.
`ViLifecycleLive` assumes the same.

## 4. What the runs and proofs show

### Proved for all constants (TLAPS)
`FixedRingProofs`: `TypeCorrect`, `WindowIsIntact`, `WholeItems`, `ErrorsAreReal`,
`PollIsSafe`, for every count, even index range and set of readers, from
`RingAssumption` alone. `MaxPublish` may be any number, so behaviours of every length
are covered.

The properties are not inductive. `RingInv` adds: for the slot being
written, which fields are of the new item at each `wpc`; for the slots of the last
`Count - 1` items, that a refused one has length zero and any other is whole; that `item_current` is `published` modulo
`IndexMod`, and `m_uReadIndex` is `position` modulo `IndexMod`; that `position <= published`; and
for a reader inside a call, that the slot of `read_index` is the home of the item
it polled although the catch-up may have moved the index by whole rings. The
modulo arithmetic is in `ModLemmas`.

`RingImplementsFeed`, also of `FixedRingProofs`, is the refinement of `LossyFeed` by the mapping of
`MCFixedRing`, a lemma for each kind of step: the writer's `FinishWrite` and the reader's
`ParseHead`, `UsePayload` and `Release` are steps of the feed, a poll is one when it catches
up, all others stutter. It rests on `RingInv`, and on two facts of its own: no slot has
payload of an item not begun (`BodyInv`), and a reader whose index was stepped as it got the item is one past
it (`LoanInv`). Its hypothesis is `[]NoSeam`: `item_count` divides 2^32, or the index has not wrapped yet. Where
it does not divide and has wrapped, slot 0 follows out of turn, and the ring does not do what the feed promises.

`CompactRingProofs`: `CompactTypes`, `HistoryStaysIntact`, `ReadersFindWholeItems` and
`ReadersGoForward`, for every table size, payload area, alignment, set of item sizes and set of
readers. The invariant has two sides. `WriterInv` says word by word how far Commit has come
(`ControlInv`, `EntryInv`), that the room Apply gave lies behind the last item or at the start of the
area and is counted in `reach` (`RoomInv`), that every table entry carries the index of an item of the last lap
(`TenantInv`), and for the recent items (`Intact`) that the entry is whole and that the item
lies below the free offset or in an earlier lap of the payload (`Placed`): this is what makes
the next `Apply` miss it for as long as `Kept` holds, and it is why `HistoryIntact` alone is not inductive.
`ReaderInv` says what a reader between two loads may still rely on: the index it looks for is that
of some item from its own position on (`AheadInv`, since an index comes up again two laps later), an entry whose
index agreed carries the index of an item it has not passed, and what was loaded of that entry is
what the entry says, for as long as the item is `Kept` (`SeenInv`, `TookInv`).

`LifecycleProofs`: `LifecycleTypes` and `NobodyIsStranded`, for any number of creators,
readers, removers and segments. The inductive invariant is `Accounted`: a segment with
a valid version that is not closed has a creator that still holds it, or had its
last owner killed. It needs the exact correspondence of states and open handles
in `TypeOK`, and the fact that the close flag is cleared only by a creator that stays.
`LonerInitialisesOnce`: one creator at a time clears no header in use. `MakesNew` says why, although
nothing is `O_EXCL`: a creator comes to `shm_open(O_CREAT)` only when the name is free, nobody
else would take it, and what the kernel then gives it is fresh (`FreeIsBlank`), so readers that
map it have got no further than waiting for a version. `CloseLosesNothing` builds on it: the flag is loaded
before the index, and from one to the other `written` only grows, because nobody
clears the header (`CloseInv`; in the crowd, where headers are cleared, nothing is sent).

`ViLifecycleProofs`: `ViLifecycleTypes` and `ViNobodyIsStranded`, the same for variable items and
by the same invariant. Neither the name nor the control block occurs in it: however
unlinks by name and double initialisations of the control block fall, an open
header has an owner. `ViLonerInitialisesOnce`, for control block and header: here a creator also comes to
`CreateOrOpen` with a file that has the name, when that file cannot be used; `MakesNew` then says that the
file is still unusable when it is mapped, so `CheckControl` unlinks it, and only a file of the creator's own is ever filled.

`ItemSearchProofs`: `SearchTypes`, `SearchesFind` and `AnswersAreItems`, for every number of slots, feed, set of
askings and table of frame rates, from `SearchAssumption` alone; `Calls` may be any number. The
invariant is `SearchInv`. Two parts are of the ring: a slot holds the last item sent
to it, the last `Count` items are all there (`SlotsHold`), and a note is of an item of its slot and not of an earlier
one than it was made for (`NotesHold`). The others are of the search between two steps. `Narrowed` is the
invariant of the binary search: the item before `left` is too early and the one behind `right` too late,
and the match is the one behind `right`, as long as the search is not lapped (`Tracking`). It needs to say of the notes, too, that
those of the first item, the last and the match stay what they were (`Noted`) while no two indices searched share a slot
(`Short`), and otherwise that they are of no earlier item (`Late`): the code looks at the first and the last
only once and answers from the notes, so what holds of the ring does not by itself hold of the answer. Order in time
is used only at the end (`SearchInOrder`), so `AnswersAreItems` holds for feeds in any order.

`UnitProofs`, the wrap handles: `CommandsDoArrive` and `SearchesEndAtNewest`, for every table size and everything that may be sent, from
`WrapAssumption` alone; `MaxEnds` and `WrapCalls` may be any number. The invariant is `WrapInv`. Items are numbered in the order they
are sent through all memories (`Numbered`); a control reader's index is that of the item it stands at, and between its two looks
that item does not change (`Placed`); what it has read is in order and older than everything it has still to read, also in a
memory it has not opened yet (`ReadInOrder`); and of its memory it has read every item from `from` to where it stands (`LeftRead`, for
the memory it left). The last needs `Take` to find the item of the reader's position and no other, which is so while the writer is
less than `MaxItemIndex` items ahead; hence the ghost `from`. A search backwards knows (`Searching`) that no item
between its place and where it began is wanted, but those whose entries were reused; an entry that holds the index it expects
is either of the item it expects or of one sent since, never of an earlier one.

`UnitProofs`, the header: the invariant behind `UnitHeaderSaysLast`, `UnitPresenceIsTold` and `UnitHeaderIsWide`, for any
number of creators, any builds, header lengths, media heads and timeouts, from `HeadAssumption`
(versions are 1 to 4, and only version 4 has the extension); `MaxClock` and `HeadCalls` may be any number. The invariant is
`HeaderInv`. `Laid` says that the version cell stays that of the build which made the memory, although handles of every build write
to it: `Get`, `Put` and `SetCloseFlag` find their cells by it, so one store to cell 0 would move the whole header. The places
of the fields in each version are therefore lemmas (`PlacesOfV2`, `PlacesOfLater`): all in cells 5 to 11, apart from
each other, from the version and from the extension at 24 and 28. `Laid` also says that a header of more than 96 bytes shows an
extension only if its build has one, and that this one's time is that of the last reader. `Copies` ties the handles to the header: a
creator that is alone has in its copy what was sent last, all but the vbr, so `HeaderChanged` compares with what the header really says.

`UnitProofs`, the nodes: the invariant behind `UnitNodesAreOwned`, for any capacities, any number of handles and of calls, from
`NodeAssumption`. `NodesAreOwned` is nearly inductive. What `NodeInv` adds: the data of a used node has been given out (`Given`), so
that what `Allocate` gives out next is in no node yet; and a manager without a storage has nothing (`Moved`), so
that the move of a manager overwrites no node. Nothing is needed of handles and released pointers but their types: every free
goes by an index, and an index that is out of range or not used is refused.

`MessagesProofs`: the same of the model that run `messages` checks (`UnitSearchesFind`, `UnitAnswersAreItems`,
`UnitCommandsArrive`, `UnitSearchesEndAtNewest`, `UnitHeaderSaysLast`, `UnitPresenceIsTold`, `UnitHeaderIsWide`,
`UnitNodesAreOwned`). A behaviour there keeps its unit, so each invariant is carried over as
it stands; the constants are those of `SearchConstants`, `WrapConstants`, `HeadConstants` and `NodeConstants`, which
`Messages.cfg` gives values and the theorems do not.

The invariants of searches and wrap handles were checked by TLC before they were proved, on rings of 5 slots and on tables of 1 to 3 entries. One version
of `CommandsArrive` did not survive this: without `from` being set when a reader is lapped it is false, of a reader that is exactly a range of
indices behind and then reads on.

### Model-checked only
Liveness (`MovesOn` twice, `Rejoins`). Of the invariants, those of run `messages`: round trips of
formats and items are recursive functions and folds over data (of every length TLC tries,
and of no more).

### Limits worth knowing
* `AloneInitialisesOnce` speaks of one creator at a time. With two that start
  together a header is initialised twice: one may run `InitCreateShm` on a segment the other has
  already published. No document allows or forbids two creators.
* `Rejoins` has one way out, `Stranded`: the creator was killed, and the name was
  given to another memory before the reader's removal check, which asks for the
  name and not for the identity behind it.
* `Rejoins` for variable items has three: `Stranded` as above, `Deaf` (a lapped reader,
  for which `Readable` answers 1 for ever and `Read` finds nothing, so that it comes
  neither to the name nor to the close flag) and `Jammed` (an empty file). Without any
  one of them the run fails.
* A variable-item reader may lose what was sent between its last look at the
  index and its look at the close flag: the order is the other way round there.
* `WholeUnlessOverrun` of the compact ring leaves out an item a reader got *before*
  it was published: a stale next index and a fresh last index can add up to the
  stored sum.
* `MovesOn` of the compact ring leaves out `LeftTorn`: a writer that dies between
  `itemIndexChecksum` and `nextFreeItemIndex` blinds readers until the next Commit.
* `HeaderSaysLast` of the media head is for one creator at a time, and says of vbr that the *first*
  one stays: it is neither compared nor copied. With two creators, the copy of one hides
  what the other wrote.
* `PresenceIsTold` leaves out a memory of an earlier build whose header ends before the extension: there
  the first bytes of item 0 are taken for it.
* `AnswerIsItem` says nothing of the time of an answer by stamp or pts when the search went over more items than
  there are slots (the writer went on for a ring between the poll and the search): a match
  is kept as a pointer to the note of its slot, a later step of the same search may note another item there, and
  the answer may then be earlier than what was asked for (`libshm_media.cpp:2082`). It is still of the
  index answered or later.
* `AnswerIsItem` is of what a search noted; that the slot still holds it when the caller looks is
  `WholeUnlessOverrun` of `FixedRing`.

### Findings
1. A refused send publishes an empty item: `_sendV4Data` calls FinishWrite even
   after -EINVAL, PollReadable answers "data available", and the reader stays
   at that item until it is lapped (`fixed_readable`).
2. A lapped reader of the compact ring is told there is data and gets none
   (`compact_ready`).
3. `LibViShmMediaRemoveShmFromSystem` answers 0, "destroy successfully", and leaves an
   empty file under the name; `LibViShmMediaCreate` cannot use that file either
   (`vi_removed`).
4. A channel-layout object that was planar once stays planar: `ParseFromBinary` sets the
   flag and never clears it (`layout_flag`).
5. The length that `ApplyItemBuffer` answers, "the real writing total length", leaves out the channel
   layout that `CommitItemBuffer` then writes (`item_applied`).

Met while modelling, and not put to a run: PollSendable never answers "full", while the
manual promises a free slot (`sharememory.cpp:1148`); a creator whose `InitOpenShm` times out uses
the header after `munmap` (`shm_variable_item_ring_buff.cpp:392`), and
ReadDataWithoutIndexStep of the variable-item API steps the index
(`libshm_media_variable_item.cpp:1012`). The write of extended data answers 16 when no entry fitted
and nothing was written, and the estimate of its size leaves `smpte336m` out. A tvulive
structure of the first version is written as nothing, with 0 and no error. A failed parse of
a layout may change the planar flag, an object that takes the flag of an empty one keeps its channels,
and two empty objects do not compare as equal. A subtitle message cut within its data is parsed
with success.

*Items.* Reads of variable items (`libshm_media_variable_item.cpp:990`) never yield the channel layout and
overwrite the caller's `h_channel` with NULL, which `libshm_media_protocol.h:106` says is the caller's.
`LibShmMediaProtoRequireWriteItemBufferLength` leaves the key-values out. `_headParamLowCopy` copies
`u_reservePrivate`, so a structure of the first size claims the second after a read. An item
with nothing but a layout reads as 0, "wait", without a channel object; an item without one leaves the
layout of the item before in the caller's object. `PollReadRawData` never steps over an item of length 0, and
addresses the item by the index loaded before the poll's catch-up.

*Searches and wrap handles.* `type` of `LibShmMediaReadItemWithTvutimestamp` is ignored, `bFoundPts` is left
unset when the stamp was found, `SetReadIndex` begins at 0 just after the index wraps. The control wrap's `write`
answers the length as if sent when the handle has lost its memory, `writeBin` answers -1. A refused item
makes the control reader let the memory go and reopen it at the write index, losing what waits; a
lapped one never notices the end of its memory.

*Headers.* `copy_media_head_to_param` is called by nobody, so no reader looks at the media head. A creator of
another version closes the memory it refuses (`setCloseFlag` on the failing path). The clock is
`gettimeofday`: set back, it makes `HasReaders` answer yes until it has caught up.

*Nodes.* The move assignment calls `load()` of a `size_t` and cannot be used; a manager that was moved leaves
handles that point at the old one, whose nodes nobody frees; `forEachUsedNode` calls back under a mutex
that is not recursive; capacity 0 never grows.

## 5. Assumptions and abstractions
* Loads and stores are sequentially consistent and aligned words are not torn.
  The code uses plain accesses to mapped memory; on x86 stores of one process
  are seen in order, and compiler reordering is not modelled.
* Payload copies are one step. A reader that overlaps a copy has been overrun,
  and no property claims anything for it.
* Wording and logging are left out. In the rings and the life cycles heads are version 4;
  `ItemLayout` has the items of versions 2, 3 and 4, `MemoryHead` the headers of versions 1 to 4.
* Each step of a search that touches one slot is atomic; the copies within it are `FixedRing`'s.
* The 32-bit index does not wrap in `ItemSearch`.
* A forced kill leaves what is in the segment and drops the mapping.

## 6. Plan
What is left, in this order.
1. *Proofs*: a refinement of `LossyFeed` by the compact ring with its exceptions made explicit.
2. *Utilities*: 128-bit arithmetic, the merging of time stamps.
3. *Rings*: the absolute seeks, as further actions.

Not planned: SysV and Windows branches (not built where POSIX memory is used),
file lock (called from nowhere), tables of four-character codes, samples, tests.
