# DBlusBlus: TLA+ models, model checking and proofs

DBlusBlus is a relational database kernel in C++. At this commit its storage layer exists:
a disk manager, page files, a buffer pool, slotted heap pages, tuples, and a free-space map.
Write-ahead logging, transactions, B+trees, the catalog and SQL are described in `docs/`
and not implemented. This directory models the storage layer, its formats included,
checks it with TLC on small instances, and proves some of the results with TLAPS for every
instance. Paths below are relative to the repository; `storage/` stands for `src/storage/`.

## Inventory

| Part | State | Operations | Talks to |
|---|---|---|---|
| `BufferPool` (`storage/buffer/buffer_pool.*`) | `frames_`, `free_list_`, `page_table_`, `files_`, `quiescing_`, under `mutex_` and one condition variable `state_changed_` | RegisterFile, RetireFile, FetchRead, FetchWrite, NewPage, FlushPage, FlushFile, FlushAll, Shutdown | `PageIo` (reads, writes, fdatasyncs, extends, counts) with the mutex released; `ClockReplacer` with it held |
| `PageGuard` (`page_guard.*`) | a pin and a shared or exclusive latch on one frame | edit, MarkDirty, Release, move | calls PublishMutation and Unpin of the pool |
| `ClockReplacer` (`clock_replacer.*`) | reference bits, hand | SetReferenced, ClearReferenced, FindCandidate | called by the pool |
| `DiskManager` (`storage/disk/`) | `files_`: FileId to descriptor and `extension_mutex_` | CreateFile, OpenFile, CloseFile, ReadPage, WritePage, PageCount, ExtendFile, SyncFile | the kernel |
| `PageFile`, `FileSuperblock` (`storage/file/`) | an owned registration and a superblock | Create, Open, AllocatePage, destruction, move | the disk manager |
| `HeapPage` (`storage/heap/heap_page*`) | header, slot directory and tuple bytes of one page | Initialize, Insert, MarkDead, Compact, TupleBytes, ValidateStructure, Validate | bytes of a frame; the tuple codec |
| `FsmPage` (`storage/heap/fsm_page.*`) | header and one category byte per heap page | Initialize, SetCategory, Validate, mapping and category arithmetic | bytes of a frame |
| `FsmCandidateIndex` (`storage/heap/fsm_candidate_index.*`) | a map page to category and a set of pages per category | Upsert, Remove, Clear, FindCandidate | the category arithmetic |
| Tuple codec, layout, header (`storage/tuple/`) | the bytes of a tuple; the layouts of a relation's schema versions | BuildTuplePhysicalLayout, PlanTupleSize, EncodeTuple, ValidateTuple, DecodeTupleValue | called by the heap page |
| Page, header, checksum, encodings (`storage/page/`, `common/`) | the bytes of a page | Initialize, header codec, FinalizePageChecksum, VerifyPageChecksum, CRC-32C | called by the pool, the superblock, heap and FSM pages |

What makes each part correct, and what is hard about it:

- **Buffer pool.** Fetches, loads, joined loads, evictions, creations, flushes, retirements and
  shutdown run concurrently and release the mutex around every I/O call. A frame must belong to
  one page or to nobody; a pinned page must stay where it is; nothing published may be lost;
  a page may count as clean only when its current contents are stable; whoever sleeps on the
  one condition variable must be woken; retirement must let nothing in behind its gate. I/O may
  fail anywhere.
- **CLOCK.** A bounded scan must find a victim whenever there is one, and spare referenced pages.
- **Disk manager and page files.** A file is created by several system calls, any of which may
  fail or be the last before a crash; registrations must not leak; concurrent extensions must
  hand out distinct page numbers.
- **Heap pages.** The validator uses shortcuts (neighbours in a sorted order, a bounded chain
  walk) that must be exact on arbitrary bytes; compaction moves overlapping ranges in place.
- **Free-space map.** Free space and requests are rounded to one byte in opposite directions;
  page-number arithmetic runs to the end of the integer range; the two structures of the
  index must agree after an allocation failure.
- **Formats.** Validators read bytes nobody vouches for, and must accept exactly what the encoders
  write: overlapping or dangling descriptors, unused bits, reserved bytes and bytes left over have
  to be noticed; sizes computed beforehand and cursors moved afterwards must agree; a tuple is
  read under the schema version it was written under; the checksum must cover every byte but
  its own, and a page found in another's place must be refused although its checksum is right.

The hazards, each at its line and with the properties aimed at it, are in `PROJECT.json`.

## Modules

| Module | Models | Uses |
|---|---|---|
| `BufferPool` | the pool, the guards, and the pages on disk as the pool sees them | |
| `BufferPoolProperties` | what the pool promises; the refinement mapping | `BufferPool`, `PageStore` |
| `PageStore` | abstract specification: a store whose pages have a value and a stable value | |
| `PoolOwnership_proofs` | proofs: type correctness of the pool; which thread owns which frame, page, claim and turn | `BufferPoolProperties` |
| `BufferPool_proofs` | proofs: sleepers are woken; the retirement gate; contents of frames, images and disk; the refinement; FlushPage and Shutdown | `PoolOwnership_proofs`, `PageStore` |
| `ClockReplacer`, `ClockReplacer_proofs` | the CLOCK scan, one visit at a time | |
| `PageFile`, `PageFile_proofs` | page files and the disk manager, one system call at a time | |
| `HeapPage`, `HeapPage_proofs` | a heap page on decoded headers and slots | `FsmCategory` |
| `FsmCategory` | the category arithmetic | |
| `FsmCandidateIndex` | the candidate index | `FsmCategory` |
| `FsmPage` | an FSM page and the page-number mapping | |
| `FreeSpaceMap_proofs` | proofs: the candidate index, FSM pages | `FsmCandidateIndex`, `FsmPage` |
| `Encoding` | little-endian integers, and structures as tables of fields | |
| `TupleLayout` | tuple header, null bitmap, layout of a schema version, size plan | `Encoding` |
| `TupleCodec` | encoding, validation and decoding of tuples, and the heap page's check of a tuple | `TupleLayout` |
| `PageImage` | page images as bytes: common header, CRC and checksum, superblock, heap and FSM headers | `Encoding` |
| `Formats_proofs` | proofs: numbers and bytes, tables of fields, the CRC, page images | `PageImage` |
| `TupleCodec_proofs` | proofs: tuples | `TupleCodec`, `Formats_proofs` |
| `MC*` | the instances TLC checks; `MCCodec` is the one of `TupleCodec` and `PageImage` | |

`ClockReplacer` meets `BufferPool` through one fact: `BufferPool!AcquireFrame` takes any eligible
frame and refuses only when there is none. `FoundIffEligible` says that FindCandidate returns an
eligible frame, and fails only when there is none, so every choice the code makes is one the model
allows. `FsmCategory` is shared by the index and by the heap page, which is where its promise is
used: `CategoryPromisesSpace` relates the category of a page to what Insert returns. `BufferPool`,
`PageFile`, `HeapPage` and `FsmPage` work on decoded pages and take it that an extended or torn page is
refused and that a stored one reads as it was written; `TupleCodec` and `PageImage` are where that is
checked on bytes.

### BufferPool

The state is the pool's own: `frames`, `free_list`, `page_table`, `files`, `quiescing` are the
members of the class. `asleep` holds the threads waiting on `state_changed_` that no notification has
reached; every action that notifies in the code empties it, and a woken thread re-evaluates its
condition in a step of its own. `pc` and `local` say where each thread is and what it
remembers across an unlock. A thread makes one call at a time and holds at most one guard; after a
fetch it edits and reports any number of changes and gives the guard back.

One action is one region run with the mutex held, or one step run without it:

| Code | Actions |
|---|---|
| PinPage, JoinLoad, LoadPage | FetchRefused, PinResident, AwaitEviction, JoinLoad, JoinWake, LoadPage, ReadPage, FinishLoad |
| AcquireFrame | the operator AcquireFrame up to its unlock, WriteImage, SyncFile, FinishEviction |
| guards | Latch, Edit, MarkDirty, ReleaseLatch, Unpin |
| NewPage, ReserveNewPageNo | NewPage, ReserveNewPageNo, BindNewPage, FinishNewPage |
| FlushPageLocked, FlushMatching, WritebackResident | Flush, FlushWake, CopyImage, WriteImage, SyncFile, Reconcile |
| RetireFile | Retire, RetireWake, and the flush actions |
| Shutdown | Shutdown, and the flush actions |
| RegisterFile | ReadPageCount (before the lock), RegisterFile |

The contents of a page are a version: -1 is a torn image, 0 a page that was extended and never
initialised, 1 and above are valid images. `cache` is what a read returns and `stable` what survives
a power loss; a successful fdatasync copies the one to the other for the whole file, a failed
one promises nothing. Reads, writes, fdatasyncs, extensions, initialisers and page counts fail where
the constant `Faults` allows it. Any free frame and any eligible victim may be taken.

`PageStore` is the abstract specification: each page has a value and a stable value; a writer publishes
one change at a time; stable storage catches up with values the page has or had; a page stops being unsaved
only when its value is stable; and unsaved values are given up only for an owner who has asked to (`doomed`,
mapped to the files a discarding RetireFile is under way for). The value of a page is mapped to the
contents of its frame as far as they were published, or to the file if it is not in memory.

Left out: the test observer, which lets tests drop the mutex at named points; the particular error
codes, which are folded into "error"; the debug checksums; moves of guard objects.

### PageFile

`fs` holds for every path the length of the file and page 0, both as read now and as on the disk.
Create and Open run one system call per action; each may fail, and `Fails` is the cleanup. `Crash`
may happen in every state: the process loses everything, a file keeps either its old or its new
length and page 0, or a torn page 0. Page 0 is a whole superblock, part of one, or zeroes; only a
whole one decodes. `promised` is the superblock a file must keep from the moment Create has succeeded
or a data page of the file has been written back: `WriteStableImage` is the pool's writeback, whose
fdatasync covers page 0 as well, and matters for a file that was opened although the fdatasync of its
Create had failed. One lifecycle call runs at a time and never beside an allocation, as
`disk_manager.h` demands; allocations run concurrently and serialise on `extension_mutex_`. The
directory entry of a created file is taken to survive: its durability belongs to the owner of
the namespace.

### TupleCodec and PageImage

`TupleCodec`: `history` is the HeapTupleSchemaHistory, `tuple` the bytes stored, `source` what was
encoded and under which version. A relation gets versions, a tuple is encoded under one of them
(`Encode` is the whole of EncodeTuple, its checks in their order first), and then the bytes may be
altered: one byte, a byte more or less, or descriptors that name other ranges; these alterations
are the environment's. Two of a kind may follow each other, because one descriptor alone can seldom
be wrong and still add up.

`PageImage`: `image` is one place of a file, `location` its page number, `sent` the bytes last written
for it and `content` what they were made of. `Store` is the owner's encoding followed by the pool's
FinalizePageChecksum, on a frame that still carries the checksum its page was read with. The
environment extends the file, writes a page of another place here (`Misdirect`), changes any bits of
one word (`Decay`), or writes a stray byte under a valid checksum (`StoreAltered`). CRC-32C is
translated bit by bit with the polynomial and the widths as parameters. What a CRC cannot promise is not
claimed: a torn page, or damage that straddles the checksum field, is refused only with the
probability the width of the checksum gives; `BufferPool` and `PageFile` take a torn page to be refused.

### HeapPage, FsmPage, FsmCandidateIndex, ClockReplacer

`HeapPage` keeps decoded headers and slots and, for every byte of the page, which byte of which
tuple it holds: that is what an overlapping move would destroy. The validator's passes,
Insert, MarkDead and Compact are translated one by one, compaction as the sequence of memmoves the code
makes. The two sorts are stated by what they compute: `SortedBy` puts an element at the place given by the number of
elements before it. The chain walk, the plan and the sequence of memmoves are recursive functions of the step number.
`FsmPage` keeps the width of page numbers (`Modulus`), so that the products and sums of the mapping
wrap around as they do in the code. `FsmCandidateIndex` models Upsert with the allocation
failures it handles; `gap` remembers what the category of a page was computed from, so that the
index can be judged by bytes rather than by its own categories. `ClockReplacer` runs FindCandidate one
visit at a time; `start` and `before` remember the hand and the bits when the call began.

## Runs

Every run is `tlc -config X.cfg M`. Each property has a mutant in `PROJECT.json`: a plausible bug in a
modelled definition that makes TLC report that property.

### Passing

- **Fetch** (`MCBufferPool`): three threads fetch, edit and flush two pages through one frame, five
  calls, with failing reads, writes and fdatasyncs. One frame and two pages make every fetch of
  the other page an eviction, two pins make the pin limit bite, and three threads allow a load, a
  joiner and a flush at once. Checks `TypeOK`, `PinnedStaysBound`, `PinsAccounted`, `DiskNeverAhead`,
  `NoLostWakeup`, `NoLostUpdate`, `CleanOnlyWhenStable`, `FlushPageIsStable`. Threads have the same menu,
  so their permutation is a symmetry.
- **Lifecycle**: two threads create, change and flush pages in two frames, four calls, while the file
  is retired, by either of two threads and with either disposition, or the pool is shut down; writes,
  fdatasyncs and initialisers fail. Two frames let two creators run at once, and let the fdatasync
  of one page run between the write and the fdatasync of another page of the file. The disk is full at
  page 2, so that extension fails as well, and a creation that cannot succeed still evicts. Checks
  `ClosedOwnsNothing`, `FramesConserved`, `PublishedIsInitialised`, `RetirementGate`,
  `CleanOnlyWhenStable`, `ShutdownIsClean` and the refinement `ImplementsPageStore`.
- **Waiting**: `FairSpec`, every kind of wait in the menu, one frame, three calls, failing writes,
  initialisers and page counts; one thread retires the file and registers it again. One frame makes
  fetches, creations and flushes wait for evictions. Checks `EveryCallReturns` (guards included)
  and `ImplementsPageStore` across evictions and registrations.
- **Clock** (`ClockReplacer`): four frames, every set of reference bits, hand position and
  eligible set. `FoundIffEligible`, `SecondChance`.
- **FsmIndex** (`MCFsmCandidateIndex`): three pages, every gap of a page of 30 bytes with 16
  categories, a scale on which the rounding errors differ from one category to the next.
  `IndexAgrees`, `CandidateFits`, `NothingOverlooked`.
- **Heap** (`MCHeapPage`): a page of twelve bytes, built by insertions, deletions and compactions from
  an empty page, or read from the file as one of some 35000 images with three slots of any state,
  range and link, valid or not. `L1Kept`, `TuplesStable`, `CompactLeavesNoHole`,
  `CategoryPromisesSpace`, `OverlapCheckExact`, `ChainCheckExact`.
- **PageFile** (`MCPageFile`): two paths, two FileIds, two file kinds (one of which the codec
  rejects), two PageFile variables, two allocating threads, files of up to three pages.
  `RegistrationsOwned`, `OpenIsGenuine`, `PromisedIsDurable`, `AllocationsUniqueContiguous`.
- **Codec** (`MCCodec`): bytes of three bits, words and half words of two bytes, so that 28 bytes make a
  tuple header, three columns fill a byte of the bitmap, and offsets and lengths end at 63.
  Tuples of at most 46 bytes under five column lists (one is too large): payloads around a Boolean, a
  bitmap of two bytes with unused bits, the wider numbers, no column; NULL, empty, fitting and
  too long values; two schema versions; up to two alterations. `PlanMatchesEncoding`,
  `RoundTrip`, `CanonicalForm`. Pages of 44 bytes under a six-bit CRC: two superblocks, empty and filled
  heap pages and FSM pages at page 1 and at the last FSM page of the page-number range, all changes
  within a word, all stray bytes. `StoredIsReadBack`, `LoadsOnlyWhatWasStored`, `AcceptedIsCanonical`.
  The two machines share no state and are explored one beside the other, not as a product. The
  scale is small where only the arithmetic of offsets matters: every width is a parameter, and each
  boundary (last bit of the bitmap, last byte of a tuple, largest offset) is met. Deadlock is not
  checked: a damaged tuple or page is left alone.
- **FsmPage** (`MCFsmPage`): every page number of a four-bit range and every image of a page with
  four entries. `RangeMatchesMapping`, `EveryHeapPageHasAnEntry`. Deadlock is not
  checked: a refused call is not a step, and a frame with an unusable page number refuses all of them.

The bounds `MaxCalls`, `MaxVersion`, `MaxPageNo` and `MaxPages` are guards of the models. A wait in
the pool involves at most one thread that waits, one that holds what it waits for, and one that
interferes, which is why three threads are used; the number of calls allows each of them one call and
one or two of them another. The pool's runs have one file, so that two pages share its fdatasync.
Only FlushAll and Shutdown look beyond one file; Lifecycle with `Files = {1, 2}`, both registered, passes
as well, with `MaxPageNo = 1` or with three calls, and is not kept as a run of its own.

### Findings

Three runs state what a comment or a document says, and TLC refutes it.

- **FlushAll**, `FlushAllIsStable`. `buffer_pool.h` says that FlushPage, FlushFile and FlushAll repeat
  "copied writeback until the then-current generation is stably clean". FlushMatching collects only
  RESIDENT pages: a dirty page that an eviction is writing at that moment is skipped, and the flush
  reports success before it is stable. FlushPage waits for such a page (`FlushPageIsStable` passes).
- **StaleBound**, `BoundStartsAtPageCount`. `buffer_pool.h` says that the published bound "starts at the
  file's current page count". RegisterFile reads the count before it locks; between the two another
  thread can register the file, create a page and retire the file. The next NewPage then takes that page
  for the tail of a failed creation and initialises it again over its contents.
- **TwoRetirers**, `RetiresBehindGate`. Two RetireFile calls wait for one file to drain, and the second to
  wake does not look at the file again. If the first has closed it, `files_.at(file_id)` throws out of
  a function that reports errors as a status: that is the shortest trace. If the file has been
  registered again meanwhile, the second finds it ACTIVE, and drains, flushes and closes it
  without the gate: a fetch fails its load because of the retirement, one retirer sleeps,
  the other closes, a client registers the file, the sleeper wakes. `docs/PROJECT_STATE.md` describes
  retirement as `ACTIVE -> RETIRING -> CLOSED`. With one frame and one page the same waits go on to a
  file that is closed under a pin, against `PinnedStaysBound`: the retirer without a gate flushes a
  dirty page, and while that write is under way another thread pins it.

Met while modelling, without a run of their own:

- `docs/PROJECT_STATE.md` says that the page of a failed NewPage "stays outside the published bound". It
  does (`PublishedIsInitialised`, run Lifecycle) until the file is retired and registered again: the
  whole length then becomes the bound, that page included, and a fetch of it fails validation.
  `PublishedIsInitialised` is about one registration, and no property covers the second one.
- `docs/architecture/04-persistent-storage-foundations.md` §4.14.2 wants the format version read
  before any rule of version 1, its checksum included, is applied. DecodeFileSuperblock and
  ValidateLoadedPage verify the checksum first: a superblock of a later version with another checksum is
  reported as CHECKSUM_MISMATCH, not as unsupported. Either way it is refused, which is what the models
  tell apart.
- DecodeTupleValue hands on the code of a failed validation without its column, for which
  TupleCodecFailure has a field. The bytes beneath a NULL that is no VARCHAR are not read;
  `CanonicalForm` leaves them out, as the format does.

The passing runs stay clear of what the findings show. Lifecycle has two retirers, so that the gate and
the refinement are checked in spite of the exception, but nobody registers the file again. Waiting
has one retirer, which is also the one who registers: a thread that threw never returns, and a
registration beside another one publishes a stale bound.

## Fairness

`FairSpec` is weak fairness of `Step(t)` for each thread: a thread whose next step stays possible
takes it. It covers the operating system's scheduling, a mutex that is eventually granted, I/O calls
that return, and clients that give back their guards. A sleeping thread has no step until a
notification reaches it, so a lost wakeup shows as a call that does not return. Making calls is not
fair: clients may stop. Latches need only weak fairness here because the number of calls is
bounded, so readers cannot starve a writer for ever; whether the shared mutex of the standard library is
fair to writers is outside the code. What the models assume of fdatasync is what chapter 4 of the
architecture assumes: success makes all earlier writes of that file stable; after a failure nothing is
known, and a later success covers the same pages again.

## Proofs

The theorems hold for every value of the constants, under the named assumptions of the modules.
`MC*` instances satisfy those assumptions: TLC evaluates them in every run.

### The pool

- **`PoolOwnership_proofs!TypeCorrect`**: `Spec => []TypeOK`, for any threads, frames, files, pages, menus and
  faults (`ConstantsAssumption`). `TypeOK` is not inductive: that LoadPage leaves a well-typed page table
  depends on the thread being in a fetch, of a page, with a frame. `TInv` adds `ThreadOK`, what a thread
  knows about its locals at each label, and that no file is longer than the disk. There is
  one lemma for each operation, resting on lemmas for the operators they share
  (`GrantedOK`, `RefusedOK`, `AcquireFrameOK`, `FlushPagesOK`, `CloseFileOK`, `DrainOK`).
- **`PoolOwnership_proofs`** proves `FramesConserved` (`NoFrameLeaks`), `PinsAccounted` (`NoPinLeaks`),
  `PinnedStaysBound` (`GuardsStayValid`) and `ClosedOwnsNothing` (`RetirementIsComplete`).
  None is inductive: a frame stays conserved only if the
  thread that finishes an I/O call still owns what it owned when it let go of the mutex. `PoolInv`
  is `TInv`, three facts about control (`CallsOK`, `GatesHold`) and `OwnershipInv`, which says who owns what at which
  label: `ThreadsOwn`, the frame, entry, claim and turn a thread between two
  critical sections holds; `ThreadsApart`, that no two threads hold the same one; `FramesBound`,
  `EntriesBound`, that frames and entries name each other; `MappedBelow`, that only the page being
  created lies beyond the published bound; `Pins`, that every pin and every claim has its thread; and `ClosesDrained`,
  that what RetireFile found drained stays so, but for its own flush, until it closes the file.
- The four hold under **`CoordinatedClients`**: either at most one thread retires files, or
  nobody registers files after the constructor. Without it they are false; that is the finding
  of the run TwoRetirers. All other menus of the runs satisfy it. With a single
  retirer the gate itself holds (`OneRetirerKeepsItsGate`: `RetiresBehindGate`, which TwoRetirers refutes for two).
- **`BufferPool_proofs!NoWakeupIsLost`**: `NoLostWakeup`. `WaitInv` adds that a sleeping flush
  waits for a page. The argument is on steps: a step notifies, or leaves alone all that a waiter looks at
  (`Lingers`), and then the condition of every sleeper stands (`WaitersKept`).
- **`BufferPool_proofs!NothingPassesTheGate`**: the action property `RetirementGate`. No invariant beyond
  `PoolInv` is needed; each action is shown to gain no pin and no resident page (`GateKept`) on a file that
  is not ACTIVE. The load that finishes behind the gate is the interesting case: it fails its joiners.
- **`BufferPool_proofs`** proves the rest. `Contents` says what frames, images and disk have to do
  with each other: a clean frame holds what the file holds; the image a thread carries is the frame's published
  contents at the generation it copied, and is on the disk as far as the thread has come; nobody edits beside a
  reader; no bound exceeds the file. `Effect(t)` lists what a step may do to a frame (keep, fill, open, change,
  clean or leave, `FrameMoves`), to a page of the disk (`DiskMoves`), to a bound, a latch and an image.
  `StepEffect` shows, action by action, that every step has such an effect, and `ContentsStep` that an effect
  preserves `Contents`. What follows is argued about effects and no longer about actions.
  - `DirtyUntilStable`: `CleanOnlyWhenStable`. The cases are a frame that is cleaned and one that leaves.
  - `DiskStaysBehind` and `UpdatesAreKept`: `DiskNeverAhead` and `NoLostUpdate`. `DiskBehind` adds that an image on its
    way is no older than the disk, and that beyond the bound and the end of a file there are only blank pages.
  - `PoolIsAStore`: `ImplementsPageStore`, the refinement. `TasksOK` adds which threads have asked for a discard
    (`doomed`); `MemoryImplements` and `DiskImplements` map each effect to Publish, Settle, Persist, Ask,
    Discard or a stutter of `PageStore`.
  - `FlushedPagesAreStable`: `FlushPageIsStable`. `GoalsOK` adds that contents as new as the ones FlushPage
    was asked for stay stable or known as dirty (`GoalHeld`), and that the call has the page on its list until
    it has failed.
  - `ShutdownLeavesNothing`: `ShutdownIsClean`. Once Shutdown has found the pool idle the pool is `Quiet` for good:
    no pin, load, eviction or creation can begin, and a writeback under way is one of a dirty page. So no page
    becomes dirty, and the list of the flush covers all that are (`Tracks`).
  - `PublishedPagesAreInitialised`: `PublishedIsInitialised`, inductive on top of `DiskBehind`.

What these ask of the clients (`Menu` says which thread may call what):

| Hypothesis | Says | Needed by | Because |
|---|---|---|---|
| `CoordinatedClients` | as above | `DirtyUntilStable`, `ShutdownLeavesNothing` | finding TwoRetirers |
| `OwnedFiles` | one thread registers and retires files, or none registers them after the constructor | `DiskStaysBehind`, `UpdatesAreKept`, `PoolIsAStore`, `FlushedPagesAreStable` | finding StaleBound: a stale bound lets NewPage initialise a page again |
| `NoDiscards` | nobody calls RetireFile with DISCARD | `FlushedPagesAreStable` | FlushPage finds nothing to do when its page has been discarded meanwhile |
| `NoRegistration` | no file is registered again | `PublishedPagesAreInitialised` | the page of a failed NewPage comes within the bound (below Findings) |

Every passing run that checks one of these properties has a menu that satisfies the hypothesis, except that
Lifecycle checks `CleanOnlyWhenStable` and `ImplementsPageStore` with two retirers, which both hypotheses allow as
nobody registers there. Fetch has no retirer; in Waiting one thread registers and retires.

### The other components

- **`ClockReplacer_proofs!FindsEveryVictim`** and **`GivesSecondChance`**: `FoundIffEligible` and
  `SecondChance` for any number of frames (`FrameCountAssumption`). The inductive invariant `ClockInv`
  adds `Scanned`, what a running call knows after each visit: where the hand is; that the eligible
  frames it has passed had their bits set at the start and have them no more; that the others
  still have the bits they had; and that no eligible frame was passed twice, so two rotations suffice.
- **`FreeSpaceMap_proofs`**, the index: `IndexConsistent` (`IndexAgrees`), `CandidateHasRoom` (`CandidateFits`) and
  `SearchOverlooksNothing` (`NothingOverlooked`), for any pages, any scale, any number of categories. `IndexInv`
  adds that the category of a tracked page is the one of its gap. Lemma `CategoryPromise` is the
  arithmetic of the safe direction: rounding free space down and the request up never errs on the unsafe
  side; `RoundingBound` is that of the other: a page that is passed over lacks less than one category and its rounding.
- **`FreeSpaceMap_proofs`**, the pages: `RangesAreExact` (`RangeMatchesMapping`) and `EntriesCoverHeap`
  (`EveryHeapPageHasAnEntry`) for every width of page numbers and every capacity. TLC checks a four-bit range;
  the proof is about the real one: no product or sum of the mapping wraps around unnoticed.
- **`PageFile_proofs`**: `NoRegistrationLeaks` (`RegistrationsOwned`), `OpenFilesAreGenuine`
  (`OpenIsGenuine`), `PromisesSurviveCrashes` (`PromisedIsDurable`) and `AllocationsNeverCollide`
  (`AllocationsUniqueContiguous`), for any paths, FileIds, objects, threads and file lengths, any failures and any
  number of crashes (`PageFileAssumption`). `FileInv` adds who
  registered each FileId, how far a Create has come and what it has on the disk by then (`CreateProgress`),
  that a page 0 with something in it lies within its file (`FilesSane`), and that the page count the holder of
  `extension_mutex_` has read, and the last page number handed out, are still the file's.

- **`HeapPage_proofs`**: all six properties of the run, and `CompactionMovesUp`, for every page size, slot size,
  number of slots, category count and every image whatever (`HeapAssumption` says only that images have the shape of decoded
  headers and slots). No state invariant beyond `TypeOK` is needed: the validator meets arbitrary bytes, so each
  theorem is about one step from any typed page, valid or not. The lemmas, in order:
  - elements sorted by the number of those before them stand in a sequence, and two overlapping ranges somewhere in it
    make two neighbours overlap (`OverlapCheckIsExact`);
  - the bounded walk visits a chain without repetition as long as it runs, so counting the steps finds a loop
    (`ChainCheckIsExact`);
  - the plan of a compaction moves each tuple up and into free bytes (`PlanFits`). Before each memmove, the tuples
    already moved are complete at their new place and the others untouched at their old one (`MovesAreExact`), which is
    why overlapping moves in this order destroy nothing (`TuplesAreStable`, `CompactionLeavesNoHole`);
  - `InsertedPage`, `MarkedPage` and `CompactedPage` say what each operation makes of a valid page
    (`MutationsKeepPagesValid`).

  Walks, plans and sequences of moves are recursive functions of a step number. Induction over that number is
  stated on sets (`InductionTo`), from the minimal-element theorem of `NatLessThanWellFounded`.
- **`Formats_proofs`**, about bytes. Its first part is the theory of `Encoding`: digits and numbers are inverse to
  each other, so are a table of fields and the bytes it covers, and the tables of the code tile their
  structures without gap or overlap. The theorems are about `ImageSpec`, the page images.
  - `ImageInvariant`: the place holds zeroes, or the page its owner wrote under a checksum that fits, or what a
    faulty writer left under one, or else a page that `ValidateLoadedPage` refuses.
  - `LoadsAreStores`: `LoadsOnlyWhatWasStored`. Shifting a CRC register can be undone when the polynomial has its
    top bit; two pages that differ within one word reach registers that differ after it, and equal bytes
    keep them different to the end. This is proved for the bit-by-bit CRC of the model, every page size and every word width.
  - `AnyAcceptedPageIsCanonical`: what the validator of a superblock, heap page or FSM page accepts, of arbitrary bytes, its encoder
    makes of the decoded fields. One lemma per validator: every byte of a structure lies in a field, and
    the validator pins each field it does not decode. `AcceptedAreCanonical` says the same of the stored page in every
    reachable state (`AcceptedIsCanonical`).
  - `StoredAreReadBack`: `StoredIsReadBack`. Layer upon layer (common header, own header, slots or entries,
    checksum) leaves the bytes of the others alone, and the validators see the fields that were encoded.

  Assumed: the widths of the integers fit each other (`EncodingAssumption`); a page is addressed by 16 bits and
  holds each header (`PageImageAssumption`, `GeometryAssumption`; PAGE_SIZE is 8192, and compile-time assertions tie the headers to it); what owners
  give to a page fits its fields (`ContentsAssumption`; C++ types see to it). `ChecksumAssumption` asks for a polynomial with its top bit,
  which 0x82F63B78 has, and that a page of zeroes does not carry its own checksum: CRC-32C of 8192
  zero bytes is 0x90444623.
- **`TupleCodec_proofs`**, about `Spec` of `TupleCodec`, the tuples; the run's specification moves one page and one tuple side by
  side. It rests on `TupleInvariance`: the layouts of the history are those that
  BuildTuplePhysicalLayout makes (`IsLayout`), and until its bytes are altered the tuple is what EncodeTuple made
  of the row kept in `source`.
  - `PlansMatch`: `PlanMatchesEncoding`. The invariant of the loop in EncodeTuple is `Filled`: after i columns the header stands, the bitmap
    marks the NULLs among them, their fields and payloads are written, and the fields of the rest are still zero; `ColumnStep` adds
    that the cursor is at the size that PlanTupleSize has added up for i columns. `NullStep`, `FixedStep` and `VarlenStep`, one for each
    way to write a column, preserve it.
  - `TuplesReadBack`: `RoundTrip`. A tuple with all its columns in place (`Complete`) passes each check of the validator,
    and every field decodes to the value that was written there.
  - `AnyAcceptedTupleIsCanonical`, and `AcceptedTuplesAreCanonical` for the stored tuple in every reachable
    state (`CanonicalForm`). The other direction, from arbitrary bytes: acceptance says that the
    decoded values are a row of the layout and that the expected offsets of the second pass are the sizes planned for
    that row. Then header, bitmap, fields and payloads are compared with the `Complete` tuple of the row, and the
    last lemma is that these areas leave no byte out.

  Assumed, beside `EncodingAssumption`: a tuple's size fits a descriptor field, and its header's
  size the field that repeats it (`SizeAssumption`, `HeaderAssumption`: at most 8192 in 32 bits, and 48 in 16); schema versions,
  metadata and values have the ranges of their C++ types, although a value may be of another type than its column
  (`CodecAssumption`). The module extends `Formats_proofs` for its lemmas on numbers and tables; the assumptions of
  `PageImage` come with it, but no proof about tuples rests on one of them.

### What is only model-checked

`EveryCallReturns` of the pool: liveness under fairness is out of the prover's reach, and so is ENABLED. The
statements of the three findings are false. All other properties of the passing runs are theorems.

## Not modelled

- Which of several defects a validator reports, and for which column or slot: the models tell
  accepted from refused.
- Functions no code of the repository calls: ClearNull, Page::ValidateHeader, the PageId and Rid codecs.
- Overflow of `size_t` in the tuple planner, which needs values larger than memory.
- `BufferPoolInspector` and the test observer: test access to the pool. The debug checksum of
  unreported edits, and moves of guard objects (`PageGuard` is modelled but for these).
- A kernel that reports a write-back error once and then takes the pages for clean: the architecture's
  contract excludes it; and fsync of directories.
- WAL, recovery, transactions, B+trees, catalog, SQL: not implemented.

## Plan

Done: the pool with its abstract specification, CLOCK, page files, heap pages, FSM pages and index,
tuples and page images. Proved: every property of the passing runs but liveness.

Next, in this order:

1. Weaker client hypotheses for the pool: `NoDiscards` per file instead of for all files.
2. The modules that do not exist yet in the code (WAL, recovery), when they do.
