# A verification model of the revoq journal

revoq is a shared-memory journal: one process appends frames to page files it
maps with `MAP_SHARED`, other processes map the same files and poll. There is
no lock and no message between them; a frame becomes visible when its length
is stored. This directory holds TLA+ modules that model that protocol from the
C++ source, TLC configurations that check small instances, and TLAPS proofs
for every instance.

## Inventory

| Component | State | Operations | Talks to |
|---|---|---|---|
| Layout (`JournalFrame.h`, `JournalPage.h`) | none | `alignUp`, `framePhysicalLength`, border, first frame | everything |
| Page files (`Page::load`, `MmapBuffer`, `listPageId`) | files, `PageHeader`, frame bytes | create, allocate, initialise, validate, list | writer, readers, warmers, through the file system |
| `JournalWriter` | page, frame address, sequence, page id | construct and resume, `openData`/`closeData`, `mark`, `writeBytes`, `rotatePage`, destroy | page files, PageWarmer, retire thread |
| `MultiWriterPolicy` | spin lock `writing_` | taken in `openData`, released in `closeData` | threads of the writing process |
| `PageWarmer` | ring of slots, claim states -1/-2/id | `getWarmedPage`, warm-up loop, clean-up | writer thread and warmer thread |
| `Journal` | page, frame pointer, retire queue, warmed mapping | `next`, `loadPage`, `seekToTime`, two background threads, shutdown | page files |
| `JournalReader` | joined journals, current index, heap | `join`, `disjoin`, `tryCurrentFrame`, `advance`, heap and linear merge | `Journal` |
| `TypedJournalDispatcher` | handler table | `on`, `onUnknown`, `clearHandlers`, `next`, `run`, `dispatchCurrent` | `JournalReader` |
| Python bindings (`revoq_py.cpp`) | none of their own | `read` with a timeout, `__next__`, `next`, `write` | `JournalReader`, `JournalWriter`, the interpreter lock |
| `ScopedRealtimePriority`, `ScopedCpuPin` | what each object saved | set, restore | the thread's policy and affinity |
| clocks, hashing, strings | none of the protocol's | | |

What is hard: the only synchronisation is the order of stores into shared
memory; a crash may fall between any two of them and its successor has to
rebuild the writer's state from what is in the files; page files are created
step by step while other processes may map them; reader and writer compute
frame positions independently; page rotation hands readers from one file to
the next. `PROJECT.json` lists each hazard at its line.

What makes the parts correct:

- layout: strides cover the frame, the sentinel always fits, frames never overlap;
- writer: committed frames are never changed, sequence numbers count them
  without a gap across rotations and restarts, the sentinel follows the next
  page's initialisation;
- reader: receives exactly the committed frames, in order, none torn, skipped
  or repeated, and eventually every one of them;
- page loader: whatever stage of its creation a page was left in, the next
  master finishes it, and no loader wipes what the writer stored;
- clients: a dispatcher and the threads of a Python program receive every frame
  once and in order, though handlers throw and reads time out;
- scoped attributes: a thread gets back what it had;
- warmer, background threads, lock: a mapping has one owner, a lock is held by
  its owner only, shutdown terminates;
- merge and seek: the frame handed out is the oldest available; the page found
  is the last that begins no later than the time asked for.

## Modules

| Module | Models |
|---|---|
| `FrameLayout` | the geometry of a page, with the page size as a constant |
| `JournalPages` | the page files: how far each was created, `last_frame_position`, the frame at each slot |
| `JournalWriter` | `JournalWriter<SingleWriterPolicy>`, the stores it makes to the pages |
| `JournalReader` | readers of one journal: `JournalReader` with one joined `Journal` |
| `AppendLog` | the abstract specification: a log that grows at its end and readers that each receive it from the start |
| `JournalSystem` | writer and readers over the same pages; the properties |
| `JournalInvariant` | the inductive invariant |
| `MCJournal` | instances of `JournalSystem` for TLC |
| `ReaderThreads`, `ReaderThreadsProofs` | `Journal` with its retire thread and its warmer thread: the hand-over of mappings, shutdown |
| `PageWarmer`, `PageWarmerProofs` | the writer's ring of warmed pages between `warmupLoop` and `rotatePage` |
| `MergeReader`, `MergeReaderProofs` | `JournalReader` over several journals: linear scan and heap |
| `SeekToTime`, `SeekToTimeProofs` | `Page::findPageId` and `Journal::seekToTime` while the writer appends |
| `WriterLock`, `ThreadProofs` | `MultiWriterPolicy`: threads that share a writer behind `writing_`, and the proof that they never share a frame |
| `PageLoader`, `PageLoaderProofs` | several processes that load one page file, call by call, with deaths and restarts |
| `FrameStream` | what a client of `JournalReader` sees of a journal: the committed frames |
| `TypedDispatch` | `TypedJournalDispatcher` over that |
| `PythonReader` | threads of a Python interpreter over that |
| `ReaderClients`, `ReaderClientsProofs`, `MCClients` | both together, their refinement of `AppendLog`, and an instance |
| `ThreadScopes`, `ThreadProofs` | nested scoped priorities and CPU pins of one thread |
| `JournalProofs` | the proofs about `JournalSystem`: layout arithmetic; types; the stores that commit a frame; the other steps of the writer; the readers; the theorems |

### State and actions

A page is a function from slots (offsets that are multiples of 64) to frames
`[length, msg_type, seq, data]`. Payloads are model values; what matters of
their bytes is that a payload larger than its first slot covers the slots
behind it, and that those bytes may look like a frame header (`FrameLike`).
`file[p]` tells how far the file was created: absent, empty (`open`), sized
(`fallocate`), ready (header initialised).

Every store that another process can observe is a step: the header fields, the
payload, the length, `last_frame_position`, the same for the sentinel, and the
three stages of page creation. What lies between is private to the writer's
thread and is merged. `wpc` says which store comes next:

| `wpc` | Code | Actions |
|---|---|---|
| `down` | no writer object | `Construct` |
| `find` | `findLastWrittenPage`, one page per step | `FindUnready`, `FindReady`, `FindFails`, `FindNone` |
| `scan` | `findLastSequenceNumber`, one frame per step | `ScanFrame`, `ScanEnd` |
| `load` | `Page::load(is_writing)` for `loadInitialPage` and `rotatePage` | `LoadPage`, `LoadFails`, `LoadedInitial`, `SentinelHeader` |
| `sentinelLength`, `sentinelPos` | the rest of `rotatePage` | `SentinelLength`, `SentinelPos` |
| `idle` | between calls | `openData`, `writeBytes`, `mark`, `Destroy` |
| `open`, `fill` | `openFrame`, the payload | `OpenFrame`, `FillPayload`, `Abandon` |
| `length`, `pos` | `closeFrame` | `StoreLength`, `SetLastFramePosition`, `Abandon` |
| `fault` | killed by a signal | |

`Crash` may interrupt any of them; the files keep what was stored. A reader
loads the length (`LoadLength`), reads the rest (`Dispatch`), and moves on by a
stride (`MoveToNext`) or to the next page (`LoadNextPage`); other steps may
fall between any two. The release store and acquire load of the length order
the other accesses around it, so interleaving the accesses is an adequate
memory model for this protocol: every other location is written before the
store and read after the load.

`log` and `delivered` are history variables: what was committed and what each
reader was given. `log` is appended in the step that stores a length.

The operators named as slips (`ResumeInto`, `OpenFrameCommitted`,
`StrideOfPayloadAlone` and so on) are faulty variants of the definition that
follows each of them. The specification does not use them; substituting one
must break the property it is aimed at, which shows that the property says
something about the code.

### The modules around the core

Each of these has its own variables and takes from the core only what it needs
of it.

- `ReaderThreads`: the reader's thread, `retireLoop` and `readerWarmerLoop`.
  Mappings are numbered addresses, the two condition variables are modelled
  with lost and spurious wake-ups, and a step is what happens under one mutex
  or between two of them.
- `PageWarmer`: a slot's `page_id` is the only synchronisation between the two
  threads; `address` and `is_owned` are plain fields, so loading and storing
  them are steps of their own. A claim empties the slot before it loads the
  address. What keeps the warmer from using the slot again in between is the
  constructor's cut of the distance to half of the ring: the warmer's other
  pages never lead it back to that slot before the writer announces its new
  page. With the whole ring as distance `WarmerOneOwner` fails; half of it is
  enough only while no warm-up fails (`HalfIsEnough`; what happens otherwise is in
  the table of disagreements below, and `Roomy` is the general condition). The
  writer's own loads may throw too (`LoadFailures`): the id stays incremented,
  `onPage` is the page it goes on with, and the next rotation asks for the page
  after. A claimed page without a header makes `loadFromAddress` throw, and
  `Validate` then loses the mapping, as the raw local of `rotatePage` does. The warmer may
  prepare a page that the writer took a moment ago once more; that is harmless
  for pages from the ring (`RingPagesKept`) and destroys the frames of a page
  the writer loaded itself (`FramesKept` fails, see below). `background_threads` is FALSE: the
  retire thread is the one `ReaderThreads` models.
- `MergeReader`: a journal is the sequence of its frames' times, of which the
  reader has passed `pos`. Writers commit between any two journals the scan
  looks at. Which of several equal entries is on top of the heap is left open,
  because the standard library does.
- `SeekToTime`: pages are sequences of times with a sentinel. `Liberties` lifts
  what the search relies on without saying so: pages that do not share a time,
  times taken from the clock the sentinels use, and no seek back on the page
  the reader is on. Each of them alone makes `SeekMissesNothing` fail.
- `WriterLock`: a thread is in `openData`/`closeData` or in `writeBytes` (`mark`
  is the same without a payload). Frames are slots that record who opened them
  and whose payload they hold. `lost` records that `rotatePage` threw out of
  `openData`, which has no guard and keeps `writing_`.
- `PageLoader`: one page file and the processes that load it. Each system call
  and each store into the header that another process can see is a step, and a
  process may die after any of them (`Restart`). Of the page the model has the
  file's size, whether the header's fields are there, `last_frame_position`, and
  which committed frames are still in it. `file_exists` and `st_size` are
  sampled in `Stat` and used later, as in the code. `EarlyMasters` and `InOrder`
  say what the code leaves to its users and to the compiler: that a prefaulting
  reader comes after the writer has the page ready, and that the plain stores
  into the header are seen in their order.
- `FrameStream`, `TypedDispatch`, `PythonReader`: `JournalSystem` shows that a
  reader receives the abstract log, so the clients are modelled over a log and
  not over pages. A dispatcher's handler returns, throws or is refused its
  payload; only after a return does the reader advance. `__next__`, `read(0)`,
  `current_frame` and `next` are one step each under the interpreter lock (the last
  two are not one step together: a thread among the `Peekers` holds its snapshot in
  between). `read` with a timeout gives the lock up and polls: the frame's address
  and the length behind it are loaded in two steps. What the test behind the loop found and how many frames there were
  when the loop gave up are remembered until the lock is taken back.
- `ThreadScopes`: a stack of live objects, what each saved and whether its
  constructor took effect, and direct calls at any time. `outside` records what
  the thread has outside of all objects in effect of a kind: a direct call below
  none, or only below objects whose constructors failed, is not undone by any
  destructor. `spoilt` records the kinds whose outermost object could not save
  (a failed getter, a policy no call can set again) or restore: nothing behind it
  makes that good. What inner objects miss is made good by outer ones.

### Constants that switch behaviour on

`Faults` selects what may go wrong. `stop_any` lets the writer end at any step.
`stop` lets it end only when no page looks empty to the resume search while
something was stored in it; the difference between the two is the defect that
the run `resume_overwrites` exhibits, and `stop` makes it possible to check and
prove that resuming is right in all other cases. `abandon` is a frame that is
opened and never closed; `load_fails` an exception from `Page::load` in
`loadInitialPage` and `rotatePage`. `search_fails` is one in the resume search on
a page that holds no frame, `search_fails_any` on any page, and in
`findLastSequenceNumber`: the code catches both and goes on with the page below,
or with the sequence number 0.

## Runs

The runs of `MCJournal` use 256-byte pages: two or three slots for frames, so that a few
frames fill a page. Payloads of 32 and 33 bytes lie on the two sides of a
stride boundary. The bounds `MaxPages`, `MaxSeq` and `MaxSessions` are in the
guards and large enough for two rotations, or for a rotation, a crash and a
resume. `CHECK_DEADLOCK FALSE` because callers may stop writing, and because
the bounds end every behaviour.

| Run | Shows |
|---|---|
| `follow` | a reader joining at any moment, a writer that may end and its successor, two rotations: refinement of `AppendLog`, disjoint frames, no joined reader killed, every frame of the first writer delivered, and of its successor those that sentinels lead to |
| `resume` | crash or end, then resume with read-only scanning: nothing overwritten, no gap in the sequence, `last_frame_position` never ahead of the commits, `JournalInv` |
| `mishap` | abandoned frames, restarts and failing loads together, those of the resume search on pages without frames included |
| `threads` | a `Journal` with both background threads, pages created while it reads, destruction at any point: one owner per mapping, the right page, nothing outdated published, shutdown ends |
| `warmer` | a ring of five slots at a distance of two, warm-ups whose `open` fails, loads of `rotatePage` that throw: ownership, claimed pages, kept frames, shutdown |
| `merge` | join, disjoin, seek, change of mode: oldest first with the scan, no stale heap entries, everything handed out once the writers fall silent |
| `seek` | three pages of two frames: a seek passes over nothing it was asked for, and ends |
| `lock` | three threads, throwing callbacks and rotations: whole frames, the lock comes free on every exit but one |
| `loader` | a writer and a reader that prefault, a lazy reader and a warmer, failing calls, deaths at any call: frames and header kept, half-created files finished, `LoaderInv` |
| `clients` | a dispatcher with handlers that come, go and throw, two Python threads that share a reader and one that peeks or waits on its own: refinement of `AppendLog`, no None in place of a frame, reads end, the dispatcher drains the log |
| `scopes` | three nested objects of both kinds, failing constructors, getters and destructors, direct calls at any time: the thread gets back what it had outside, unless the outermost object failed |
| `resume_overwrites` | a disagreement between the code and its tests; see `findings` in `PROJECT.json` |

Why these bounds. Readers of a journal affect each other only through the empty
file that one leaves behind when it joins too early, and the safety of any
number of them is proved; one is enough for `Delivery`. The ring of the
code has 16 slots and a power of two only for the sake of masking an index. Five
slots are the fewest that `Roomy` admits for a distance of two when opens may
fail, so that slots are reused as early as the condition allows; with four the
run fails (see below), and for other rings, the code's included, the theorem
takes over. `LinearLimit` is 3 in the code; the run `merge` sets it
to 1, so that joins and disjoins of two journals cross it in both directions,
and times are distinct: with equal times the heap misbehaves (see below).
`MergeDelivers` promises delivery only once the writers fall silent
(`WritersFallSilent`), which a bound on the frames brings about by itself: while
one journal always has a next frame, `updateHeap` refills the heap from it and
never looks at a journal that was empty at the last rebuild
(`JournalReader.h:307`). Three pages are enough for the search to go both ways from its
middle, and for an empty prepared page behind the writer's. `loader` has one
process of every kind, because masters meet only in pairs and more of them are
covered by the proof. In `clients` two frames are enough for a frame to wait
behind one that throws or behind a sentinel, and for two threads to divide
frames between them; one tick separates before and after a deadline. In `scopes` priority 0 lies outside what
`setRealtimePriority` accepts and is that of every other policy, 99 at its edge;
a depth of three has an object between an outermost and an innermost one.

Further disagreements. Some constants let the model do what the code does
where a passing run has to exclude it. Each of these settings, in the
configuration named, makes TLC report the property as violated:

| Configuration | Setting | Property | Code |
|---|---|---|---|
| `MCFollow` | `Faults = {"load_fails"}` | `JoinedReadersSurvive` | `rotatePage` increments the page id before `Page::load` may throw; the retry skips an id and a reader follows the sentinel to a page that is not there (`JournalWriter.h:333`) |
| `MCMishap` | `search_fails_any` in place of `search_fails` | `CommittedFramesIntact`, `ImplementsAppendLog` | the resume search swallows a failing load: the writer starts again on a page with frames or goes on below it, and `findLastSequenceNumber` answers 0 (`JournalWriter.h:276`, `JournalWriter.h:325`) |
| `MCFollow` | `MsgTypes = {100, 65536}` | `Delivery` | the type is cut to sixteen bits; a frame of type 0 blocks every reader (`JournalWriter.h:415`) |
| `MCWarmer` | `WarmFailures = {"late"}` | `ClaimedPage`, `WarmerOneOwner` | a warm-up that failed after creating the file is repeated without the header; the writer's claim throws and its mapping is lost (`PageWarmer.h:212`, `JournalWriter.h:340`) |
| `MCSeek` | `Liberties = {"back"}` | `SeekMissesNothing` | `loadPage` does nothing on the current page, so a seek cannot go back on it (`Journal.h:321`) |
| `MCSeek` | `Liberties = {"tie"}` or `{"clock"}` | `SeekMissesNothing` | pages that share a time; sentinels stamped with another clock than the frames (`JournalPage.h:258`, `Journal.h:123`) |
| `MCMishap` | `FrameLike = {d1}` | `ImplementsAppendLog` | a frame opened, filled and not closed leaves payload bytes behind a shorter one written in its place; readers take them for a frame (`JournalWriter.h:427`; `docs/memory_model.md:9`: "The reader reads metadata and payload only after the frame is committed.") |
| `MCWarmer` | `RingSize = 4` | `WarmerOneOwner` | `getWarmedPage` empties the slot before it loads the address; after a failed warm-up pages are published out of order and again, the ring comes back to the slot in between, and the claimed mapping is overwritten: it is lost, and the writer gets one the ring still owns, of another page (`PageWarmer.h:93`; `PageWarmer.h:94`: "Mark as not owned by warmer anymore (caller owns it now)") |
| `MCWarmer` | `FramesKept` in place of `RingPagesKept` | `FramesKept` | the writer overtakes a warm-up of the same page, loads the page itself and commits; the warmer's zero-fill, decided before, wipes the frames (`PageWarmer.h:221`; `tests/test_journal_writer.cpp:925`: "Pre-warmed and fallback paths produce identical results") |
| `MCMerge` | `EqualTimes = TRUE`, `Times = {1}`, three sources | `HeapTracksFrames` | `rebuildHeap` takes the current journal and the heap's top from two heap constructions; with equal times they differ, the wrong entry is popped, and a frame may wait for ever (`JournalReader.h:277`; `JournalReader.h:312`: "Remove old entry for current journal because we just consumed the") |
| `MCLoader` | `EarlyMasters = TRUE` | `PageKept`, `MastersGetThrough` | `file_exists` is sampled before `open`; a reader that prefaults before the page is ready zeroes it or blanks its header under the writer (`MmapBuffer.cpp:145`, `JournalPage.h:140`) |
| `MCLoader` | `InOrder = FALSE` | `MastersGetThrough` | the fence comes after all of the header's stores; `last_frame_position` may be seen first, and a process that dies then leaves a page nobody can load (`JournalPage.h:152`: "Ensure header is visible before page is used (write barrier)") |
| `MCClients` | `written <- MCmisfits` | `DispatcherDrains` | a payload of another size than the struct throws at every call and blocks the dispatcher (`TypedJournalDispatcher.h:125`) |
| `MCClients` | `readerOf <- MCallShared` | `ReadReturnsFrameOrNone` | a polling `read` runs without the interpreter lock; another thread takes the frame (`StopIteration`) or has its page unmapped (`revoq_py.cpp:177`; `revoq_py.cpp:191`: "Return the next frame as a snapshot, or None.") |
| `MCClients` | `readerOf <- MCallShared`, `Retained = 5` | `NoneMeansNothing` | the same race: the test behind the loop finds nothing and None comes before the deadline (`revoq_py.cpp:183`) |
| `MCClients` | `Peekers = {1}` | `ClientsImplementLog` | `current_frame` and `next` are two calls; of two threads that share a reader both may take one frame and then pass over the next (`revoq_py.cpp:147`) |
| `MCLock` | `LockAlwaysComesFree` in place of `LockComesFree` | `LockAlwaysComesFree` | `openData` keeps `writing_` when `rotatePage` throws (`JournalWriter.h:125`) |

Two more are visible in the model without a property of their own: a reader
that joins before the page is ready creates the empty file and is killed, and
so is a writer with `prefault = false` that then searches the pages (`wpc =
"fault"`); and with the heap in use a journal that was empty when the heap was
built is passed over although its frame is older (`JournalReader.h:314`). That an
outermost scoped object leaves `SCHED_BATCH` or a failed getter's answer behind
(`RealtimePriority.h:204`, `CpuAffinity.h:134`) is recorded in `spoilt`.

Fairness. In `JournalSystem`, `FairSpec` assumes weak fairness of each reader's
own steps, because a reader polls in a loop on a thread of its own. Nothing is
assumed of the writer: callers may stop at any time, and the writer may crash,
and what was committed still has to arrive. `Delivery` promises every frame of
the first writer and of later ones those that sentinels lead to (`Reachable`).
A writer that ends writes no sentinel and its successor starts on the next
page, so a reader that reads from the beginning never gets past the page on
which a writer ended, joined again or not; only a join or seek with a time at
or after the first frame of the successor's page reaches what follows.
In `ReaderThreads` and `PageWarmer` every thread is weakly fair, as the operating
system schedules it (in `PageWarmer` of the writer only its destructor). In
`MergeReader` the caller polls for ever and does not refuse the same frame for
ever (strong fairness of `Advance`: a handler that throws may do so any number
of times, not always). In `SeekToTime` the reader's thread runs. In
`ReaderClients` the caller of `run` comes back, handlers do not throw for ever
on one frame (strong fairness of their return inside `next` or `run`), time
passes, and the operating system runs the polling threads; nobody is made to
write or to read. In
`WriterLock` a thread that has the lock goes on; a spinning thread may never
win the exchange, so no thread is promised the lock.

## Proofs

Assumptions: `PageSizeAssumption` (whole alignment units, room for one frame),
`PagesAssumption`, `WriterAssumption`, and `FitsAssumption` (every payload fits
into an empty page, which `openFrame` does not check).

- `TypeCorrect`: `Spec => []TypeOK` for every page size, every set of readers,
  payloads and types, and every set of faults. Its substance is that
  `current_frame_address_` is always a slot at or below the border, which
  `rotatePage` asserts before it writes the sentinel. It rests on `PcInv` (what
  the program counter says of the other variables; after `openFrame`'s test the
  frame fits) and on the arithmetic lemmas at the head of `JournalProofs`.
- `JournalInvariant`: `Spec => []JournalInv` under `Disciplined`. That condition
  says `Faults \subseteq {"stop"}` (every opened frame is closed, page loads
  succeed, a writer ends only where the resume scan is reliable) and that no
  message type becomes `PageEnd` when it is cut to sixteen bits. The violating
  run and the table above drop these one at a time, and each breaks a property.
  From it follow, under the same condition and for every value of the
  constants:
  - `FramesStay` (`CommittedFramesIntact`), `SequencesRise`
    (`SequencesContiguous`), `PositionsLag` (`LastPositionCommitted`),
    `FramesApart` (`FramesDisjoint`);
  - `ReadersSurvive` (`JoinedReadersSurvive`, an action property);
  - `JournalImplementsLog`: `Spec => Log!Spec`. `StoreLength` and
    `SentinelLength` are `Publish`, `Dispatch(r)` is `Deliver(r)`, all other
    steps leave `log` and `delivered` alone.

Why the invariant needs its parts. None of the properties is inductive alone.
That committed frames stay intact depends on where the writer stands: at the
frontier, past the end of every committed frame (`PosInv`, `BeforeFrontier`),
and on the order of the log (`LogInv`). That a reader which sees a length other
than 0 sees the next frame needs that the slot after each committed frame
holds the following one or nothing (`MemInv`, `PolledFrame`), which in turn
needs that the slots ahead of the writer are still empty although payloads
have covered others (`ClearInv`). That a resumed writer continues the numbering
needs that the scan walks the committed frames of the last written page and
stops at the last of them (`ScanInv`, `ScanSees`, `ScanEndsAtLast`), and that
`last_frame_position` points the search to that page (`LastInv`). That a
sentinel leads to a page that exists needs `FileInv`. `JournalInv` is checked
with TLC in the run `resume` and proved step by step: one lemma per part and
per kind of step (`PosWriterStep`, `ClearWriterStep`, ..., `InvReaderStep`).

- `LockDiscipline` and `FramesWhole` (`ThreadProofs`): `Spec => []LockInv` and
  `Spec => []WholeFrames` of `WriterLock` for every number of threads and frames
  and whatever throws, from `LockAssumption` alone. `LockInv` is inductive: one holder, the frame under
  work is the holder's own and lies at the frontier (`OwnFrame`), and nothing
  from the frontier on is committed (`Frontier`), which is why a header that a
  throwing callback left behind is always the one the next holder overwrites.

- `LoaderInvariant` (`LoaderInv`), `LoadersKeepPage` (`PageKept`) and `HalfCreatedPages` (`MastersGetThrough`) in
  `PageLoaderProofs`, for any number of readers of each kind and any failing
  calls, under `Orderly` (no early prefaulting reader, header stores in order).
  The last two are not inductive. What a load may do later was decided by what it sampled
  earlier, so `LoaderInv` says what each sample still implies at each step:
  whoever is about to zero or initialise the page is the writer and
  `last_frame_position` is 0 (`WriterLoading`, `OthersLoading`), which is the
  last thing stored into a header (`HeaderWhole`), so that whoever found it set
  finds the rest (`Passed`).
- `ScopesRestore` (`ThreadProofs`): `ScopesSpec => []UnwindRestores` for any
  nesting, whatever fails and whenever attributes are set directly, without
  conditions. `ScopeInv` says of each kind that is not `spoilt` that the outermost
  object in effect has saved what the thread has outside and can set it, or that
  none is in effect and the thread has it.

- `MappingsHaveOneOwner` (`OneOwner`), `ReaderOnRightPage` (`RightPage`) and
  `WarmerPublishesLatest` (`PublishesLatest`) in `ReaderThreadsProofs`, without
  conditions, for any number of pages, addresses and retained pages. That an
  assignment never drops the last reference to a mapping depends on the stages of
  three threads: a local holds a mapping only in the stage that uses it
  (`LocalsInUse`). `OneOwner` counts; its inductive form `Owned` says instead that
  the members, the locals and the elements of the two containers are pairwise
  different, that what is held is mapped and that what is mapped is held.
  `Labels` records of which page each mapping is while it is passed on, and
  `Requests` that the warmer works on the last request unless a new one is
  pending, which is what the test before publication relies on.
- `SeekNeverMisses` (`SeekToTimeProofs`): `Spec => []SeekMissesNothing` for any number
  of pages and frames, with commits and rotations between any two steps, under
  `Liberties = {}`; the table above breaks it with each of them. `SeekInv` holds
  the journal's order (`PagesInOrder`, `TimesRise`: times rise from page to page,
  and a sentinel's lies between) and the search's soundness: the page chosen so
  far is the first or begins no later than the time sought (`SearchSound`), so
  that every page before it ends before that time. That remains true while the
  writer appends, because it only adds later times. The loops after the search
  keep `NothingPassed`: what was wanted at the beginning still lies ahead.
- `ClientsAreServed` (`ReaderClientsProofs`): `Spec => ClientsImplementLog`, the
  refinement of `AppendLog` by the dispatcher and the Python threads together,
  also where threads share readers, under `PeekersAlone`: a thread that calls
  `current_frame` and `next` shares its reader with no one. The mapping takes `done`
  and `got` for what was delivered, and `ServedInv` ties them to the positions:
  equal, except that `done` is one ahead between a handler's return and the
  advance; and a snapshot between the two calls is of the frame the reader is at
  (`HeldOK`). Returning handlers, snapshots that advance, and `next` after
  `current_frame` are `Deliver`.
- `NoneIsHonest` (`NoneMeansNothing`, an action property), under `PeekersAlone` and
  `OwnReaders`: a thread that polls shares its reader with no one either. `ReadsInv` says what a polling thread still knows of what it loaded
  before: its reader stands where it stood, so the page its pointer leads to is
  still mapped, and a frame found by the test is still there (`PollOK`).
- `ScanIsOldestFirst` (`ScanOldestFirst`, without conditions) and `HeapIsInStep`
  (`HeapTracksFrames`, when no two frames have the same time) in
  `MergeReaderProofs`. A scan that has looked at some of the journals has found
  every frame that was in them at its beginning (`ScanOK`), and no journal is
  joined twice (`JoinedOnce`). For the heap the invariant has to say that its
  bag is a set of journals' next frames and that the current journal's entry is
  among the oldest (`HeapOK`): `advance` pops the top in the belief that it is the
  current journal's entry, which only differing times (`TimesDiffer`) justify.
- `RingKeepsFrames` (`RingPagesKept`), `RingHandOver` (`WarmerOneOwner`) and
  `ClaimsRightPage` (`ClaimedPage`) in `PageWarmerProofs`, for every ring, distance,
  number of pages and interleaving of the two threads. The first needs no
  condition: whoever zeroes or initialises a page sampled the file as absent, and
  a page from the ring existed before the writer got it (`KeptInv`). The other two
  hang on `SlotLeftAlone`: while the writer holds a slot, emptied and not yet
  loaded from, the write index is not at it. Nothing in the code tests this; it
  follows by counting, with D for the distance. `Age` of a slot is the number of
  publications since its page p was put there, its own included. What can be
  published after p are pages less than D away from it that the writer may still
  ask for and that are not in the ring (`Holes`), each once, and pages the writer
  has meanwhile taken or passed, which the warmer repeats out of an old
  `current_page_`; of these each can be in the ring once and is then in the set
  `Spent`, of at most D pages. Hence age and holes together are at most `Turns` plus
  the size of `Spent` (`TurnsLeft`). Without failures the
  pages before p are there when p is published and `Turns` is D; a failed warm-up
  leaves up to D - 1 of them to be published after p, and
  `Turns` is 2D - 1. `Roomy` says `Turns + D <= RingSize`.
  `HalfIsEnough` derives it from the constructor's cut when nothing fails. With
  failures it asks for 3D - 1 <= RingSize: in the code's ring of 16 it holds for
  `warmup_pages` up to 5. `RingInv` is the inductive form of the count, and
  `OwnInv` that of `WarmerOneOwner`, with the same parts as `Owned` above.
  Both theorems exclude the late failures of the table above, after which a claimed
  page has no header and `rotatePage` loses its mapping; `ReadyInv` says that
  every page that can still be claimed has its header, so that `Validate` passes.
  Loads that throw in `rotatePage` itself are included.

Only model-checked: liveness (`Delivery`, `ShutdownEnds`, `WriterShutdownEnds`,
`MergeDelivers`, `SeekEnds`, `LockComesFree`, `ReadEnds`, `DispatcherDrains`),
which is beyond the prover, and the behaviour of the journal with abandoned
frames and failing loads.

## Plan

1. (done) layout, pages, single writer, readers of one journal, composition,
   abstract log, type theorem, inductive invariant.
2. (done) `ReaderThreads`, `PageWarmer`, `MergeReader`, `SeekToTime`, `WriterLock`,
   and the theorem about `WriterLock`.
3. (done) `PageLoader`, `TypedDispatch`, `PythonReader`, `ThreadScopes`, delivery
   across restarts, and the theorems about `PageLoader`, `ThreadScopes` and
   `LockInv`.
4. (done) theorems: `ReaderThreads`, `SeekToTime`, the refinement and the reads of
   `ReaderClients`, `MergeReader`, `LoaderInv`, `PageWarmer`.
5. Theorems: a weaker condition than `Disciplined` under which the journal's
   refinement still holds when loads fail or frames without frame-like payloads
   are abandoned, as the run `mishap` suggests.

Not modelled and not planned: clocks and time formatting (`TscTimer` is a
measuring tool of floating-point arithmetic that the journal does not use),
hashing, strings and paths, benchmarks, examples; of the bindings the making of
locations and the properties of a frame; locking memory and prefaulting the
stack, which change nothing the model has; `msync`. The order in which the
kernel writes dirty pages to disk is outside the model: the files survive a
crash of the process, not of the machine.
