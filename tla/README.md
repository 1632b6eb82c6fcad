# LTFSCopyGUI in TLA+

Specifications of LTFSCopyGUI (a Windows program that reads and writes LTFS
tapes), model-checked with TLC and, for nine components, proved with TLAPS.
Paths are relative to the repository. `FR/` stands for
`LTFSCopyGUIOxide/crates/fastreader/src/fast_reader/`, `SC/` for
`LTFSCopyGUIOxide/crates/schema/src/`, `VB/` for `LTFSCopyGUI/`.

## 1. The system

A tape drive must be fed without a pause, or it stops, rewinds and starts again.
Most of the hard code of this program exists for that: readers that run ahead of
the writer, on other threads and even in another process, through bounded buffers
that the writer reads in place.

```
 disk files ──> AsyncSequentialReader (large)  ─┐
                SmallFilePool        (small)  ─┴─> worker ─> ring of slots ─┐
                                                                            ├─> LTFSWriter ─> drive
 source tape ─> lfr_bridge_stream_tape_file ─> shared-memory ring, 2 processes ┘      ^
                (another process, named pipe for control)                             │
 disk files ──> FileDataProvider: producer, preloader ─> byte ring ──> write command ─┤
                (managed code, when the native reader is off)                         │
                                         every command and lease: SCSIDeviceLockManager
```

What the tape holds is described by an index, an XML document with an entry for
every file. Indexes have millions of entries, so a second native library keeps
them in backing files, joins several of them into one, and sorts and searches
them there.

```
 index documents ──> parser (one, or a thread per source) ──> store ──> tape order
                                                          (merge)  ├──> directory by name
                                                                   └──> search
```

### Inventory

| Component | Source | State it keeps | Operations | Interacts with |
|---|---|---|---|---|
| Ring and worker of the native reader | `FR/native_reader.rs`, `FR/core.rs` | slots, four counters, flags, error, hash results under one mutex; a condition variable; a cancel event | add, start, acquire, release, wait until buffered, cancel, destroy; worker, watchdog | readers below, writer above (C ABI, `VB/Services/RustFastReaderProvider.vb`) |
| Overlapped reader of large files | `FR/async_reader.rs`, loop in `native_reader.rs` | requests with buffers the kernel writes into, submit and consume offsets, the reader prepared for the next file | open, submit, reap, deliver, resume, drain, abandon | kernel, worker |
| Small-file pool | `FR/small_files.rs` | entries, queues per buffer class with generations, byte budget, open limit, operations in the kernel, what each open worker is calling | enqueue, open, submit, complete, demand (`wait_take`), release, retry, shutdown | kernel, worker, its own watchdog |
| Tape-to-tape bridge | `FR/bridge.rs`, `VB/Services/DirectTapeCopyBridge.vb` | header of atomics and slots in a shared mapping, two semaphores | acquire, publish, release, wait until buffered, cancel, error, complete | two processes |
| Direct-copy session | `VB/Services/DirectTapeCopyProtocol.vb`, `VB/Forms/LTFSWriter.vb` | a named pipe, a token source, listener and watcher tasks | offer, manifest, start, complete, error, cancel, dispose | bridge |
| Source tape reader | `FR/bridge.rs` | extents, head position, retry count, partial slot | validate, locate, read, retry, prompt, repack | drive, bridge |
| SCSI device lock | `VB/Core/SCSIDeviceLockManager.vb` | a monitor per process, two named mutexes per device, writer leases each with a thread | enter, leave, acquire lease, dispose | every SCSI command of every running instance |
| Worker watchdog | `FR/native_reader.rs` | last progress, operation in progress | look, cancel synchronous call, fail | worker |
| Media detection, hashing | `FR/media.rs`, `FR/hash.rs` | none; hash jobs | choose depths; hash a file | worker |
| Managed provider | `VB/Core/FileDataProvider.vb`, `VB/Core/SpscRingBuffer.vb` | two positions, two auto-reset events, a cache of preloaded files and its queue, the list's version | produce, preload, write, read, complete, cancel | writer, when the native reader is off |
| Writer | `VB/Forms/LTFSWriter.vb` | write list and its plan of duplicates, a write task, finished files, index, tape position, buffer waits | write file, reuse a duplicate's extent, commit, checkpoint, stop, retry, eject | everything above |
| Index schema engine | `SC/lib.rs`, `SC/file_parser.rs`, `SC/ffi.rs` | backing files of file records, directory headers and index entries linked into chains; during a merge a queue of sources, worker threads, a channel, temporary files; during a sort a chunk, run files, a heap | parse, merge (parse sources, append, rebase, normalise), tape order, directory sort, search, serialise | `VB/Schema.vb` over FFI |
| The rest | `VB/Core/TapeUtils.vb`, `TapeImage.vb`, services, forms, `LTFSCopyGUI.Native`, `LtfsCommand`, installer, `packages` | — | SCSI commands, user interface, adapters | — |

### What is hard, and what makes it correct

* **Ring.** Five kinds of threads share one condition variable; the writer reads a
  slot after the lock is gone; the refill target is bytes, the room is slots.
  Correct: every file's bytes in order, gapless, followed by its end-of-file mark
  once its hashes are in; a borrowed slot does not change; nobody sleeps although
  he could go; the stream and the destruction end.
* **Overlapped reads.** Completions out of order, a kernel that may never
  complete, retries that resume in the middle, a look-ahead reader. Correct: no
  buffer is freed while the kernel owns it; delivery is in order over any number
  of retries; the job ends.
* **Small files.** Look-ahead competes with the one file the writer needs for open
  slots and bytes; queue entries go stale; a call may hang in a file-system
  driver. Correct: reservations add up, the needed file always fits, it is
  delivered or fails; operations outlive the kernel's use of them.
* **Bridge.** No lock across the two processes; either may die or cancel at any
  instruction. Correct: permits and counters are conserved, the same stream as
  the ring delivers, both sides stop.
* **Tape reader.** Head position after a failure, records shorter than the block,
  extents in any order and offset. Correct: exactly the file's bytes.
* **Device lock.** Several processes, leases that belong to threads, timeouts
  between two locks, killed processes. Correct: one command at a time, only the
  reserving process's while the drive is reserved; nothing stays locked.
* **Write command.** Nothing frames the bytes in the managed ring: a file too many
  or a byte too few there shifts every later file. The blocks of a large file are
  written by tasks while the thread reads on; a stop, an overflow, a failed block or
  the end of the source may come between any two of them; what is finished goes to
  the index in batches. Correct: each block where its file's extent says; only the
  file a stop falls in is cut; an index on the tape lists all that precedes it; the
  command ends.
* **Index.** Chains are changed in place while they are walked; a merge moves
  everything of a source by offsets; directories of one name repeat within a
  source and across sources; the search resumes at an entry inside a directory
  and wraps; sources are parsed on threads, any of which may fail. Correct: the
  store reads back as exactly the tree of its documents, or their union by path;
  nothing is lost, duplicated or left behind; the orders are stable.

`PROJECT.json` lists the hazards one by one, at their lines.

## 2. The modules

| Module | Models | Checked by | Proved in |
|---|---|---|---|
| `FileStream` | abstract: what any reader promises the writer | refined by `NativeRing`, `TapeBridge`, `AsyncReader` | |
| `NativeRing` | ring, worker, watchdog's effects, C ABI, cancel, destroy | `ring` | `NativeRing_proofs` |
| `SmallPool` | scheduler, budget, demand | `pool` | `SmallPool_proofs` |
| `SmallPoolIo` | calls, kernel, completion thread, call watchdog, shutdown | `poolio_ends`, `poolio_wedged` | `SmallPool_proofs` |
| `SmallFileState` | the two flags both models of the pool are about | with the two | |
| `TapeBridge` | shared-memory ring, pipe, both processes | `bridge` | `TapeBridge_proofs` |
| `TapeFile` | extents, LOCATE/READ, retries, repacking | `tapefile` | `TapeBridge_proofs` |
| `AsyncReader` | overlapped queue, retries, look-ahead, drain | `async` | `AsyncReader_proofs` |
| `ExclusiveDevice` | abstract: a drive several programs share | refined by `DeviceLock` | |
| `DeviceLock` | monitor, gates, leases, process death | `devlock` | `DeviceLock_proofs` |
| `SpscRing` | the managed provider's byte ring | `writer`, `writer_cut` | `WriteLoop_proofs` |
| `FileProvider` | producer, preloader with cache and enumerator, completion | `writer`, `writer_cut` | `WriteLoop_proofs` |
| `WriteLoop` | the write command: plan, read loop, write tasks, drive errors, overflow, stop, commit, checkpoint, clean-up | `writer`, `writer_cut` | `WriteLoop_proofs` |
| `IndexStore` | backing files, records, chains, their operations | with the next | `IndexForest_proofs` |
| `IndexParser` | recursive descent over the events of a document, whole or as a merge source | `index`, `index_rootempty` | `IndexForest_proofs` |
| `IndexMerge` | the two calls that build a store: queue, workers, channel, append and rebase, normalisation, clean-up | `index`, `index_rootempty` | `IndexMerge_proofs` |
| `IndexQuery` | external sorts and the search, and what the application does with a sorted directory | `index`, `index_rootempty` | `IndexForest_proofs`, `IndexMerge_proofs` (the directory sort) |
| `IndexSort` | abstract: the order by name as the place every child has among the others; what a sort may change | `index` | `IndexMerge_proofs` |
| `IndexChains` | which documents are indexes at all, the chains followed from the root, and what holds them together | `index`, `index_rootempty` | `IndexMerge_proofs` |
| `IndexTree`, `IndexAnswers` | abstract: the tree a document describes, the union of trees by path; the orders and the next match | compared with the other index modules by `index` | |

`MC*` modules extend the module of that name and give its constants small values
(`MCIndex` those of all index modules).
`PROJECT.json` maps each definition to the lines it translates.

**Grain of atomicity.** In `NativeRing` and `SmallPool` a step is one critical
section of the mutex, which is exact because all of the state is under it; what a
thread does outside (reads, hashes, the writer's use of a slot) is visible only
through its next critical section, except the borrowed slot, which is why
`BorrowedSlotStable` is a property. A wait on the condition variable is two facts:
the thread is in `asleep`, and it goes on only when a `notify_all` (or a timeout)
takes it out. In `SmallPoolIo` a step is one acquisition of a mutex or the entry
into or return from one system call. In `TapeBridge` a step is one access to an
atomic, a semaphore or the pipe. In `DeviceLock` a step is one acquisition or release
of a monitor, mutex or event. In `FileProvider` and
`WriteLoop` a step is one access to a position, a flag or the cache that another thread
uses, or one block to the drive: the copy into a segment and the advance of the position
are two steps, the question whether a file is open and whether the producer is done
are two. In `IndexMerge` a step of a worker is one operation
on the queue or the channel or the parse of one source, which shares nothing with
others; everything else of the index runs on the caller's thread, in steps of one
directory or one entry.

**NativeRing.** `slots`, `write_index`, `read_index`, `occupied_slots`,
`buffered_bytes`, `done`, `cancelled`, `error`, `results` are `NativeState`;
`worker`, `watchdog`, `consumer`, `control` are program counters. `PublishBatch`
is one turn of `native_publish_batch`: it fills as many slots as are free and the
chunk needs, and publishes them together. `AcquireSlot`, `AcquireStops`,
`AcquireWaits` are the outcomes of one turn of the loop in `lfr_acquire_slot`;
`RefillReturns` and `RefillWaits` those of `lfr_wait_until_buffered`; `ReleaseSlot`
is `lfr_release_slot`, for the held token and for any other. The bytes in
a slot are represented by which piece of which file they are.

**SmallPool.** One queue per buffer class; an item carries the generation that its
entry must still have to count. `Candidates` and `Fits` are the scan over the
queue heads, with the budget less the reserve of one demanded file for
look-ahead. `Demand`, `WaitTake`, `WaitEnds` and `RetryOrEnd` are `wait_take`.

**SmallPoolIo.** Each file has an `entry`, its `operation` (map under the operations
mutex), its `memory` and what the `kernel` does with it. `CallElapses` and
`OperationElapses` stand for a deadline passing. Calls in `WedgeAt` may not return
by themselves: `"wedged"` ones return when cancelled, `"dead"` ones never.

**TapeBridge.** `source`, `target`, `listener`, `watcher` are the four threads that
matter, two per process. `empty` and `full` are the semaphores. Death sets a
process's threads to a final state and breaks the pipe; shared memory stays as it is.

**TapeFile.** The data is which record a byte was read from and its index there,
so "the right bytes" can be said without bytes. Validation is checked against an
independent definition of a covering extent list (`Covers`). `Sorted` says only that the
list is in the order of the offsets, not how a sort finds it; `Publish` is
`bridge_publish`, whose waiting is `TapeBridge`'s. The reader takes what a record
has and goes on with the next block, so a record shorter than a block in the *middle* of
an extent would be passed over without an error and the file would come out shifted.
LTFS writes only an extent's last record short; `OnTape` says so (every byte the index
names exists), and the content part of `SlotsExact` is about such files only. The slots'
offsets, sizes and end mark are right without it.

**AsyncReader.** A request is idle, in flight, or completed with an outcome; the
kernel's side of it is separate, and freed memory that the kernel still owns is
what `KernelBuffersAlive` excludes. The program's own consistency errors set
`check_fired`.

**DeviceLock.** A mutex whose owner died or ended is free (the code takes
`AbandonedMutexException` for an acquisition). An operation takes monitor,
process gate, and only probes the writer gate; a lease thread takes both gates
and keeps the writer gate.

**SpscRing, FileProvider.** `buffer`, `head`, `tail` are the array and the two
positions; a byte is the pair of its file and its place, so a byte under a wrong name
shows. A wait looks again every 50 ms whatever the events do, so it is a guard. A
preloader's `For Each` fails at the first step after the producer has set an
element of the list: `version` is that of the enumerator, `ListVersion` the list's.
Files in `Faulty` cannot be read.

**WriteLoop.** `writer` is the place in the handler, `task` the `LastWriteTask` that
writes `taskBlock`. `BeginFile` carries out the plan for one file; `ReadSome`,
`FetchSegment` and `ReadFails` are `PipeReadExactly`, `DrainSome` and `DrainEnds`
`PipeDrain`; `HandOver` waits for the task before and starts the next, `JoinTask` is
the wait after the last block. `FinishFile` marks a file completed and releases its
entry unless a duplicate needs it; `Checkpoint` commits and writes an index to the
tape, `CommitAll` and `CleanUp` follow the loop however it was left. `tape` is what was
written, `room` how many blocks it will still take, which the drive may set to none.

**IndexStore, IndexParser.** A file record is a number of cells of its backing file,
and reading other cells than exactly its own gives `Damaged`: offsets that are wrong
by any amount show. A document is the sequence of its XML events; the recursive
descent is the fold of `ParseEvent` over it, with a stack of frames for the call
stack. What an element means is decided by the frame on top, as by the function of
the code that is running.

**IndexMerge.** `StartMerge`, then for the workers `PopTask`, `CreateTemporary`,
`ParseSource` and `SendResult`, for the caller `Receive`, `Join`, `AppendNext` and
`StartNormalise` follow `lsc_merge_schema_files`. `NormaliseEntry` is one turn of the
normalisation for the child at hand, kept or joined to the earlier sibling of its
name; `EnterDirectory` and `LeaveDirectory` are its recursion. An I/O error may end
any step (`fault`); a source's temporary files exist from `CreateTemporary` until
the clean-up. The five output files (`outputs`) are the application's: it creates
them before the call and deletes those of a call that failed. A parse that fails
removes them itself (`ParseFile`), except where the document or the output files cannot
be opened; there, and when a merge fails, the engine leaves them (`OpenFails`,
`MergeFails`). No property speaks of them.

**IndexQuery.** A query is a `job` with its parameters `asked`, the directories being
walked (`trail`), the chunk being collected (`entries`), the written `runs` and the
heap over their heads. A directory sort ends with what
`SortDirectoryChildrenNative` does to the index in the application.

## 3. Runs

All passing runs explore their state space completely.

| Run | Instance | Shows |
|---|---|---|
| `ring` | files of 3, 0 and 5 units, chunk 4, slots of 2, two slots, refill target 3 | no lost wake-up, borrowed slots stable, hashes before end-of-file, implements `FileStream`; stream and destroy end |
| `pool` | five files in four buffer classes, two workers, open limit 2, budget 4, reserve 3, one retry | budget kept, the demanded file always fits and is served |
| `poolio_ends` | one worker, opens that wedge or never return, the port may fail | memory in use by the kernel or a submission is never freed; every read ends; shutdown returns unless an open worker is stuck in a call nobody can end |
| `poolio_wedged` | one worker, `ReadFile` may wedge as well | finding 1 |
| `bridge` | two files of one unit, two slots, refill target 2, either process may die, either side may cancel | permits are conserved, borrowed slots stable, a side ends only for a cause that was given and tells cancellation from failure, implements `FileStream`; both sides stop, also when the ring is full below the target |
| `tapefile` | fifteen extent lists, six records with a short one and a filemark, blocks of 3 into slots of 2 | exactly the covering lists are accepted, slots hold exactly the file, a cancellation ends the call |
| `async` | files of four and two chunks, queue of three, look-ahead of one, one retry | kernel buffers alive, checks never fire, in-order delivery, the worker ends |
| `devlock` | two processes, each a command thread and a writer window, one process may be killed | implements `ExclusiveDevice`, no mutex is left behind, a disposed lease is given up |
| `index` | some 1290 documents parsed and fourteen merges of up to three by two workers, an I/O error at any step; three of the indexes sorted in tape order and by name, one directory sorted in place, and searched from every entry | a store is the tree its documents describe or their union by path; an error has a cause; nothing is lost in sorting; uids are unique; no temporary files of a source left; orders and search as specified |
| `index_rootempty` | the same documents and `<file/>` among the children of `ltfsindex` | finding 3 |
| `writer` | a file of one block, one of two blocks, a duplicate and an empty file; the second and the last cannot be read; ring of one block, a tape of three; a stop, a drive error, an overflow and a checkpoint at any moment | each block of the tape is where its file's extent says, only the file a stop falls in is cut, an index on the tape lists what precedes it, the command ends |
| `writer_cut` | the same files, all readable | finding 2 |

**Why these bounds.** Two slots are the least the code accepts and make every
publication meet the full ring, wrap and split; a large file longer than ring and
chunk, an empty file and a short one give every kind of end-of-file. The pool's
classes are chosen so that look-ahead without the reserve would strand the large
file; three files may be open at once against a limit of two. A queue of three
requests with four chunks refills while it delivers, out of order. Fifteen
extent lists cover each clause of the validation on both sides. Two processes are
enough for the device lock, which treats all others alike. For the index, every
body of up to three events below each kind of root, closed or cut off, meets every
branch of the parser; the nine merge documents repeat directories in one source and
across sources at several depths, have empty and unnamed directories, an index
without a directory, one found only inside other elements and one that is cut off.
Chunks of two entries make every sort spill to several runs (`TapeChunk`,
`SortChunk`); one sort in place (`MaxSorts`) is followed by every query again. The writer's ring holds
one block, so that a file wraps in it and the producer is always blocked by the writer;
two blocks of a large file let one be written while the other is read; a duplicate is
drained and refers to an entry released before it; the fourth file ends the list with
a failure nothing else can mend. A tape of three blocks is full before two files and
two indexes are on it. What the bounds could hide in the
ring, the bridge, the tape reader, the pool's scheduler and its calls, the overlapped reader, the device lock, the
merge of indexes, the sort of a directory and the write command is excluded by the proofs. So is what the run
of the bridge leaves out, a file over several slots.

**Fairness.** `Spec` has none; safety is checked without relying on it.
* `NativeRing`, `SmallPool`, `SmallPoolIo`, `AsyncReader`: weak fairness of each
  thread (preemptive threads run) and of the passing of a deadline. The kernel
  completing a read is *not* fair in `SmallPoolIo` and `AsyncReader`; it is in
  `SmallPool`, because the call watchdog of `SmallPoolIo` ends reads. Nobody has to
  cancel, fail or destroy.
* The writer keeps acquiring however often it refills in between
  (`SF(CallAcquire)`): `WaitUntilBuffered` is called between files and the write
  loop goes on to `ReadSlot` after it.
* `TapeBridge`: the threads of a living process run; a tape READ ends (it has a
  timeout of 1800 s) and a prompt is answered. Nobody has to die or cancel.
* `WriteLoop`: the writer thread, its tasks, producer, preloader and completion run
  (weak fairness), a dialog is answered, and a user who is asked again and again about a
  failed read does not choose Retry for ever (`SF(AbortRead)`). Nobody has to stop, no
  checkpoint or overflow has to come.
* The index modules state no fairness: what they promise is said of the moment a call
  returns. The runs check for deadlock, so a search that could not go on would be
  reported; that sorts and merges end is not stated.
* `DeviceLock`: strong fairness of a thread at a lock, because the operating system
  queues the waiters of a monitor or mutex; a command ends.

## 4. Proofs

For every value of the constants that satisfies the named assumptions
(`RingAssumption`, `BridgeAssumption`, `PoolAssumption`, `DeviceLockAssumption`,
`MergeAssumption`, `QueryAssumption`, `AsyncAssumption`, `CapacityAssumption`, `FilesAssumption`,
`WriteAssumption`, which state what the constructors of the code enforce and, for the managed
ring, that it holds the 1 MiB a large file waits for, for a directory sort, that the
comparison of two names is an order, equal names included; TLC evaluates them in the runs):

| Theorem | States |
|---|---|
| `NativeRing_proofs!TypeCorrect`, `RingAccounting`, `NoLostWakeup` | `TypeOK`, `TokensInOrder`, `SleepersMustWait` |
| `NativeRing_proofs!ReleasesHeldSlot`, `StopsPublishing` | a release takes out exactly the held slot, also when called twice; nothing is published after a cancellation or an error |
| `NativeRing_proofs!HashesComplete`, `SlotStable`, `Refinement` | `HashesBeforeEof`, `BorrowedSlotStable`, `Spec => ImplementsStream` |
| `TapeBridge_proofs!PermitsConserved`, `OccupiedCorrect` | `SlotsConserved`; `occupied_slots` is exact at every program point of both sides |
| `TapeBridge_proofs!CausesKnown`, `SlotStable`, `Refinement` | `EndsForCause`, `BorrowedSlotStable`, `Spec => ImplementsStream` |
| `SmallPool_proofs!TypeCorrect`, `BudgetHolds`, `DemandSchedulable` | `TypeOK`, `WithinBudget`, `DemandNeverStranded` |
| `SmallPool_proofs!RetriesBounded` | a file is tried at most once more than the retry limit |
| `SmallPool_proofs!IoTypeCorrect`, `OwnershipKept`, `ReadsStayAlive` | of `SmallPoolIo`: `IoTypeOK`; who may hold a file, its operation and its memory; `OperationAlive` |
| `TapeBridge_proofs!FileTypeCorrect`, `AcceptsCovering`, `SlotsAreTheFile` | of `TapeFile`: `FileTypeOK`, `AcceptsExactly`, `SlotsExact` |
| `DeviceLock_proofs!TypeCorrect`, `NoMutexLeft`, `Refinement` | `TypeOK`, `NothingAbandoned`, `Spec => ImplementsDevice` |
| `DeviceLock_proofs!DriveExclusive`, `WriterExclusive`, `LeaseBacked` | one command at a time; no foreign command beside a writer; a published writer owns the writer gate |
| `IndexForest_proofs!SourceParses` | any document parsed as a merge source, cut off or malformed too, leaves a store whose chains, headers and records are sound |
| `IndexForest_proofs!CompleteParses` | a document that is complete parses without an error, whatever is in it |
| `IndexMerge_proofs!TemporariesRemoved`, `SourcesProduced` | `NoTemporariesLeft`; the caller appends only when every source has come through |
| `IndexMerge_proofs!MergeLosesNothing`, `MergeNumbersApart` | `NothingLost`, `UidsUnique` |
| `IndexMerge_proofs!MergedRecordsReadBack`, `CallsFailForCause` | every file of a merged index reads back whole; `FailsForCause` |
| `IndexMerge_proofs!SortsOneDirectoryOnly` | `SortsOneDirectory` |
| `IndexMerge_proofs!IndexStaysReadable` | as long as the application has an index, however often its directories were sorted or sorts of them broken off, every chain of every directory it is shown stays in the index and has the stated length |
| `AsyncReader_proofs!TypeCorrect`, `BuffersAlive`, `ChecksAreDefences` | `TypeOK`, `KernelBuffersAlive`, `ChecksNeverFire` |
| `AsyncReader_proofs!DeliveryInOrder` | `Spec => DeliversInOrder` |
| `WriteLoop_proofs!TypeCorrect`, `RingHoldsTheFiles` | `TypeOK`; the ring holds the files' bytes in order, from the head to the tail |
| `WriteLoop_proofs!BlocksStayInPlace`, `OnlyAStopCuts`, `IndexesComplete` | `BlocksInPlace`, `CutOnlyByStop`, `CheckpointsComplete` |

**Ring.** `IInv == TypeOK /\ RingInv /\ WorkerInv /\ HoldInv /\ SleepersMustWait`.
The counters alone are not inductive: `RingInv` ties slot `k mod n` to token `k` for
the tokens between the indices, `WorkerInv` says what the worker's position in a
file implies, `HoldInv` that the held token is the oldest in the ring.
That consecutive tokens less than `n` apart fall on different slots is proved first, from
the definition of `%` on naturals.
For the refinement of `FileStream` the second part of the module adds what the slots hold:
`SInv == IInv /\ ChainInv /\ PlaceInv /\ EndInv /\ HashesBeforeEof`. `ChainInv` says that the
slots between the indices continue the stream the consumer has received, and that the
worker's place in its file continues the ring. A chunk is published in batches
of whole slots, several to a batch; that only the last slot before the end of a file
may be short needs `PlaceInv`: what is left of a chunk is a whole number of slots unless
the chunk ends the file, which is where the assumption `ReadChunk % SlotSize = 0` enters.
The same conjunct says that everything up to the end of the chunk has been
hashed, hence `HashesBeforeEof`. `EndInv` excludes a stream that ends before it starts.

**Bridge.** There is no lock, so every part of the invariant is indexed by program
points. `RingInv` says how many permits and counter updates the two threads are
still to make at the points they are at; from it follow that positions in the ring
and the source's next slot are distinct (`OtherSlot`). `ChainInv` says that the slots
between the indices continue the stream the target has received and that the
source's item continues the ring, so each release is a `Receive` of `FileStream`.
That the target never sees the end early (`NeverStarved`) needs both: the end mark is
set after the last slot is counted, and the target looks at the counter after it saw
the mark, so an empty ring means the last item was received. `CauseInv` says that as
long as the target lives, works and was not cancelled by the user, the source has set
the peer error before anything cancels the ring; a failure of the source is therefore
never reported as a cancellation (`EndsForCause`).

**Pool.** `AheadWithinLimit` says that `reserved_bytes` is at most
`Budget - DemandReserve` plus, while the demanded file holds a buffer, that file's
capacity; budget and room for the demanded file both follow, because no class is
larger than the reserve. Only a live queue item with priority may pass the
look-ahead limit, so the invariant also has to say that such an item names the
demanded file (`PriorityIsDemand`), which stays true because generations are never
reused (`ItemsOld`) and stale items can never come to life again.

**Pool, calls.** `OperationAlive` says what must not be freed; whether something is freed
in time depends on four threads and the kernel. `Ownership` is the reason: a file is one
worker's from the step that takes its entry to the step that gives it up
(`OneWorkerPerFile`, `PendingUntouched`, `OpeningUntouched`, `LockingBoxed`); from the
moment the operations mutex is taken for it until `ReadFile` has returned, the worker
holds that mutex (`SubmittingLocked`), so neither the completion thread nor the watchdog
can free or leak the operation meanwhile; what the kernel owns is of an operation or was
leaked (`OwnedHeld`); what the completion thread has dequeued the kernel is done with
(`BatchTaken`); and shutdown gives operations up only after all workers are gone
(`JoinedAfterExit`). Nothing is assumed of which calls wedge.

**Tape reader.** Two arguments. *Acceptance*: any list can be put in the order of its
offsets (`OrdersExist`), and of a list in order the check that each extent starts where
those before it end is the same as "every byte lies in exactly one extent"
(`ValidCovers`, `CoversValid`). *Content*: `FileIInv`. `ExtentsInv` says how many bytes of the
file were taken from the tape at each place of the call, `HeadInv` that a READ that is
not preceded by a LOCATE finds the head on its block (which is why a failed attempt has to
set `need_locate`), `RecordInv` which part of the record is still to be copied,
`PlaceInv` that physical block and offset in it are those of the next byte, and
`BufferInv` that the partial slot continues the slots. With them each byte copied is
`FileByte` of its place.

**Device lock.** The invariant lists, for every program point of an operation and
of a lease thread, which locks it owns, and conversely which points the owner of a
lock can be at; from "at most one owner" it follows that no two threads are in a
command, and that no command of another process runs beside a published writer.
`Refinement` maps the steps that start and end a command, publish and withdraw a
writer, and kill a process to those of `ExclusiveDevice`, every other step to a
stutter.

**Merge.** For any number of sources and threads. `Conserved` says that sources in
the queue, with a worker, in the channel and received add up to all of them;
`OnItsWay` that each source not yet received is in exactly one of these places, and
`Owned` that the temporary files that exist belong to a source that is on its way or
was received. When the workers have ended and the channel is empty, nothing is left
but the received, which is why the error "merge source was not produced" cannot occur.

**Index.** For any documents. A chain is a linked list in a file that others are linked
through as well, so the invariant is about all of them at once. `Forest(s, F, G, dep, open,
stale)` gives every directory `d` the list `F[d]` of the file entries and `G[d]` of the
directory entries in its chains (`-1` is the root), and a depth. It says that each chain
reads as its list and ends (`Lists`), that every file entry is in exactly one list
(`Covered`), that every directory is a child once and one level below its parent (`Hung`,
`Once`, `Deep`, so nothing is a cycle), that all are reached (`Reached`), and that headers
state first entry and count (`Heads`), except of the directories in `open`, whose header is
not written yet, and in `stale`, whose header is written back later than their chain.
`NothingLost` follows from it alone (`ForestLosesNothing`).

* *A parse* keeps the forest event by event: `Parsing` says that `open` are the directories
  on the stack and that each frame has the chains of its directory. No induction over the
  document is available to the provers, so `SourceParses` takes the least event after which
  it would fail. *Appending* a source puts two forests side by side under one root, the
  second with all offsets moved.
* *Normalising* is a stack of frames: `Normalising` says that these are a path in
  the forest, each somewhere in its chain with the children it has kept, and that exactly the
  directories entered so far have a uid, all different. Joining a duplicate moves its two lists to the end of the first
  directory's and takes one entry out of the parent's list, in three places of the store
  (`JoinedPlaces`, `CutPlaces`, `TakenPlaces`, `DuplicateForest`). The header of the
  directory on the stack is stale until it is left.
* `Through` says that a source which came through without an error parses, and that an
  error stands for a cause. `Tree` says which of the three forms the store has in each
  phase; `AskedInv`, the inductive invariant of `QuerySpec`, adds that queries leave a merged
  index alone until one sorts a directory in place.
* *Why a call fails.* Since every chain reads whole, no error of the merge itself can
  occur; that leaves the documents. `CompleteParses` follows the kinds of the frames
  alone: while the element at event `d` is open, the stack is as much higher as elements
  were opened and not closed since `d` (`Descended`, `Depth`), so the event that closes
  it meets its frame and ends the parse.
* *Sorting a directory.* The chunks, the sorted runs and the heap are compared with an
  order that knows none of them: `AheadOf(u, k)` counts the entries of `u` ahead of entry
  `k`, and an entry is in order when it stands at its place. Numbers of their own make the
  counts differ (`AheadApart`), so every place is taken (`AheadPlaces`); that is why a
  sorted run exists. While entries are collected, `Collected` says that those so far are
  in one run each or in the chunk; while they are merged, `Merging` says that the output
  rises and that whatever is still to come is in the runs behind what was written, so that
  the least of the first entries is the least of all. What is written at the end is at its
  place (`Written`, `RisingIs`), and forgetting the numbers leaves the stable order by name
  (`SortedIs`), in which a second sort changes nothing (`OrderStays`).
* *After a sort the forest is gone*: the entries of the old chain stay in the index, linked as they
  were, and hang in no directory. What remains is weaker and enough: `Usable(store, D)`, for a set `D` of directories with all that the
  application is shown, says that each chain of a directory of `D` has the entries its
  header counts within the index (`Stays`) and leads to directories of `D`. A parse and a
  merge end in such an index (`ParsedReads`, `MergeReads`), appending sorted entries keeps every
  walk (`WalkKept`), and the header of the directory is pointed at them in one step
  (`FilesPatched`, `DirectoriesPatched`), before and after which all other directories hold what
  they held (`ChildrenStay`). `SortInv` puts `Usable` together with how far the sort is.

**Overlapped reads.** For any files, queue and look-ahead. `KernelBuffersAlive` is its own
core: while a reader is open, the requests the kernel has are those the reader takes
for in flight; while it is dropped, their number is what the reader still waits
for. `CurrentInv` and `AheadInv` say in which phases the two readers are open, which
chunk the current one hands out next, and for which file the other was prepared;
`StreamInv` that the item delivered last is the one before the next chunk. The number
of retries plays no part, so the stream is in order over any number of them.

**Write command.** For any files, ring, block size and tape. Nothing in the ring says
which file a byte is of, so the invariant gives every byte its position in the stream
of all files (`Start[f]` is where file `f` begins). `RingHolds` says that the ring holds
the bytes of this stream from head to tail, `ProducerInv` that the producer is at its
tail, `ReadInv` that the writer is aligned with its head or will read no more from it
(`Dead`: it was disposed, or the producer is done and the ring is empty, or a stop has
ended a large file). That is where a file cut short, a drained duplicate and an empty
file that failed must agree between two threads that share only two numbers.
`TaskInv` follows the blocks from there: the first `k` of the file are at the end of the
tape (`Placed`) and `k` have been handed to the drive (`Handed`), or a block is missing
and the user accepted it, or none is written any more because of a stop (`Excused`).
`WholeInv`, `ListInv`, `BlocksInv` and `IndexesInv` carry the result over to the files
finished before, the committed files and the indexes. `IInv`, the conjunction, also
held on two instances in TLC.

The type invariants of the proved modules, and `TokensInOrder` of the ring, are
theorems only (`RingHolds` of the write command too): as invariants of a run they would
add nothing to the others.

**Only model-checked.** All liveness (`StreamEnds`, `DestroyReturns`,
`DemandServed`, `EveryReadEnds`, `ShutdownReturns`, `TargetStops`, `SourceReleases`,
`CancelEnds`, `WorkerEnds`, `LeaseGivenUp`, `WriterEnds`): TLAPS has no ENABLED and no fairness.
`IndexIsTheDocuments`, `TapeOrderExact` and `FindsTheNext`: a tree is a recursive reading
of the store, and its operators are RECURSIVE; what it says for every document is an
induction over data. `RecordsReadBack` of a single parse is false (finding 3).

## 5. Findings

1. **`poolio_wedged`: a `ReadFile` that does not return blocks the watchdog that
   should cancel it.** `small_open_worker` submits with the operations mutex held
   (`FR/small_files.rs:493-507`); the completion thread, which is the pool's only
   watchdog, takes that mutex for every completion (`:716`). If a read submission
   wedges while another completes, the watchdog waits for the submission and the
   writer for both. `FR/native_reader.rs:143-144` exempts this wait from the reader's own
   watchdog because "Small-file workers have per-call watchdogs". `poolio_ends`
   shows that with wedging opens alone every read ends.
2. **`writer_cut`: a file cut by a stop is committed as whole.** Over the managed
   provider a stop ends the loop over the blocks of a file (`VB/Forms/LTFSWriter.vb:8742`);
   what follows asks neither for the stop nor for the bytes left and marks the file
   completed (`:9109-9112`). It is added to the index, also to one written to the tape
   by a checkpoint, with the length of the whole file, and taken off the queue; part of
   its extent was never written. The dialog that sets the stop says "Unfinished files
   will be lost. Continue?" (`VB/My Project/Resources.en.resx:456`). The native reader's
   path leaves the command at the same place (`:8104`). `writer` shows that no other file is
   affected (`CutOnlyByStop`).
3. **`index_rootempty`: an empty file element among the children of `ltfsindex` shifts
   every later file record.** `parse_index_empty` writes `<file/>` at the end of the file
   records (`SC/lib.rs:4677-4688`) but does not advance `file_records_position`, from which
   the next record takes its offset (`:1501`). The record parser expects an element
   at an offset, "file record root element was not found" (`SC/file_parser.rs:54`): it finds the
   empty one again, or the middle of another. Below a directory `append_empty_file`
   (`SC/lib.rs:1678-1704`) advances it; `index` therefore leaves only this document shape out.

Observed and not a run:

* The worker watchdog's clock (`FR/native_reader.rs:150-165`) is set back by a
  publication or a new stage, not by a retry. Delays between retries
  (`FR/async_reader.rs:693-760`, a base delay up to 60 s) may exceed stall timeout and
  grace, so the reader can be ended before its configured retries are used.
  Likewise `last_completion_progress` is not set back by a submission
  (`FR/async_reader.rs:355`): after a long pause on a full ring a stall can be declared
  early.
* Of the managed provider and the write command, from reading the code while modelling it:
  * The wait for a file to be open asks the record and then the producer
    (`VB/Forms/LTFSWriter.vb:8558-8562`). If the producer opens the file and comes to
    its end between the two, the command fails with "completed before opening"
    although the file is in the ring.
  * The producer sets the element of the list it has left to `Nothing`
    (`VB/Core/FileDataProvider.vb:305`), which ends the preloader's `For Each` over that list
    with an exception nobody reports: after the first file small files are read one
    after the other, although the file's header says (`:15`) that they are cached ahead.
  * A large file waits for 1 MiB of room (`:532-536`); a ring below that would never have
    it. `MinChunk <= Capacity` is assumed.
  * A file that fails for the preloader only, after the producer has opened it, is closed
    again (`IsOpened`) and the writer waits for a producer that waits for room. Files in
    `Faulty` fail for both, so this is not in the model's runs.
  * With `LTFSWriter_KeepUnwrittenFilesOnAbort` a file cut without a commit keeps the extent
    of `:8549` and gets a second one when it is written again.
* `Dispose` of a lease sets `_disposed` and then the release event; a lease thread that
  ends in between disposes of the event first (`VB/Core/SCSIDeviceLockManager.vb:470-489`), and
  `Dispose` throws `ObjectDisposedException`.
* A lease thread that gives its lease back holds the process gate for a moment, and a
  command of the *same* process that arrives then is refused as if another process
  were busy (`SCSIDeviceLockManager.vb:134`: the wait is 0 ms after a local wait).

## 6. Not modelled

* Time: the stall clock of the worker watchdog, and delays as numbers. A deadline is an
  action that may happen, under fairness one that does.
* Bytes, hash values, texts, statistics, debug logs. The decoding of SCSI sense data.
* Mutex poisoning by a panic, out-of-memory, handle values reused by Windows.
* The weak memory order of the bridge: the atomics are `Acquire`/`Release`/`AcqRel`,
  and a semaphore operation lies between publishing and taking any slot; the model
  is sequentially consistent.
* Of the provider and the writer: the pipe a setting puts in the ring's place and the mode
  in which every file waits for a signal; the native reader's write loop; files of the
  index partition, file hashes, duplicates of files already on the tape, segments of a file
  split over tapes; reloading an index, reading back, verifying, ejecting. A checkpoint is
  written only where the tape has room, and a block the drive failed is not on the tape.
* Of the index engine: a failure to remove a file, which the code ignores; a root or
  first directory written as an empty element (what
  follows depends on how the XML library reads a start tag as an element); the four
  partial parsers of one file record and the writer that prints an index, which
  convert text one after another; the copying of structures over FFI; the byte
  format of run files. Names are compared by a rank given as a constant.
* The components of the last rows of the inventory; `PROJECT.json` has each with its reason.

## 7. Plan

Order: what feeds the drive first, then what coordinates it, then data algorithms.

1. *Done:* `NativeRing` with `FileStream`; `SmallPool`, `SmallPoolIo`; `TapeBridge`,
   `TapeFile`; `AsyncReader`; `DeviceLock` with `ExclusiveDevice`;
   the index: `IndexStore`, `IndexParser`, `IndexMerge`, `IndexQuery` against
   `IndexTree`, `IndexSort`, `IndexAnswers`.
2. `WorkerWatchdog`: the worker's blocking calls with a clock, the one-shot
   `CancelSynchronousIo` and the progress time that is not refreshed while the ring is
   full. Run: two calls, three ticks; property: a destroy always returns (expected to
   fail for a call entered after the one shot).
3. *Done:* `SpscRing`, `FileProvider` and, over them, `WriteLoop`, the write command with its
   tasks, errors, stop and checkpoints.
4. `DirectCopySession`: hello, manifest batches, start, before `TapeBridge` begins.
5. The writer's loop over the native reader, with its buffer wait and the exchange of the
   wait's cancellation source (`VB/Forms/LTFSWriter.vb:7676`).
6. Proofs. *Done:* all modules of the table in section 4. Left: what a merged tree says by
   path, which is out of the provers' reach; the tape order, whose directories are the same
   `Usable` ones, and whose entries are not of one directory.
