# LC file system: specifications, model checking and proofs

This directory specifies the LC file system in TLA+, from the layout of its image
to its directories and the thread pool, model-checks it with TLC on small
instances and proves its safety properties and refinements with TLAPS for
instances of any size. Paths and line numbers refer to
the repository next to it.

## 1. The system

The file system lives in one image file. From the bottom up:

| part | source | state | operations | how it interacts |
|---|---|---|---|---|
| image format | `src/lc_image_format.cpp`, `include/lc_image_format.h`, `lc_block.*` | the bytes of a new image | write superblock, bitmaps, inode table, clear data blocks | run once, before anything else |
| block device | `include/lc_block_device.h` | file descriptor, superblock | `read_block`, `write_block` (pread/pwrite, asserted range) | called by the block buffer pool |
| block buffer pool | `include/lc_block_buffer.h` | frames, block-to-frame map, clock hand, frame spin locks, map mutex | three kinds of read, two of write, `access_frame_lock`, `unpin_block`, `flush_block`, `flush_all` | caches the device; used by the block manager from any thread |
| its flush thread | `include/lc_block_buffer.h`, lines 104-121 and 418-431 | `running_`, condition variable, thread | `start`, `stop`, periodic `flush_all` | calls `flush_all` concurrently with all users |
| block manager | `include/lc_block_manager.h`, `lc_bitmap.h` | the block bitmap (in cached blocks) | `alloc_block`, `free_block`, reads and writes of allocated blocks | every bitmap or data access is a call on the block pool |
| inode buffer pool | `include/lc_inode_buffer.h`, `lc_inode.h` | as the block pool, one inode per frame | as the block pool | its "device" is the block manager; must stop before the block pool |
| inode manager | `include/lc_inode_manager.h` | inode bitmap and hint in memory | allocate, free, map a file block, read, write, truncate, directories | block manager for data and pointer blocks, inode pool for inodes |
| MPMC queue, priority queue | `include/lc_mpmc_queue.h` | ring of cells with sequence numbers; one ring per priority and a size counter | `enqueue`, `dequeue` | between submitters and workers |
| thread pool | `include/lc_thread_pool.h`, `lc_context.h`, `lc_task.h` | queues, context pool, worker threads, heartbeats, stop flag, weighted round robin | `submit`, `wait_and_submit`, worker loop, watchdog, `shutdown` | runs tasks that use the layers above |
| utilities | `lc_memory.h`, `lc_exception.h`, `lc_configs.h`, `lc_utils.h`, `lc_trace_id_generator.*` | none that is shared | allocation helpers, assertions, trace ids | used everywhere |

`LC_ASSERT` is compiled in by the CMake build (`CMakeLists.txt` forces a Debug
build with `-DDEBUG`) and can be compiled out. The models of the pools and of the
block manager are of a build with assertions. Such a build stops at the first access
to a file block or a directory (section 6), so `InodeManager` is a model of both
builds, and `Directory` of one without.

### What is hard, and what makes each part correct

- **Block buffer pool.** Three kinds of lock taken in different orders, lock-free
  gaps between finding a frame and locking it, eviction under an exclusive lock
  that other operations need. Correct if its callers cannot tell it from one
  array of blocks, if a flush is durable, if pinned and guarded blocks stay, and
  if its retry loops and its sweep end.
- **Flush thread.** A notification sent without the mutex, flushing concurrently
  with the pool's users, `start` after `stop`. Correct if `stop` returns, leaves
  nothing in memory only, and leaves no thread behind.
- **Block manager.** Threads scanning and clearing bits of the same bitmap
  blocks; freeing takes two steps. Correct if a bit is set exactly while the
  block has one owner and if no owner sees another's data.
- **MPMC queue.** Lock-free: correct if it is a FIFO queue, if a cell's plain data
  is never accessed by two threads, and if a stalled thread stops no other.
- **Priority queue.** A counter that lags behind the queues. Correct if the
  counter comes out exact, since `shutdown` waits for it to be 0.
- **Thread pool.** Submissions racing a shutdown, tasks that throw, a watchdog that
  joins and replaces threads while `shutdown` joins them too. Correct if every
  accepted task is run once or dropped, none is left behind a shutdown, the
  shutdown ends, and ended workers are replaced.
- **Inode pool.** A second cache over the first: partial reads through it, two
  background threads, two pools to stop, assertions that take what is cached with
  them. Correct if the last write of an inode is never overwritten by an older
  one, nor by a misread one that no guard's holder has changed; if the image has it
  after both stops, and keeps it, once it has it, through aborts and restarts.
- **Inode manager.** A bit is found and set in separate unlocked steps, link counts
  decide when blocks go back, bitmaps live in memory. Correct if inodes and blocks
  have one owner, nothing in use is free and nothing free is lost, and a file
  reads as written. All of it rests on the inodes the pool gives back, which are
  those written only in the first slot of a block.
- **Directories.** Three loops over the same entries, with three ideas of where to
  stop, and changes to an inode that may or may not be marked dirty. Correct if
  lookup finds exactly what was added and not removed, which only a directory whose
  inode is in a first slot can promise.
- **Image format and file map.** 32-bit arithmetic. Correct if regions, bits, slots
  and paths are disjoint and are looked for where they were written.

## 2. The modules

| module | role |
|---|---|
| `BlockRequests` | the calls of the block pool: operations, arguments, results |
| `BlockStore` | abstract: what the pool promises, one array of blocks and its disk |
| `BlockBufferPool` | the pool; implements `BlockStore` |
| `BlockBufferPoolInv` | its inductive invariants |
| `FlushDaemon`, `FlushDaemon_proofs` | `start`, `stop` and the flush thread; theorems |
| `BlockManager` | allocation, freeing and checked access, over the contract of `BlockStore` |
| `BlockManagerInv`, `BlockManager_proofs` | its inductive invariant; theorems |
| `FifoQueue` | abstract: a bounded FIFO queue whose calls may answer full or empty |
| `MPMCQueue` | the ring of cells; implements `FifoQueue` |
| `MPMCQueueInv`, `MPMCQueue_proofs` | its inductive invariant; theorems |
| `PriorityQueue`, `PriorityQueue_proofs` | one `FifoQueue` per priority and the counter; theorems |
| `ImageFormat` | the layout of an image of any size |
| `InodeBufferPool` | the inode pool: `BlockBufferPool` with what differs below a frame, both stops and restarts |
| `BufferPools_proofs` | theorems on both pools |
| `FileMap` | where each block of a file is looked for |
| `InodeManager` | inodes, links and blocks of files, over the contract of `BlockManager` |
| `InodeManager_proofs` | inductive invariant and theorems of `InodeManager`; theorems on `ImageFormat` and `FileMap` |
| `Directory`, `Directory_proofs` | the entries of a directory and its inode; inductive invariant and theorems |
| `TaskService` | abstract: what the thread pool promises to those who submit |
| `ThreadPool` | submission, workers, watchdog, shutdown; implements `TaskService` |
| `ThreadPoolInv`, `ThreadPool_proofs` | its inductive invariant; theorems |
| `MC*` | instances for TLC |

Operators whose comment calls them a slip (`NextTurnOneShort`, `ScanToEnd`,
`HintTrusted`, and in `BlockBufferPool` those like `HoldsValid` or `PinnedNever`)
are not part of any specification. Each stands before the definition it is a mistaken form of,
and every checked property fails when one of them is put in that place: this is
how we know that the properties depend on the code.

### BlockBufferPool

`frames`, `frame_map`, `clock_hand` are the members of the same names, `device`
the blocks behind `block_device_`. A critical section that takes one lock and
waits for nothing is one action, enabled when the lock is free. The three
sections in which a thread waits, or returns to its caller, hold their lock in a
variable over several actions:

| code | actions |
|---|---|
| `find_frame`, shared lookup | `FindShared` |
| `find_frame`, exclusive section | `FindExclusive`, then `EvictVictim`/`EvictSkip` per turn of `evict_frame`, then `Load`; `map_writer` is the thread inside |
| frame locked and checked, after `find_frame` | `Retry`, or `Read`, `Pin`, `Write`, `Access` |
| a live guard | `GuardWrite`, `GuardRelease`; `frame_locks` names its holder |
| `unpin_block` | `UnpinLookup`, `UnpinFrame`; the thread is in `map_readers` |
| `flush_block` | `FlushLookup`, `FlushFrame` |
| `flush_all` | `SweepFrame` for each frame |

The three forms of `read_block` differ in what they copy and in the pin they leave:
`Read` and `Pin`. Partial reads and writes are full ones here; what a partial read
really copies is in `InodeBufferPool`. For that module `LoadAs` takes what a read from
below yields as a parameter, and `GuardWriteAs` what a guard's holder writes. `Retry` in
`find_frame` itself (line 367) would lock a `shared_mutex` its thread owns; it has no
action, and `VictimStaysInvalid` shows that it is never reached. A spinning thread is a
disabled one. `owed` and `pins` are history: what a flush must still see on the device,
what each thread pinned.

### FlushDaemon

`daemon` is where the flush thread stands. `wait_for` is four places: the call of
the predicate, the gap before blocking, sleep, and the time-out. `notify_all`
reaches only a sleeping thread, because `stop` calls it without the mutex. The
pool is reduced to the set `dirty`; `Use` and `WriteBack` are its users, at any
time. A stop is given what was dirty when it began as `owed`.

### BlockManager

One step per guard section or pool call, as `BlockStore` promises and
`GuardIsExclusive` shows for the guard: `AllocBit`, `SkipFull` and `FindNone` are
the loop of `alloc_block`, `Check` then `Read` or `Write` the two halves of a
checked access, `Clear` then `Unset` those of `free_block`. `FreeOrder` is the
order of the latter two. A failed `LC_ASSERT` leads to `"aborted"`. `Init` is what
the image format writes. Callers use a block only from `alloc_block` to their
`free_block`, and each from one thread: a block freed by another thread between the
two halves of a checked access is not covered. Several bits of a bitmap block
and several bitmap blocks are kept.

### MPMCQueue

One action per access to shared memory: `Load`, `Ready`/`GiveUp`/`Overtaken` (the
three outcomes of the comparison), `Claim`/`FailClaim`, `Move`, `HandOver`.
`enqueue` and `dequeue` are the same seven lines with other constants, so a
thread is on a `side` and the constants are `Turn` and `NextTurn`.
`compare_exchange_weak` may fail for no reason. Memory is sequentially consistent:
the acquire loads and release stores of `sequence` order everything the
properties speak of, and `CellHasOneOwner` is what makes the plain accesses to
`data` free of races. Positions do not wrap: they are 64 bits wide.

### PriorityQueue

`Put`/`EndPut` and `Get`/`EndGet` are the inner queue's effect and return as in
`FifoQueue` (`UsesInnerQueues` checks that it is used so); `Count` and `Uncount`
are the later `fetch_add` and `fetch_sub`, modulo `SizeModulus`. An item is put in
again only when nobody has it, so that items have identities.

### ThreadPool

| code | actions |
|---|---|
| `wait_and_submit_task`, with `submit_task` in it | `CallSubmit`, `CheckStopped`, then `SubmitFails` or `SubmitPuts` and `SubmitCounts`; `owner` holds `mutex_` between these two |
| `worker_pool`, down to the wait | `Top`, `Wait` |
| `try_schedule`, each turn of its loop | `TakeTask`, `TryNext`, `GiveUp` |
| the task, run or cancelled | `Run` and `Finish` or `Throw`; `Drop` |
| the worker's last test | `Test` |
| `watchdog_loop` | `DogLoop`; for each worker `DogPasses`, or `DogCancels`, `DogJoins`, `DogRestarts` |
| `shutdown`, `join_threads` | `BeginShutdown`, `EndDrain`; for each worker `BeginJoin`, `EndJoin`; `JoinWatchdog` |

The queue is taken at the contract of `PriorityQueue`. Priorities belong to the
tasks (`PriorityOf`), as in the code's metadata. Of time, only what the watchdog sees is
kept: `late[w]`. A worker may grow late once it has looked for a task in vain, in a
task, or when it has ended; a turn of the loop takes milliseconds against the
watchdog's ten seconds. `std::thread` may be joined once: the later of two concurrent
joins fails with an exception, which ends the watchdog or leaves `shutdown`
(`"failed"`). `Init` is the end of the constructor. A cancelled task is one its
owner has cancelled before the worker's test: `Drop`.

### ImageFormat

The numbers of `lc_initialize_super_block`, the seeks of `lc_initialize_inodes`, the
bits set by `lc_initialize_block_bitmap`, and on the other side the positions that
the device, `lc_cal_bitmap_index`, `calc_block_id` and `calc_offset` use. Casts and the
product of the seek keep their 32 bits. There is nothing to run: these are
functions of the image's size, and all that is said of them is proved.

### InodeBufferPool

The inode pool repeats the block pool's code with inodes for blocks, so the module
extends `BlockBufferPool` and its actions are that module's. Its device is the
inode table as the block pool holds it (`device`), below which is the file
(`image`). What is new:

| code | actions |
|---|---|
| the load of a miss: a partial read of the block pool | `LoadInode`, with what `Yields` allows; `RefuseInode` for its assertion and for a read outside any memory |
| `write_inode`; a change under a guard, and `mark_dirty` | `WriteInode`; `ChangeInode` |
| `flush_inode` and its assertion | `FlushInode`, `FlushMissing` |
| writes of the block pool to the file, at any time | `BlockWriteBack` |
| `stop` of the inode pool: join, then `flush_all` | `StopInodes`, its steps, `InodesStopped` |
| `stop` of the block pool | `StopBlocks` |
| a failed assertion, and a new process | `Abort`, `Restart` |

`read_block` adds the byte offset of an inode to a pointer to blocks, so for all
but the first slot of a block the bytes are another frame's or from behind the
array: `Yields` is any inode. The holders of a guard change fields of the inode they
find in the frame, so `ChangeInode` applies one of `Updates` to that inode, misread or not,
and what was misread is then marked dirty with the rest.

Two variables are history. `written` is each inode as its writers meant to leave it.
`fate` says what became of that: it is in the file (`"saved"`), not there yet
(`"unsaved"`), the last change was one of an inode that was not the one last written
(`"mixed"`), or the process ended at a failed assertion before it was in the file
(`"lost"`). A `"lost"` or `"mixed"` inode stays so until `write_inode` replaces it as a
whole. The invariants say which inodes can never be `"mixed"` and what holds of the
others as long as they are `"saved"` or `"unsaved"`.

### FileMap and InodeManager

`FileMap` is `get_block_id` with `get_indirect_block_id` as the path of indices they
follow, the subtraction of line 172 modulo `Width`. `InodeManager` uses it to tell
which file blocks have a direct pointer.

| code | actions |
|---|---|
| `alloc_inode` | `FindInode`, `SetBit`, `WriteNew` |
| what the caller does first with the inode | `TakeInode`: uses it as it is, or writes an `inode_clear`'ed one |
| `read_file_block`, `write_file_block` | `ReadFileBlock`; `WriteFileBlock`, `WriteFullDisk`, `WriteBeyondDirect` |
| `free_inode` | `BeginFree`, then `DropLink`, or `DropLastLink`, `FreePtr` for each pointer, `ClearBit`; `guard` is held meanwhile |
| an inode leaves its frame and is read again | `Reload`, with what `Yields` allows |
| `write_inode_bitmap`; two stops and a new process | `WriteInodeBitmap`; `Restart`, of either build, which reads every inode again |

What is done under a guard without several calls of the block manager is one step.
`asserts` says which build runs. `ended` says why the model goes no further: a failed
assertion, or, without them, a step that does what the assertion is there to prevent.
With assertions `read_file_block` and `write_file_block` end at every block there is,
the write after its block has been allocated: they ask the block pool for whole blocks
(`lc_inode_manager.h:201`, `:222`), which it asserts nobody does
(`lc_block_buffer.h:173`, `:222`). Without assertions they read and write. `Yields` and
`Fits` are those of `InodeBufferPool`, `Misreads` being what another slot than the first
may yield; a misread that faults has no step, since nothing follows it.

`due` (frees the callers owe) and `wrote` are history. Nothing in the repository calls the
manager but its tests, and the manager leaves much to its callers. The model says what by
five constants, and section 6 what happens without:

| constant | in the run | meaning |
|---|---|---|
| `Serialised` | TRUE | one thread at a time allocates or frees inodes |
| `SaveFirst` | TRUE | the inode bitmap is saved before a process ends |
| `BlankFirst` | TRUE | a new inode gets empty pointers before it is used |
| `AllocatesFull` | FALSE | `alloc_inode` is called when no inode is free (this matters without assertions) |
| `ReloadsUsed` | FALSE | inodes in use that are not in a first slot are evicted, or kept for a new process |

`~ReloadsUsed` is what a pool with a frame for every inode gives within one process: the
sweep runs only when no frame is free, so nothing is ever evicted. Across processes only files
in first slots survive. Inodes in first slots are evicted, reloaded and restarted freely.

### Directory

`Fill`, `Grow` and `Miss` are the three ways of `add_dir_entry`, used by `AddDirEntry`
(the public one, which marks nothing dirty) and `CreateDirectory`; `RemoveDirEntry` and
`Lookup` are the other two loops; `Evict` writes the inode back if the frame is dirty
and reads it again: the same if it is in the first slot of its block (`FirstSlot`, TRUE
in the run and the theorems), and any other (`Misreads`) if it is not. `First` is the
order of the loops. The guard of the directory is held from the first read to the last
write, so each call is one step. `lost` collects what was written where it does not
belong.

## 3. The runs

| run | instance | what it shows |
|---|---|---|
| `BlockBufferPool_store` | 2 threads, 2 frames, 3 blocks, 2 values; reads, writes, guards, both flushes | the pool implements `BlockStore`; the map is exact, clean frames equal the device, flushes are durable, a guarded block is its holder's alone, the recursive retry is not taken; the proofs' invariant |
| `BlockBufferPool_live` | pins, unpins and guards, demand 2 | pinned blocks stay, `ref_count` is exact, calls go on completing and every sweep finds a frame |
| `FlushDaemon_stop` | 1 controller, 3 frames | safety and liveness of `start`, `stop` and the flush thread |
| `InodeBufferPool_stops` | 1 user and the flush thread, 1 frame, 4 inodes in 2 blocks | last writes survive misreads and evictions until a guard's holder changes a misread inode, and aborts once they are in the file; first slots read back and are never mixed; both stops leave everything else in the image |
| `BlockManager_owners` | 2 threads, 13 blocks at 3 bits a bitmap block | bitmap, ownership, data and assertions |
| `BlockManager_full` | same, 1 thread that may hold every block | **fails**: "no free block" with free blocks |
| `InodeManager_files` | 2 threads, 2 inodes in one block of the table, 3 blocks, 2 direct pointers, 2 links; both builds | one owner per inode and block, exact links, files read back (in a build without assertions), no access to a block or inode whose bit is clear |
| `Directory_entries` | 5 names, 3 children, 4 pointers, 2 entries a block, in a first slot | lookup finds exactly what it should, no name twice |
| `MPMCQueue_ring` | 3 threads, 2 cells, 3 positions begun | FIFO, exclusive cells, progress of one thread alone; the proofs' invariant |
| `PriorityQueue_count` | 3 threads, 2 priorities of 2 cells | the counter explained, the inner queues' contract, draining |
| `ThreadPool_tasks` | 1 submitter, 2 workers, 2 tasks of different priorities, weights 1, one throw | the pool implements `TaskService`; the proofs' invariant; accepted tasks and the shutdown end; workers come back |
| `ThreadPool_unjoined` | 1 worker, 2 tasks of one priority | **fails**: a thread is left when `shutdown` has returned |

Bounds, and why they are enough:

- *Frames and blocks.* Two frames and three blocks are the least with eviction,
  reuse of a frame by a third block, and a miss while both frames are taken.
- *MaxUsage* is 5 in the code, 1 here: the count matters as zero or not, and
  one more turn of the sweep only repeats `EvictSkip`. *RefModulus* is 256 in the
  code, 4 here; at most three references exist, so it does not wrap. A block
  pinned 256 times is listed as a hazard and not checked; that anything less is
  counted exactly is proved (`MaxDemand < RefModulus` is the condition of
  `CountsAreExact` and `PinnedStaysResident`).
- *MaxDemand* bounds calls that need a frame plus pins kept. At most `PoolSize`, it
  is the condition for liveness. With one pin kept and two threads reading through
  the one frame left, each can evict the other's block for ever, so calls alone
  within `PoolSize` are not enough.
- *Two threads in the pool.* The races listed in the hazards are between a
  caller and an evictor or a flusher; the theorems of section 5 are for any
  number of threads.
- *Inode pool*: one frame, so that every call on another inode evicts; the first,
  a middle and the last slot of one block and the first of another. The races of
  several callers are `BlockBufferPool`'s. Two values, and one update that swaps them,
  so that a change keeps different inodes different, as one of a field does. `VIEW`
  unites states that behave alike: since every action treats the two values alike, each inode
  for itself, a value counts by whether it is the one meant (`MCInodeBufferPool`). The
  invariants speak only of what it keeps.
- *BlockManager*: five bitmap blocks, the first scanned one mostly below
  `DataStart`, the last with two spare bits.
- *InodeManager*: three blocks for four direct pointers, so that the disk can be full,
  and two inodes, so that the hint passes the end and the table is full; two links tell
  "a link" from "the last". One of the inodes is in the first slot of the table's block
  and one in the last; one misread inode, which names a block and counts too many links,
  is enough to violate each property when `ReloadsUsed` is TRUE. File blocks go to the
  first one behind the direct pointers, and the theorem `Unmapped` says what is behind
  that.
- *Directory*: blocks at index 0 and 2 with two entries each, so that there are holes
  before and behind an entry in its block and in another, and the pointers give
  out within five names.
- *MaxIndex* 3 with two cells: the second lap reuses a cell while a thread may
  still sleep in the first. It also bounds how often others overtake a thread,
  so `FinishesAlone` is freedom from blocking, not from starvation, which the
  code does not promise.
- *SizeModulus* is 2^64 in the code, 8 here: more than the excursions on either
  side of 0 together.
- *ThreadPool*: weights are 10, 8, 5, 3 and 1 in the code, 1 here, so that they are used
  up. In `tasks` any one worker has weight for both tasks and at most one of the two
  dies of an exception; this is the condition for `ShutdownEnds` and
  `AcceptedTasksEnd` (section 6 has its other side). A capacity of 1 makes a
  submission find its queue full.

Symmetry is used only in runs without liveness properties. Deadlock is checked in
every run but those of `ThreadPool`, which is shut down once and whose submitters have
nothing more to submit, of `InodeManager`, which ends at a failed assertion or where one is
missing, and of `Directory`, which stops at an entry written outside the data blocks.

## 4. Fairness

- Pool: `WF` of each thread's next step once it is in a call: threads are scheduled.
  Spin locks are not fair, and weak fairness does not make them so. Nothing makes
  a thread begin a call, except that in the run with pins each thread in the
  end unpins what it pinned.
- Flush thread: `WF` of both threads, `SF` of the time-out, because `wait_for` has one
  deadline, which spurious wake-ups do not postpone. A notification is not fair.
- MPMC queue: only `Runner` is scheduled; every other thread may stop anywhere. `SF`
  of its compare-and-swap: a weak one may fail spuriously, but not always.
- Thread pool: every thread is scheduled, every task ends (by an exception, perhaps),
  and time passes (`GrowsLate`). Nothing makes a client submit, or anybody shut
  the pool down.
- Priority queue: threads in a call are scheduled; one thread keeps asking every
  priority, as idle workers do.

`Drains` assumes that submission ends. While it goes on, `size_` may be 0 whenever
a worker looks, and a task can be overlooked for as long as that coincidence
repeats: this is a matter of luck that no scheduling rule excludes, and the
workers' 5 ms polling makes it harmless.

## 5. The proofs

Checked with TLAPS, for every value of the constants that satisfies the named
assumptions of the modules (non-empty pool, a ring whose size is a power of two,
bitmap before data, special values outside their sets). Every invariant, action
property and refinement that a passing run checks is also a theorem, under the
conditions named below; the one on `FlushThreadGone`, like its run, is for one
controller.

Where there is a state machine, each proof is by an inductive invariant: `Init`
implies it, one lemma or step for every action keeps it, and it implies the
property. TLC checks those of the block pool, the queue and the thread pool in a
run as well. A refinement is proved step by step: under the invariant each action
is a named step of the abstract specification, or a stutter.

- **`BufferPools_proofs`**, block pool: `Invariance`, `TypeCorrect`, `MapIsExact`,
  `CleanFramesAreCopies`, `NoRecursiveRetry`, `FlushIsDurable`,
  `GuardsAreExclusive`, `PoolIsStore`. The properties are not inductive:
  `CacheInv` adds who holds which lock (`LocksHeld`), what a thread at each place
  is doing (`RequestFits`), that a miss seen under the exclusive lock still stands
  when the victim is found (`MissStands`), and that the frame of a guard stays
  the guard's (`GuardedFrameStays`). `IInv` adds, for flushes, `OwedIsAhead`:
  whatever a flush still owes is dirty in a frame it has yet to come to, which is
  why `flush_block` may drop the map lock and `flush_all` need not take it.
  `PoolIsStore` maps the content of a block to its dirty frame, or else to the
  device: eviction, loading and flushing leave every content alone (`EvictedContent`,
  `LoadedContent`, `CleanedContent`), and a write or a guard's change is one step of
  `BlockStore`.
- **`BufferPools_proofs`**, pins: `CountsAreExact`, `PinnedStaysResident`, for
  `MaxDemand < RefModulus`. `PinInv` adds that the demand stays within its bound and
  that an unpin still looks at the frame its block is in (`UnpinAtFrame`). The bound is
  what keeps the 8-bit `ref_count` from wrapping (`CountWithinDemand`): a frame's
  pins and guard are among the demand. The two properties need each other: a
  count is right only if the block has not moved, and it does not move only while the
  count is right.
- **`BufferPools_proofs`**, inode pool: `InodeInvariance`, `LastWritesAreKept`,
  `FirstSlotsAreRead`, `StopIsDurable`. `InodeInv` is `CacheInv`, which needs nothing of
  what a load yields (that is why it is apart from `IInv`), with `Kept` and three more
  parts. `Kept` is `LastWriteIsKept`, that what is saved is in the table too
  (`SavedInTable`), and that no first slot is mixed (`FirstSlotsUnmixed`). A clean frame
  of a *first* slot is a copy (`CleanSlotsMatch`); so what a guard's holder finds there
  is what was last written, unless that is lost, and his change mixes nothing.
  `StopOrder` says how far the stop has come: the frames its sweep has passed are clean,
  and after the block pool's stop nothing moves. `StopIsDurable` needs one more
  invariant over these: after both stops no fate is `"unsaved"` (`AllSaved`).
- **`FlushDaemon_proofs`**: `TypeCorrect`, `StopLeavesNothing` (what a stop still owes is
  at frames it has yet to flush) for any number of controllers, and
  `FlushThreadIsGone` for one (`OneController`), by what `running_` and `joinable` are at
  each place of `start` and `stop` (`ThreadLife`).
- **`BlockManager_proofs`**: `Invariance`, `TypeCorrect`, `BitmapIsExact`,
  `OwnDataIsKept`, `AssertionsHold`. `IInv` adds `CallsFit` (a call's block is the
  caller's) and `FreeIsClear` (a block is clear before its bit is, which is what the
  order of `free_block` is for). That no bit past the last block is given out rests
  on the loop's early end (finding 1).
- **`InodeManager_proofs`**, the manager: `InodesHaveOneOwner`, `LinksAreExact`,
  `BlocksHaveOneOwner`, `FilesReadBack`, `AccessesAreSound`, for callers with the
  `Discipline`: the five constants of section 2 as in the run. They hold for both
  builds, of any number of inodes per block and any `Misreads`; what they say of misread
  inodes is that, with `~ReloadsUsed`, they reach no inode in use. The invariant adds
  what the one thread inside `alloc_inode` or `free_inode` knows of its inode
  (`PlacesFit`), who has an inode whose bit is set (`BitsFit`), and states ownership of
  blocks pointer by pointer (`PtrsFit`); free blocks are zeros (`FreeFit`). Whose link
  is being dropped enters `LinksFit`: between `BeginFree` and `DropLink` the count is
  one above what is owed.
- **`InodeManager_proofs`**, the image, of at least five blocks (20 KiB), the least that
  has a region of each kind: `RegionsOrdered`, `BitmapsHold`, `InodeSlots`,
  `InitialBitmap`; and `InodeTableInPlace` up to 66 million blocks,
  `InodeTableOverSuperBlock` at 2^26.
- **`InodeManager_proofs`**, the file map, for every number of direct pointers and size of
  a pointer block: `Unmapped`, `PathsAreDistinct`, `ThirdLevelIsOneBlock`. They follow from
  `PathIs`, which spells out the path of every block. The manager's proofs use
  it: a path of one step is a direct pointer.
- **`Directory_proofs`**: `EntriesAreFound`, `NamesAreUnique`, for a directory in a
  first slot whose callers add only to empty entries and remove nothing behind one
  (`Discipline`). The invariant: a clean frame is a copy of the stored inode, `blocks`
  has passed every pointer there is, and each name is shown once, for what it was added
  for.
- **`MPMCQueue_proofs`**: `Invariance`, `TypeCorrect`, `CellsAreExclusive`, `RingIsFifo`.
  For the cells, `IInv` adds what the sequence number of an owned cell is
  (`OwnersHaveTurn`), that positions are claimed once, and `ChecksHold`: a check made
  before a compare-and-swap is still good if the swap can succeed. For the FIFO
  queue it adds that the positions between the indices are one lap at most,
  each of them filled or being filled by its producer, and each free one emptied or being
  emptied by the consumer of the lap before (`QueuedAreFilled`, `FreeAreEmptied`), and
  that an item stays in its cell from its write to its hand-over.
- **`PriorityQueue_proofs`**: `Invariance`, `SizeIsExplained`, `InnerQueuesAreUsed`. The
  counter is exact modulo its width, so that it may pass below 0; the sets
  whose sizes it compares are shown to change by one element at a time (`Slots` is
  the queued items, each with its place).
- **`ThreadPool_proofs`**: `Invariance`, `TypeCorrect`, `TasksAreServed`, `SizeIsExact`. A
  task is in one place, a queue, a worker, a client or the past (`OnePlace`);
  `size` counts the tasks that wait, less the one that is in and not yet counted
  (`SizeCounts`), and none is so once `stop` is set, because `submit_task` looks at
  `stop_` and counts under the same mutex (`StopIsSet`). So `size = 0` at the end of
  the drain means that nothing waits, and it stays so (`ShutdownInv`); a worker that
  is not joinable has ended, a restarted one finds nothing, and when the last
  join is over nothing runs. This is proved with workers that throw, are cancelled,
  or are joined and replaced by the watchdog meanwhile: what finding 2 leaves behind is a
  thread, never a task.

Model-checked only: what needs fairness, `CallsComplete`, `EvictionFindsFrame`,
`StopReturns`, `WritesReachDevice`, `FinishesAlone`, `Drains`, `AcceptedTasksEnd`,
`ShutdownEnds` and `WorkersComeBack` (liveness is outside the prover); and the two
runs that fail.

What remains to be proved is between modules. `ThreadPool` takes the queue at the
contract of `PriorityQueue`, `PriorityQueue` its rings at that of `FifoQueue`,
`BlockManager` the pool at that of `BlockStore`, and `InodeManager` the allocation of
blocks at that of `BlockManager`. `InodeManager` and `Directory` take the inode pool at
what `InodeBufferPool` shows of it: an inode in a first slot is read back as it was
written (`FirstSlotsReadBack`), two stops keep it (`StoppedIsDurable`), and any other is
anything (`Yields`). They restart after orderly stops only. `RingIsFifo` and
`PoolIsStore` show that two of these contracts are kept, `FirstSlotsAreRead` and
`StopIsDurable` a third; that the users of the contracts assume no more than they say is
a matter of reading the modules side by side.

## 6. Findings

Two of the runs show code that does other than it says:

1. `BlockManager_full`: `alloc_block` compares block ids with the *number* of bitmap
   blocks (`lc_block_manager.h:136`), so the last bitmap block is never scanned; in an
   image of at most 128 MiB nothing can be allocated. Note that with the bound
   moved to the end of the bitmap the assertion of line 167 could fail, since the
   image format leaves the spare bits of the last bitmap block clear: `ScanToEnd`
   violates `NeverAborts`.
2. `ThreadPool_unjoined`: the watchdog looks at the heartbeats once more after `stop_`
   is set, and can put a new thread where `join_threads` has joined the old one, or
   has found none to join. `shutdown` then returns with a joinable thread.

Theorems and failing variations of the runs (change the named constant in the
`.cfg`) show more:

| what | where | how to see it |
|---|---|---|
| As many pins as frames: `evict_frame` loops for ever, holding the mutex that `unpin_block` waits for | `lc_block_buffer.h:412` | `BlockBufferPool_live` with `MaxDemand = 3`: `EvictionFindsFrame` fails |
| More tasks of one priority queued than the workers have weight for: nobody takes the rest until a worker is restarted, in a shutdown nobody ever does | `lc_thread_pool.h:192`, `:298` | `ThreadPool_tasks` with `Worker <- OneWorker`, `PriorityOf <- Alike`, `Capacity = 2`, `MaxThrows = 0`: `ShutdownEnds` fails |
| `start` and `stop` from two threads: a thread may be left behind | `lc_block_buffer.h:104-121` | `FlushDaemon_stop` with two controllers: `FlushThreadGone` fails |
| Two threads allocate inodes: both get the same one | `lc_inode_manager.h:77` | `InodeManager_files` with `Serialised = FALSE`: `InodeOwnedOnce` fails |
| The inode bitmap is never written by the code: a restart gives inodes out again | `lc_inode_manager.h:379` | the same with `SaveFirst = FALSE` |
| Without assertions `alloc_inode` gives out inode 0, whoever has it, when none is free | `lc_inode_manager.h:77` | the same with `AllocatesFull = TRUE` |
| A misread inode counts other links and names other blocks, so that it is freed too early or never, and with it blocks of others | `lc_block_buffer.h:186` | `InodeManager_files` with `ReloadsUsed = TRUE`: all five invariants fail |
| A directory outside a first slot loses and repeats entries | `lc_block_buffer.h:186` | `Directory_entries` with `FirstSlot = FALSE`: both invariants fail |
| With assertions no file block can be read or written: both ask for a whole block, and the block pool asserts less; the write has allocated its block by then | `lc_inode_manager.h:201`, `:222` | `ended = "whole block"` in `ReadFileBlock` and `WriteFileBlock` of `InodeManager` |
| `add_dir_entry` that grows a directory does not mark it: an eviction forgets the block | `lc_inode_manager.h:306` | `Directory_entries` with `AddsToFull = TRUE`: `EntriesFound` fails |
| An entry behind an empty one is found but not removed | `lc_inode_manager.h:572` | the same with `RemovesBehind = TRUE` |
| File blocks 12 to 1023 have no path; all blocks of level 3 share one | `lc_inode_manager.h:172`, `:479` | `Unmapped`, `ThirdLevelIsOneBlock` |
| From 256 GiB the format writes a block of inodes over the superblock | `lc_image_format.cpp:127` | `InodeTableOverSuperBlock` |
| Inodes but the first of a block are read as other bytes, the last aborts; a change under a guard writes those bytes to the table | `lc_block_buffer.h:186`, `:173` | `Yields`, `Fits` and the fate `"mixed"` in `InodeBufferPool`; `FirstSlotsReadBack` and `LastWriteIsKept` are what is left to promise |
| A new inode's pointers are 0, the superblock, and a new directory writes "." and ".." there | `lc_inode_manager.h:93` | `InodeManager_files` with `BlankFirst = FALSE`: `NoStrayAccess` fails; `CreateDirectory` in `Directory` |
| `create_directory` of a name that exists keeps the inode it has allocated | `lc_inode_manager.h:284` | `CreateExisting` in `Directory` |
| With assertions compiled in no directory gets an entry: `name.length() < 0` | `lc_inode_manager.h:521` | `Directory` is of a build without them |
| A new directory block counts twice, so blocks are at indices 0, 2, 4 | `lc_inode_manager.h:548` | `Grow` in `Directory`; harmless but for the pointers unused |

Two answers of the queues are weaker than their comments: `dequeue` of the ring says
"Queue is empty" (`lc_mpmc_queue.h:91`) while completed items wait behind the cell
of a slower producer, and that of the priority queue (line 244) while `size_` is 0
because an item was taken and uncounted before its producer counted it. `FifoQueue`
and `PriorityQueue` allow both, and the workers, which poll, live with both.

## 7. Not modelled, and why

- *Thread pool*: the constructor starts the threads (line 242) before it
  initialises `stop_`, `draining_` and the heartbeats, which they read; with
  threads that may end at once nothing would be left to state. A second
  concurrent `shutdown`, which returns at once.
- *Device*: a block read or write is one atomic step; opening files and errors of
  the system calls are left out.
- *Crashes of the machine*: the code keeps no journal and orders no writes, so
  there is no promise to check beyond what `FlushDurable` and `StoppedIsDurable` say.
  Failed assertions, which lose what is cached, and restarts after them are in
  `InodeBufferPool`; `InodeManager` and `Directory` restart after orderly stops only.
- *Image format*: creating the file and filling it with zeros.
- *Inode manager*: pointer blocks in use: the entries of a new one are 0, so that a
  write behind the direct pointers goes to block 0, which a build with assertions
  refuses (it stops at every file block there is anyhow); the model ends there.
  `inode.blocks` of files, which nothing reads. The two nested guards of
  `create_directory` (line 288): the sweep that makes room for the new inode waits for
  the lock of every frame it comes to, the parent's included, which the thread holds
  itself, and then goes on for ever. The callers of the pool models hold one guard and
  call nothing under it, as all other code does.
- *Flush thread*: `start` and `stop` from several threads are in the model, and the
  properties are for one; no code calls them from two.
- *Utilities*: allocation and assertion helpers, constants, trace ids. They have
  no shared state but one atomic counter.
