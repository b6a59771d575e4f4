--------------------------- MODULE BlockBufferPool ----------------------------
(***************************************************************************)
(* LCBlockBufferPool (include/lc_block_buffer.h): PoolSize frames that     *)
(* cache blocks of the device, a map from block to frame under a           *)
(* reader/writer mutex, one spin lock per frame and a clock sweep that     *)
(* picks the frame to reuse.                                               *)
(*                                                                         *)
(* A thread is between two calls (pc "idle") or at one of the places where *)
(* the code lets another thread in.  A critical section that takes one     *)
(* lock and waits for nothing inside is one step, enabled when the lock is *)
(* free; the three sections inside which a thread waits or returns to its  *)
(* caller hold their lock in a variable: find_frame's exclusive section    *)
(* (map_writer), unpin_block's shared one (map_readers) and the guard that *)
(* access_frame_lock returns (frame_locks).                                *)
(***************************************************************************)
EXTENDS BlockRequests, Integers, FiniteSets

CONSTANTS
    Thread,      \* the threads that call the pool
    Ops,         \* the operations they use
    PoolSize,    \* pool_size_
    MaxUsage,    \* 5: the cap of add_lc_block_usage_count
    RefModulus,  \* 256: ref_count is a uint8_t
    MaxDemand,   \* bound: frames that calls and pins take up at a time
    NoFrame,     \* "not in frame_map_"
    NoThread     \* the holder of a free lock

Frame == 0 .. PoolSize - 1

ASSUME OpsAssumption == Ops \subseteq AllOps
ASSUME PoolSizeAssumption == PoolSize \in Nat \ {0}
ASSUME MaxUsageAssumption == MaxUsage \in Nat \ {0}
ASSUME RefModulusAssumption == RefModulus \in Nat \ {0}
ASSUME MaxDemandAssumption == MaxDemand \in Nat \ {0}
ASSUME NoFrameAssumption == NoFrame \notin Frame
ASSUME NoThreadAssumption == NoThread \notin Thread

VARIABLES
    frames,       \* frames_
    frame_map,    \* frame_map_
    clock_hand,   \* clock_hand_, modulo pool_size_
    device,       \* the blocks of block_device_
    map_writer,   \* the thread that holds frame_map_mutex_ exclusively
    map_readers,  \* the threads inside unpin_block's shared section
    frame_locks,  \* frame_locks_: the thread whose guard holds the lock
    pc,           \* where each thread stands
    req,          \* the call each thread is in, and its result
    idx,          \* the local frame_index (flush_all: i) of each thread
    pins,         \* pins[t][b]: pins t took on b and has not given back
    owed          \* blocks a flush must still see on the device (history)

vars == << frames, frame_map, clock_hand, device, map_writer, map_readers,
           frame_locks, pc, req, idx, pins, owed >>

cache == << frames, frame_map, clock_hand, device >>
locks == << map_writer, map_readers, frame_locks >>

PC == {"idle", "find", "find_locked", "evict", "load", "frame", "guard",
       "unpin", "unpin_frame", "flush", "flush_frame", "sweep", "done"}

FrameRecord == [valid : BOOLEAN, dirty : BOOLEAN,
                ref_count : 0 .. RefModulus - 1, usage_count : 0 .. MaxUsage,
                block_id : Block \cup {NoBlock}, block : Data \cup {NoData}]

-------------------------------------------------------------------------------
\* What the steps test and how they change one frame.

\* The double check after the frame lock is taken.
HoldsValid(f, b) == frames[f].valid
Holds(f, b) == frames[f].valid /\ frames[f].block_id = b

\* What the clock sweep may reuse.
Reusable(f) == \/ ~frames[f].valid
               \/ frames[f].ref_count = 0 /\ frames[f].usage_count = 0

NeedsWriteBack(f) == frames[f].valid /\ frames[f].dirty

FrameFreeAlways(f) == TRUE
FrameFree(f) == frame_locks[f] = NoThread

\* frame_map_mutex_ can be taken exclusively.
MapFreeOfReaders == map_readers = {}
MapFree == map_readers = {} /\ map_writer = NoThread

\* add_lc_block_usage_count
AddUsage(u) == IF u < MaxUsage THEN u + 1 ELSE MaxUsage

Touched(fr) == [fr EXCEPT !.usage_count = AddUsage(@)]
PinnedNever(fr) == Touched(fr)
PinnedOnce(fr) == [Touched(fr) EXCEPT !.ref_count = (@ + 1) % RefModulus]
UnpinnedAboveOne(fr) ==
    IF fr.ref_count > 1 THEN [fr EXCEPT !.ref_count = @ - 1] ELSE fr
UnpinnedOnce(fr) ==
    IF fr.ref_count > 0 THEN [fr EXCEPT !.ref_count = @ - 1] ELSE fr
WrittenClean(fr, v) == [fr EXCEPT !.block = v]
Written(fr, v) == [fr EXCEPT !.block = v, !.dirty = TRUE]
AgedNever(fr) == fr
Aged(fr) == IF fr.ref_count = 0 /\ fr.usage_count > 0
            THEN [fr EXCEPT !.usage_count = @ - 1] ELSE fr
Emptied(fr) == [fr EXCEPT !.valid = FALSE, !.dirty = FALSE]
Loaded(b, v) == [valid |-> TRUE, dirty |-> FALSE, ref_count |-> 0,
                 usage_count |-> 1, block_id |-> b, block |-> v]

\* frame_map_ once frame f has been given to block b.
RemapKeepingOld(b, f) == [frame_map EXCEPT ![b] = f]
Remap(b, f) ==
    [c \in Block |-> IF c = b THEN f
                    ELSE IF c = frames[f].block_id THEN NoFrame
                    ELSE frame_map[c]]

\* The device once frame f has been written back, if it needed to be, and
\* the flushes that were waiting for its block.
Persist(f) ==
    IF NeedsWriteBack(f)
    THEN /\ device' = [device EXCEPT ![frames[f].block_id] = frames[f].block]
         /\ owed' = [t \in Thread |-> owed[t] \ {frames[f].block_id}]
    ELSE UNCHANGED << device, owed >>

\* The content of the image as the callers see it: a block that is cached in
\* a valid frame has the frame's content, any other block the device's.
Content ==
    [b \in Block |->
        IF frame_map[b] # NoFrame /\ frames[frame_map[b]].valid
        THEN frames[frame_map[b]].block
        ELSE device[b]]

Goto(t, label) == pc' = [pc EXCEPT ![t] = label]

-------------------------------------------------------------------------------

Init ==
    /\ frames = [f \in Frame |->
                    [valid |-> FALSE, dirty |-> FALSE, ref_count |-> 0,
                     usage_count |-> 0, block_id |-> NoBlock, block |-> NoData]]
    /\ frame_map = [b \in Block |-> NoFrame]
    /\ clock_hand = 0
    /\ device \in [Block -> Data]
    /\ map_writer = NoThread
    /\ map_readers = {}
    /\ frame_locks = [f \in Frame |-> NoThread]
    /\ pc = [t \in Thread |-> "idle"]
    /\ req = [t \in Thread |-> NoReq]
    /\ idx = [t \in Thread |-> 0]
    /\ pins = [t \in Thread |-> [b \in Block |-> 0]]
    /\ owed = [t \in Thread |-> {}]

EntryPoint(op) == CASE op = "unpin"       -> "unpin"
                    [] op = "flush_block" -> "flush"
                    [] op = "flush_all"   -> "sweep"
                    [] OTHER              -> "find"

\* The pins on the blocks of B that have not been given back, one by one.
Pinned(B) == UNION {{<< t, b, n >> : n \in 1 .. pins[t][b]} : t \in Thread, b \in B}

\* The threads inside a call that goes to find_frame.
Callers == {t \in Thread : /\ pc[t] \notin {"idle", "done"}
                           /\ EntryPoint(req[t].op) = "find"}

\* The callers' discipline.  A pin kept and a call that goes to find_frame each
\* demand a frame; the demand is at most MaxDemand.  A thread unpins only what it
\* pinned.
Demand == Cardinality(Pinned(Block)) + Cardinality(Callers)

MayIssue(t, r) == /\ EntryPoint(r.op) = "find" => Demand < MaxDemand
                  /\ r.op = "unpin" => pins[t][r.blk] > 0

Begin(t) ==
    /\ pc[t] = "idle"
    /\ \E r \in Request(Ops) :
         /\ MayIssue(t, r)
         /\ Goto(t, EntryPoint(r.op))
         /\ req' = [req EXCEPT ![t] = r]
         /\ owed' = [owed EXCEPT ![t] =
                        {b \in Scope(r) : Content[b] # device[b]}]
    /\ UNCHANGED << cache, locks, idx, pins >>

\* find_frame, the lookup under the shared lock.
FindShared(t) ==
    LET f == frame_map[req[t].blk] IN
    /\ pc[t] = "find"
    /\ map_writer = NoThread
    /\ IF f # NoFrame
       THEN Goto(t, "frame") /\ idx' = [idx EXCEPT ![t] = f]
       ELSE Goto(t, "find_locked") /\ UNCHANGED idx
    /\ UNCHANGED << cache, locks, req, pins, owed >>

\* find_frame, the lookup repeated under the exclusive lock, which is kept
\* if the block is still not mapped.
FindExclusive(t) ==
    LET f == frame_map[req[t].blk] IN
    /\ pc[t] = "find_locked"
    /\ MapFree
    /\ IF f # NoFrame
       THEN /\ Goto(t, "frame")
            /\ idx' = [idx EXCEPT ![t] = f]
            /\ UNCHANGED map_writer
       ELSE /\ Goto(t, "evict")
            /\ map_writer' = t
            /\ UNCHANGED idx
    /\ UNCHANGED << cache, map_readers, frame_locks, req, pins, owed >>

\* evict_frame, one turn of the loop.  Only the thread that holds the map
\* moves the hand, so taking the index and the lock can be one step.
EvictVictim(t) ==
    /\ pc[t] = "evict"
    /\ FrameFree(clock_hand)
    /\ Reusable(clock_hand)
    /\ Persist(clock_hand)
    /\ frames' = [frames EXCEPT ![clock_hand] = Emptied(@)]
    /\ idx' = [idx EXCEPT ![t] = clock_hand]
    /\ clock_hand' = (clock_hand + 1) % PoolSize
    /\ Goto(t, "load")
    /\ UNCHANGED << frame_map, locks, req, pins >>

EvictSkip(t) ==
    /\ pc[t] = "evict"
    /\ FrameFree(clock_hand)
    /\ ~Reusable(clock_hand)
    /\ frames' = [frames EXCEPT ![clock_hand] = Aged(@)]
    /\ clock_hand' = (clock_hand + 1) % PoolSize
    /\ UNCHANGED << frame_map, device, locks, pc, req, idx, pins, owed >>

\* find_frame with the victim's lock held.  Its "retry from top" (the victim
\* valid again with another block) would lock frame_map_mutex_ a second time
\* in the thread that owns it and go no further: there is no step for it.
\* v is what the read of the block yields.
LoadAs(t, v) ==
    LET f == idx[t]
        b == req[t].blk IN
    /\ pc[t] = "load"
    /\ FrameFree(f)
    /\ ~(frames[f].valid /\ frames[f].block_id # b)
    /\ frames' = [frames EXCEPT ![f] = Loaded(b, v)]
    /\ frame_map' = Remap(b, f)
    /\ map_writer' = NoThread
    /\ Goto(t, "frame")
    /\ UNCHANGED << clock_hand, device, map_readers, frame_locks, req, idx,
                    pins, owed >>

Load(t) == LoadAs(t, device[req[t].blk])

\* With the frame's lock held: another block has taken the frame meanwhile.
Retry(t) ==
    /\ pc[t] = "frame"
    /\ FrameFree(idx[t])
    /\ ~Holds(idx[t], req[t].blk)
    /\ Goto(t, "find")
    /\ UNCHANGED << cache, locks, req, idx, pins, owed >>

\* With the frame's lock held and the frame still t's: fr is the frame left.
InFrame(t, op, fr) ==
    /\ pc[t] = "frame"
    /\ req[t].op = op
    /\ FrameFree(idx[t])
    /\ Holds(idx[t], req[t].blk)
    /\ frames' = [frames EXCEPT ![idx[t]] = fr]

Read(t) ==
    /\ InFrame(t, "read", Touched(frames[idx[t]]))
    /\ req' = [req EXCEPT ![t].val = frames[idx[t]].block]
    /\ Goto(t, "done")
    /\ UNCHANGED << frame_map, clock_hand, device, locks, idx, pins, owed >>

Pin(t) ==
    /\ InFrame(t, "pin", PinnedOnce(frames[idx[t]]))
    /\ req' = [req EXCEPT ![t].val = frames[idx[t]].block]
    /\ pins' = [pins EXCEPT ![t][req[t].blk] = @ + 1]
    /\ Goto(t, "done")
    /\ UNCHANGED << frame_map, clock_hand, device, locks, idx, owed >>

Write(t) ==
    /\ InFrame(t, "write", Touched(Written(frames[idx[t]], req[t].val)))
    /\ Goto(t, "done")
    /\ UNCHANGED << frame_map, clock_hand, device, locks, req, idx, pins,
                    owed >>

Access(t) ==
    /\ InFrame(t, "access", PinnedOnce(frames[idx[t]]))
    /\ frame_locks' = [frame_locks EXCEPT ![idx[t]] = t]
    /\ Goto(t, "guard")
    /\ UNCHANGED << frame_map, clock_hand, device, map_writer, map_readers,
                    req, idx, pins, owed >>

\* The holder of the guard changes the block, to v, and calls mark_dirty.
GuardWriteAs(t, v) ==
    /\ pc[t] = "guard"
    /\ frames' = [frames EXCEPT ![idx[t]] = Written(@, v)]
    /\ UNCHANGED << frame_map, clock_hand, device, locks, pc, req, idx, pins,
                    owed >>

GuardWrite(t) == GuardWriteAs(t, req[t].val)

\* ~LCBlockFrameGuard
GuardRelease(t) ==
    /\ pc[t] = "guard"
    /\ frames' = [frames EXCEPT ![idx[t]] = UnpinnedOnce(@)]
    /\ frame_locks' = [frame_locks EXCEPT ![idx[t]] = NoThread]
    /\ Goto(t, "done")
    /\ UNCHANGED << frame_map, clock_hand, device, map_writer, map_readers,
                    req, idx, pins, owed >>

\* unpin_block: the lookup, which its assertion requires to succeed, and then
\* the frame, with the map's shared lock held across both.
UnpinLookup(t) ==
    LET f == frame_map[req[t].blk] IN
    /\ pc[t] = "unpin"
    /\ map_writer = NoThread
    /\ f # NoFrame
    /\ map_readers' = map_readers \cup {t}
    /\ idx' = [idx EXCEPT ![t] = f]
    /\ Goto(t, "unpin_frame")
    /\ UNCHANGED << cache, map_writer, frame_locks, req, pins, owed >>

UnpinFrame(t) ==
    /\ pc[t] = "unpin_frame"
    /\ FrameFree(idx[t])
    /\ frames' = IF Holds(idx[t], req[t].blk)
                 THEN [frames EXCEPT ![idx[t]] = UnpinnedOnce(@)]
                 ELSE frames
    /\ map_readers' = map_readers \ {t}
    /\ pins' = [pins EXCEPT ![t][req[t].blk] = @ - 1]
    /\ Goto(t, "done")
    /\ UNCHANGED << frame_map, clock_hand, device, map_writer, frame_locks,
                    req, idx, owed >>

\* flush_block: the lookup, whose lock is dropped, and then the frame.
FlushLookup(t) ==
    LET f == frame_map[req[t].blk] IN
    /\ pc[t] = "flush"
    /\ map_writer = NoThread
    /\ IF f # NoFrame
       THEN Goto(t, "flush_frame") /\ idx' = [idx EXCEPT ![t] = f]
       ELSE Goto(t, "done") /\ UNCHANGED idx
    /\ UNCHANGED << cache, locks, req, pins, owed >>

\* The frame once it has been written back, if it needed to be.
CleanFrame(f) ==
    /\ Persist(f)
    /\ frames' = IF NeedsWriteBack(f)
                 THEN [frames EXCEPT ![f].dirty = FALSE]
                 ELSE frames

FlushFrame(t) ==
    /\ pc[t] = "flush_frame"
    /\ FrameFree(idx[t])
    /\ IF Holds(idx[t], req[t].blk)
       THEN CleanFrame(idx[t])
       ELSE UNCHANGED << frames, device, owed >>
    /\ Goto(t, "done")
    /\ UNCHANGED << frame_map, clock_hand, locks, req, idx, pins >>

\* flush_all, one turn of its loop.
LastFrameEarly(i) == i + 2 >= PoolSize
LastFrame(i) == i + 1 = PoolSize

SweepFrame(t) ==
    /\ pc[t] = "sweep"
    /\ FrameFree(idx[t])
    /\ CleanFrame(idx[t])
    /\ IF LastFrame(idx[t])
       THEN Goto(t, "done") /\ UNCHANGED idx
       ELSE idx' = [idx EXCEPT ![t] = @ + 1] /\ UNCHANGED pc
    /\ UNCHANGED << frame_map, clock_hand, locks, req, pins >>

\* The call returns and its locals go.
Return(t) ==
    /\ pc[t] = "done"
    /\ Goto(t, "idle")
    /\ req' = [req EXCEPT ![t] = NoReq]
    /\ idx' = [idx EXCEPT ![t] = 0]
    /\ UNCHANGED << cache, locks, pins, owed >>

\* The steps a thread takes once it is in a call.
Step(t) ==
    \/ FindShared(t)
    \/ FindExclusive(t)
    \/ EvictVictim(t)
    \/ EvictSkip(t)
    \/ Load(t)
    \/ Retry(t)
    \/ Read(t)
    \/ Pin(t)
    \/ Write(t)
    \/ Access(t)
    \/ GuardWrite(t)
    \/ GuardRelease(t)
    \/ UnpinLookup(t)
    \/ UnpinFrame(t)
    \/ FlushLookup(t)
    \/ FlushFrame(t)
    \/ SweepFrame(t)
    \/ Return(t)

Next == \E t \in Thread : Begin(t) \/ Step(t)

Spec == Init /\ [][Next]_vars

-------------------------------------------------------------------------------
(* Fairness: the scheduler runs every thread that can take a step.  Nothing *)
(* makes a thread begin a call.                                             *)
FairSpec == Spec /\ \A t \in Thread : WF_vars(Step(t))

\* The same, with callers that give back every pin they keep.
Unpin(t) == Begin(t) /\ req'[t].op = "unpin"
FairPinSpec == FairSpec /\ \A t \in Thread : WF_vars(Unpin(t))

\* Every variable keeps the type its declaration gives it (LCBlockBufferPool's
\* members and the locals of its functions).
TypeOK ==
    /\ frames \in [Frame -> FrameRecord]
    /\ frame_map \in [Block -> Frame \cup {NoFrame}]
    /\ clock_hand \in Frame
    /\ device \in [Block -> Data]
    /\ map_writer \in Thread \cup {NoThread}
    /\ map_readers \subseteq Thread
    /\ frame_locks \in [Frame -> Thread \cup {NoThread}]
    /\ pc \in [Thread -> PC]
    /\ req \in [Thread -> [op : AllOps \cup {"none"}, blk : Block \cup {NoBlock},
                           val : Data \cup {NoData}]]
    /\ idx \in [Thread -> Frame]
    /\ pins \in [Thread -> [Block -> Nat]]
    /\ owed \in [Thread -> SUBSET Block]

\* frame_map_ and the frames' block_id agree: a mapped block is in the frame
\* the map names and a frame's block is mapped to that frame, so that no block
\* is ever cached twice (find_frame's second lookup and its map erase).
MapExact ==
    /\ \A b \in Block :
         frame_map[b] # NoFrame => frames[frame_map[b]].block_id = b
    /\ \A f \in Frame :
         frames[f].block_id \in Block => frame_map[frames[f].block_id] = f

\* A frame that is not marked dirty can be dropped: it has nothing the device
\* does not have (dirty is set by every writer, cleared only after the device
\* has been written).
CleanFramesMatchDevice ==
    \A f \in Frame : frames[f].valid /\ ~frames[f].dirty
                        => frames[f].block = device[frames[f].block_id]

\* Between evict_frame's unlock of the victim and find_frame's lock of it
\* nobody revives the victim, so the "retry from top" of find_frame, which
\* would lock the map mutex twice in one thread, is never taken.
VictimStaysInvalid ==
    \A t \in Thread : pc[t] = "load" => ~frames[idx[t]].valid

\* A block that a thread has pinned is cached, so the assertion of
\* unpin_block holds for every caller that unpins only what it pinned.
PinnedIsResident ==
    \A t \in Thread, b \in Block :
        pins[t][b] > 0 => /\ frame_map[b] # NoFrame
                          /\ frames[frame_map[b]].valid

PinsOn(b) == Cardinality(Pinned({b}))
GuardsOn(f) == {t \in Thread : pc[t] = "guard" /\ idx[t] = f}

\* ref_count counts exactly the pins not given back and the live guard of the
\* frame: read_block's and access_frame_lock's increments all meet their
\* decrement, however evictions and retries fall between them.
RefCountExact ==
    \A f \in Frame : frames[f].valid =>
        frames[f].ref_count
            = PinsOn(frames[f].block_id) + Cardinality(GuardsOn(f))

\* When a flush returns, every block in its scope that had not reached the
\* device when it was called has been written to it since, by the flush or by
\* an eviction that overtook it (flush_block, flush_all).
FlushDurable ==
    \A t \in Thread : pc[t] = "done" => owed[t] = {}

\* While a thread holds the guard of access_frame_lock only that thread
\* changes what the block reads as, and the frame is not given away: a
\* read-modify-write through the guard cannot lose an update.
GuardKept(t) ==
    pc[t] = "guard" /\ pc'[t] = "guard" =>
        LET b == req[t].blk IN
        /\ frame_map'[b] = frame_map[b]
        /\ Content'[b] # Content[b] => GuardWrite(t)

GuardIsExclusive == [][\A t \in Thread : GuardKept(t)]_vars

\* The phase of a call in terms of BlockStore.
Phase == [t \in Thread |-> IF pc[t] \in {"idle", "done"} THEN pc[t]
                                                      ELSE "pending"]

Store == INSTANCE BlockStore
            WITH content <- Content, disk <- device, phase <- Phase

\* The pool is a block store: reads, writes, guards, evictions and flushes of
\* any number of threads act as if on one array of blocks.
ImplementsStore == Store!Spec

\* Calls keep completing while the demand for frames can be met: from any state
\* with a thread inside a call, some call completes (find_frame's and the frame
\* operations' retry loops cannot keep everybody busy with nobody getting
\* anywhere).
CallsComplete ==
    (\E t \in Thread : pc[t] # "idle") ~> (\E t \in Thread : pc[t] = "done")

\* evict_frame's sweep always finds a frame to reuse (its loop is followed by
\* "No reusable frame found, this should not happen").  It holds only while
\* MaxDemand is at most PoolSize.
EvictionFindsFrame ==
    \A t \in Thread : pc[t] = "evict" ~> pc[t] = "load"
===============================================================================
