-------------------------- MODULE BufferPools_proofs ---------------------------
(***************************************************************************)
(* Proofs about the two buffer pools, for any number of threads, blocks,   *)
(* inodes, values and frames.                                              *)
(*                                                                         *)
(* BlockBufferPool, in three parts: the inductive invariant IInv and the   *)
(* safety invariants that follow from it; what the callers see, up to the  *)
(* refinement of BlockStore; and the counts of the pins.                   *)
(*                                                                         *)
(* InodeBufferPool, for any table of inodes and any number of inodes per   *)
(* block.  What the steps do to the frames, the map and the locks is       *)
(* CacheInv of the block pool, which holds whatever a load yields; what is *)
(* added here is where the last writes are, and how far a stop has come.   *)
(***************************************************************************)
EXTENDS InodeBufferPool, BlockBufferPoolInv, FiniteSetTheorems, TLAPS

-------------------------------------------------------------------------------
(* What the operators on one frame do. *)

LEMMA FrameOpsType ==
    ASSUME NEW fr \in FrameRecord
    PROVE  /\ Touched(fr) \in FrameRecord
           /\ PinnedOnce(fr) \in FrameRecord
           /\ UnpinnedOnce(fr) \in FrameRecord
           /\ Aged(fr) \in FrameRecord
  <1> USE MaxUsageAssumption, RefModulusAssumption DEF FrameRecord
  <1>1. Touched(fr) \in FrameRecord
    BY DEF Touched, AddUsage
  <1>2. \A n \in Nat : n % RefModulus \in 0 .. RefModulus - 1
    OBVIOUS
  <1>3. PinnedOnce(fr) \in FrameRecord
    BY <1>1, <1>2 DEF PinnedOnce
  <1>4. UnpinnedOnce(fr) \in FrameRecord
    BY DEF UnpinnedOnce
  <1>5. Aged(fr) \in FrameRecord
    BY DEF Aged
  <1> QED BY <1>1, <1>3, <1>4, <1>5

Same(g, fr) == /\ g.valid = fr.valid
               /\ g.dirty = fr.dirty
               /\ g.block_id = fr.block_id
               /\ g.block = fr.block

LEMMA FrameOpsKeep ==
    ASSUME NEW fr \in FrameRecord
    PROVE  /\ Same(Touched(fr), fr)
           /\ Same(PinnedOnce(fr), fr)
           /\ Same(UnpinnedOnce(fr), fr)
           /\ Same(Aged(fr), fr)
  BY DEF Same, Touched, PinnedOnce, UnpinnedOnce, Aged, FrameRecord

LEMMA EmptiedFrame ==
    ASSUME NEW fr \in FrameRecord
    PROVE  /\ Emptied(fr) \in FrameRecord
           /\ ~Emptied(fr).valid
           /\ Emptied(fr).block_id = fr.block_id
  BY DEF Emptied, FrameRecord

LEMMA WrittenFrame ==
    ASSUME NEW fr \in FrameRecord, NEW v \in Data
    PROVE  /\ Written(fr, v) \in FrameRecord
           /\ Written(fr, v).valid = fr.valid
           /\ Written(fr, v).dirty
           /\ Written(fr, v).block_id = fr.block_id
           /\ Written(fr, v).block = v
  BY DEF Written, FrameRecord

LEMMA RequestFields ==
    ASSUME NEW ops, ops \subseteq AllOps, NEW r \in Request(ops)
    PROVE  /\ r \in [op : AllOps \cup {"none"}, blk : Block \cup {NoBlock},
                     val : Data \cup {NoData}]
           /\ r.op \in ops
           /\ r.op # "flush_all" => r.blk \in Block
           /\ r.op \in WriteOps => r.val \in Data
           /\ \A ops2 : r.op \in ops2 => r \in Request(ops2)
  BY DEF Request, AllOps, ReadOps, WriteOps, FlushOps

FrameInv == FramesLoaded /\ MapExact

LEMMA SameFrame ==
    ASSUME TypeOK, FrameInv,
           NEW f \in Frame, NEW g \in FrameRecord, Same(g, frames[f]),
           frames' = [frames EXCEPT ![f] = g], UNCHANGED << frame_map, device >>
    PROVE  /\ frames' \in [Frame -> FrameRecord]
           /\ FrameInv'
           /\ CleanFramesMatchDevice => CleanFramesMatchDevice'
           /\ \A e \in Frame : Same(frames'[e], frames[e])
  <1> USE DEF TypeOK
  <1>1. frames' \in [Frame -> FrameRecord]
    OBVIOUS
  <1>2. \A e \in Frame : Same(frames'[e], frames[e])
    BY DEF Same
  <1>3. FrameInv'
    BY <1>1, <1>2 DEF Same, FrameInv, FramesLoaded, MapExact
  <1>4. CleanFramesMatchDevice => CleanFramesMatchDevice'
    BY <1>2 DEF Same, CleanFramesMatchDevice
  <1> QED BY <1>1, <1>2, <1>3, <1>4

LEMMA WriteFrame ==
    ASSUME TypeOK, FrameInv,
           NEW f \in Frame, NEW g \in FrameRecord, NEW v \in Data,
           Same(g, Written(frames[f], v)), frames[f].valid,
           frames' = [frames EXCEPT ![f] = g], UNCHANGED << frame_map, device >>
    PROVE  /\ frames' \in [Frame -> FrameRecord]
           /\ FrameInv'
           /\ CleanFramesMatchDevice => CleanFramesMatchDevice'
           /\ \A e \in Frame :
                /\ frames'[e].valid = frames[e].valid
                /\ frames'[e].block_id = frames[e].block_id
                /\ frames[e].dirty => frames'[e].dirty
  <1>1. /\ frames \in [Frame -> FrameRecord]
        /\ frame_map \in [Block -> Frame \cup {NoFrame}]
    BY DEF TypeOK
  <1>2. frames' \in [Frame -> FrameRecord]
    BY <1>1
  <1>3. /\ g.valid = frames[f].valid
        /\ g.block_id = frames[f].block_id
        /\ g.dirty
        /\ g.block = v
    BY <1>1, WrittenFrame DEF Same
  <1>4. \A e \in Frame :
          /\ frames'[e].valid = frames[e].valid
          /\ frames'[e].block_id = frames[e].block_id
          /\ frames[e].dirty => frames'[e].dirty
    BY <1>1, <1>3
  <1>5. FrameInv'
    BY <1>1, <1>3, <1>4 DEF FrameInv, FramesLoaded, MapExact
  <1>6. CleanFramesMatchDevice => CleanFramesMatchDevice'
    BY <1>1, <1>3, <1>4 DEF CleanFramesMatchDevice
  <1> QED BY <1>2, <1>4, <1>5, <1>6

LEMMA PersistStep ==
    ASSUME TypeOK, FrameInv, NEW f \in Frame, Persist(f)
    PROVE  /\ device' \in [Block -> Data]
           /\ owed' \in [Thread -> SUBSET Block]
           /\ \A u \in Thread : owed'[u] \subseteq owed[u]
           /\ \A u \in Thread :
                NeedsWriteBack(f) => frames[f].block_id \notin owed'[u]
           /\ NeedsWriteBack(f) => device'[frames[f].block_id] = frames[f].block
           /\ \A b \in Block : ~NeedsWriteBack(f) \/ b # frames[f].block_id
                                 => device'[b] = device[b]
  BY DEF Persist, NeedsWriteBack, TypeOK, FrameInv, FramesLoaded

LEMMA CleanStep ==
    ASSUME TypeOK, FrameInv, NEW f \in Frame, CleanFrame(f), UNCHANGED frame_map
    PROVE  /\ frames' \in [Frame -> FrameRecord]
           /\ FrameInv'
           /\ CleanFramesMatchDevice => CleanFramesMatchDevice'
           /\ \A e \in Frame :
                /\ frames'[e].valid = frames[e].valid
                /\ frames'[e].block_id = frames[e].block_id
                /\ e # f => frames'[e] = frames[e]
           /\ \A u \in Thread : \A b \in owed'[u] :
                b \in owed[u] /\ (NeedsWriteBack(frame_map[b]) => frame_map[b] # f)
  <1>1. /\ frames \in [Frame -> FrameRecord]
        /\ frame_map \in [Block -> Frame \cup {NoFrame}]
        /\ f # NoFrame
    BY NoFrameAssumption DEF TypeOK
  <1>2. Persist(f)
    BY DEF CleanFrame
  <1>3. frames' \in [Frame -> FrameRecord]
    <2>1. [frames[f] EXCEPT !.dirty = FALSE] \in FrameRecord
      BY <1>1 DEF FrameRecord
    <2> QED BY <1>1, <2>1 DEF CleanFrame
  <1>4. \A e \in Frame :
          /\ frames'[e].valid = frames[e].valid
          /\ frames'[e].block_id = frames[e].block_id
          /\ frames'[e].block = frames[e].block
          /\ e # f => frames'[e] = frames[e]
    BY <1>1 DEF CleanFrame, FrameRecord
  <1>5. FramesLoaded' /\ MapExact'
    BY <1>1, <1>4 DEF FrameInv, FramesLoaded, MapExact
  <1>6. CleanFramesMatchDevice => CleanFramesMatchDevice'
    <2> SUFFICES ASSUME CleanFramesMatchDevice,
                        NEW e \in Frame, frames'[e].valid, ~frames'[e].dirty
                 PROVE  frames'[e].block = device'[frames'[e].block_id]
      BY DEF CleanFramesMatchDevice
    <2>1. CASE e = f /\ NeedsWriteBack(f)
      BY <1>2, <1>4, <2>1, PersistStep
    <2>2. CASE e # f \/ ~NeedsWriteBack(f)
      <3>1. frames[e].valid /\ ~frames[e].dirty
        BY <1>1, <1>4, <2>2 DEF CleanFrame
      <3>2. frames[e].block = device[frames[e].block_id]
        BY <3>1 DEF CleanFramesMatchDevice
      <3>3. frames[e].block_id # frames[f].block_id \/ ~NeedsWriteBack(f)
        BY <1>1, <2>2, <3>1 DEF FrameInv, FramesLoaded, MapExact, NeedsWriteBack
      <3>4. frames[e].block_id \in Block
        BY <3>1 DEF FrameInv, FramesLoaded
      <3> QED BY <1>2, <1>4, <3>2, <3>3, <3>4, PersistStep
    <2> QED BY <2>1, <2>2
  <1>7. ASSUME NEW u \in Thread, NEW b \in owed'[u]
        PROVE  b \in owed[u] /\ (NeedsWriteBack(frame_map[b]) => frame_map[b] # f)
    <2>1. b \in owed[u] /\ b \in Block
      BY <1>2, PersistStep
    <2>2. NeedsWriteBack(f) => b # frames[f].block_id
      BY <1>2, PersistStep
    <2> QED BY <1>1, <2>1, <2>2 DEF FrameInv, MapExact
  <1>8. FrameInv'
    BY <1>5 DEF FrameInv
  <1> QED BY <1>3, <1>4, <1>6, <1>7, <1>8

\* In a call on one block, the block is one of the image.
LEMMA PendingBlock ==
    ASSUME NEW t \in Thread, RequestFits(t),
           pc[t] \in {"find", "find_locked", "evict", "load", "frame", "guard",
                     "unpin", "unpin_frame", "flush", "flush_frame"}
    PROVE  req[t].blk \in Block
  BY DEF RequestFits, Request, ReadOps, WriteOps

\* A step of t leaves the other threads where their requests put them.
LEMMA OthersFit ==
    ASSUME \A u \in Thread : RequestFits(u), NEW t \in Thread,
           \A u \in Thread : u # t => /\ pc'[u] = pc[u]
                                    /\ req'[u] = req[u]
                                    /\ idx'[u] = idx[u]
                                    /\ pins'[u] = pins[u],
           RequestFits(t)'
    PROVE  \A u \in Thread : RequestFits(u)'
  BY DEF RequestFits

LEMMA PendingWrite ==
    ASSUME NEW t \in Thread, RequestFits(t),
           pc[t] \in {"frame", "guard"}, req[t].op \in WriteOps
    PROVE  req[t].val \in Data
  BY DEF RequestFits, Request, ReadOps, WriteOps

-------------------------------------------------------------------------------
(* The inductive invariant. *)

LEMMA CacheInit == Init => CacheInv
  <1> SUFFICES ASSUME Init PROVE CacheInv
    OBVIOUS
  <1> USE PoolSizeAssumption, RefModulusAssumption, MaxUsageAssumption,
          NoThreadAssumption, NoBlockAssumption
  <1>1. TypeOK
    BY DEF Init, TypeOK, FrameRecord, Frame, PC, NoReq, AllOps
  <1>2. LocksHeld
    BY DEF Init, LocksHeld
  <1>3. \A t \in Thread : RequestFits(t)
    BY DEF Init, RequestFits
  <1>4. FramesLoaded /\ MapExact
    BY DEF Init, FramesLoaded, MapExact
  <1>5. MissStands /\ VictimStaysInvalid /\ GuardedFrameStays
    BY DEF Init, MissStands, VictimStaysInvalid, GuardedFrameStays
  <1> QED BY <1>1, <1>2, <1>3, <1>4, <1>5 DEF CacheInv

\* Every step keeps it, whatever value of the block's type a load yields and a
\* guard's holder leaves.
LEMMA CacheNext ==
    ASSUME CacheInv, NEW t \in Thread,
           \/ Begin(t) \/ Step(t)
           \/ \E v \in Data : LoadAs(t, v) \/ GuardWriteAs(t, v)
    PROVE  CacheInv'
  <1> USE NoThreadAssumption, NoFrameAssumption, NoBlockAssumption
  <1> DEFINE RequestsFit == \A u \in Thread : RequestFits(u)
  <1>0. /\ TypeOK
        /\ LocksHeld
        /\ RequestsFit
        /\ FrameInv
        /\ MissStands
        /\ VictimStaysInvalid
        /\ GuardedFrameStays
    BY DEF CacheInv, FrameInv
  <1> SUFFICES /\ TypeOK'
               /\ LocksHeld'
               /\ RequestsFit'
               /\ FrameInv'
               /\ MissStands'
               /\ VictimStaysInvalid'
               /\ GuardedFrameStays'
    BY DEF CacheInv, FrameInv
  <1>1. CASE Begin(t)
    <2>1. PICK r \in Request(AllOps) :
            /\ MayIssue(t, r)
            /\ pc' = [pc EXCEPT ![t] = EntryPoint(r.op)]
            /\ req' = [req EXCEPT ![t] = r]
            /\ owed' = [owed EXCEPT ![t] =
                            {b \in Scope(r) : Content[b] # device[b]}]
      BY <1>1, OpsAssumption, RequestFields DEF cache, Begin, Goto
    <2>2. /\ pc[t] = "idle"
          /\ UNCHANGED << cache, locks, idx, pins >>
      BY <1>1 DEF cache, Begin
    <2>3. EntryPoint(r.op) \in {"find", "unpin", "flush", "sweep"}
      BY DEF cache, EntryPoint
    <2>4. Scope(r) \subseteq Block
      BY RequestFields DEF cache, Scope
    <2>5. TypeOK'
      BY <1>0, <2>1, <2>2, <2>3, <2>4, RequestFields DEF cache, TypeOK, PC, locks
    <2>6. FrameInv'
      BY <1>0, <2>2 DEF cache, FrameInv, FramesLoaded, MapExact
    <2>7. LocksHeld'
      BY <1>0, <2>1, <2>2, <2>3 DEF cache, TypeOK, LocksHeld, locks
    <2>8. RequestsFit'
      <3>1. \/ EntryPoint(r.op) = "unpin" /\ r.op = "unpin"
            \/ EntryPoint(r.op) = "flush" /\ r.op = "flush_block"
            \/ EntryPoint(r.op) = "sweep" /\ r.op = "flush_all"
            \/ EntryPoint(r.op) = "find" /\ r.op \in ReadOps \cup WriteOps
        BY RequestFields DEF cache, EntryPoint, AllOps, ReadOps, WriteOps, FlushOps
      <3>2. \A ops : r.op \in ops => r \in Request(ops)
        BY RequestFields
      <3>3. pc'[t] = EntryPoint(r.op) /\ req'[t] = r /\ pins' = pins
        BY <1>0, <2>1, <2>2 DEF cache, TypeOK
      <3>4. RequestFits(t)'
        BY <2>1, <3>1, <3>2, <3>3 DEF cache, RequestFits, MayIssue
      <3>5. \A u \in Thread : u # t => /\ pc'[u] = pc[u]
                                     /\ req'[u] = req[u]
                                     /\ idx'[u] = idx[u]
                                     /\ pins'[u] = pins[u]
        BY <1>0, <2>1, <2>2 DEF cache, TypeOK
      <3> QED BY <1>0, <3>4, <3>5, OthersFit
    <2>9. MissStands' /\ VictimStaysInvalid' /\ GuardedFrameStays'
      BY <1>0, <2>1, <2>2, <2>3
         DEF cache, TypeOK, MissStands, VictimStaysInvalid, GuardedFrameStays,
             Holds
    <2> QED BY <2>5, <2>6, <2>7, <2>8, <2>9
  <1>2. CASE FindShared(t)
    <2>1. req[t].blk \in Block
      BY <1>0, <1>2, PendingBlock DEF cache, FindShared
    <2>2. TypeOK'
      BY <1>0, <1>2, <2>1 DEF cache, FindShared, TypeOK, PC, locks, Goto
    <2>3. FrameInv'
      BY <1>0, <1>2
         DEF cache, FindShared, FrameInv, FramesLoaded, MapExact
    <2>4. LocksHeld'
      BY <1>0, <1>2, <2>1
         DEF cache, FindShared, TypeOK, LocksHeld, MapFree, locks, Goto
    <2>5. RequestsFit'
      <3>1. \A u \in Thread : u # t => /\ pc'[u] = pc[u]
                                     /\ req'[u] = req[u]
                                     /\ idx'[u] = idx[u]
                                     /\ pins'[u] = pins[u]
        BY <1>0, <1>2 DEF cache, FindShared, TypeOK, Goto
      <3>2. RequestFits(t)'
        BY <1>0, <1>2 DEF cache, FindShared, TypeOK, RequestFits, Goto
      <3> QED BY <1>0, <3>1, <3>2, OthersFit
    <2>6. MissStands' /\ VictimStaysInvalid' /\ GuardedFrameStays'
      <3>1. UNCHANGED << frames, frame_map, req >>
        BY <1>2 DEF cache, FindShared
      <3>2. \A u \in Thread :
              pc'[u] \in {"evict", "load", "guard"} =>
                /\ pc[u] = pc'[u]
                /\ idx'[u] = idx[u]
        BY <1>0, <1>2 DEF cache, FindShared, TypeOK, Goto
      <3>3. MissStands'
        BY <1>0, <3>1, <3>2 DEF cache, MissStands
      <3>4. VictimStaysInvalid' /\ GuardedFrameStays'
        BY <1>0, <3>1, <3>2
           DEF cache, VictimStaysInvalid, GuardedFrameStays, Holds
      <3> QED BY <3>3, <3>4
    <2> QED BY <2>2, <2>3, <2>4, <2>5, <2>6
  <1>3. CASE FindExclusive(t)
    <2>1. req[t].blk \in Block
      BY <1>0, <1>3, PendingBlock DEF cache, FindExclusive
    <2>2. TypeOK'
      BY <1>0, <1>3, <2>1 DEF cache, FindExclusive, TypeOK, PC, locks, Goto
    <2>3. FrameInv'
      BY <1>0, <1>3
         DEF cache, FindExclusive, FrameInv, FramesLoaded, MapExact
    <2>4. LocksHeld'
      <3>1. /\ UNCHANGED << map_readers, frame_locks >>
            /\ pc[t] = "find_locked"
            /\ MapFree
            /\ \/ /\ pc' = [pc EXCEPT ![t] = "frame"]
                  /\ UNCHANGED map_writer
               \/ /\ pc' = [pc EXCEPT ![t] = "evict"]
                  /\ map_writer' = t
            /\ \A u \in Thread : u # t => idx'[u] = idx[u]
        BY <1>0, <1>3 DEF FindExclusive, TypeOK, Goto
      <3>2. pc'[t] \in {"frame", "evict"} /\ map_writer = NoThread /\ map_readers = {}
        BY <1>0, <3>1 DEF TypeOK, MapFree
      <3>3. \A u \in Thread : u # t => pc'[u] = pc[u]
        BY <1>0, <3>1 DEF TypeOK
      <3>4. ASSUME NEW u \in Thread
            PROVE  /\ map_writer' = u <=> pc'[u] \in {"evict", "load"}
                   /\ u \in map_readers' <=> pc'[u] = "unpin_frame"
        <4>1. CASE u = t
          BY <1>0, <3>1, <3>2, <4>1 DEF TypeOK, LocksHeld
        <4>2. CASE u # t
          BY <1>0, <3>1, <3>2, <3>3, <4>2 DEF LocksHeld
        <4> QED BY <4>1, <4>2
      <3>5. ASSUME NEW f \in Frame, NEW u \in Thread
            PROVE  frame_locks'[f] = u <=> pc'[u] = "guard" /\ idx'[u] = f
        BY <1>0, <3>1, <3>2, <3>3, <3>5 DEF LocksHeld
      <3> QED BY <3>1, <3>2, <3>4, <3>5 DEF LocksHeld
    <2>5. RequestsFit'
      <3>1. \A u \in Thread : u # t => /\ pc'[u] = pc[u]
                                     /\ req'[u] = req[u]
                                     /\ idx'[u] = idx[u]
                                     /\ pins'[u] = pins[u]
        BY <1>0, <1>3 DEF cache, FindExclusive, TypeOK, Goto
      <3>2. RequestFits(t)'
        BY <1>0, <1>3 DEF cache, FindExclusive, TypeOK, RequestFits, Goto
      <3> QED BY <1>0, <3>1, <3>2, OthersFit
    <2>6. MissStands' /\ VictimStaysInvalid' /\ GuardedFrameStays'
      <3>1. UNCHANGED << frames, frame_map, req >>
        BY <1>3 DEF cache, FindExclusive
      <3>2. \A u \in Thread :
              pc'[u] \in {"load", "guard"} =>
                /\ pc[u] = pc'[u]
                /\ idx'[u] = idx[u]
        BY <1>0, <1>3 DEF cache, FindExclusive, TypeOK, Goto
      <3>3. MissStands'
        BY <1>0, <1>3, <3>1 DEF cache, FindExclusive, TypeOK, MissStands, Goto
      <3>4. VictimStaysInvalid' /\ GuardedFrameStays'
        BY <1>0, <3>1, <3>2
           DEF cache, VictimStaysInvalid, GuardedFrameStays, Holds
      <3> QED BY <3>3, <3>4
    <2> QED BY <2>2, <2>3, <2>4, <2>5, <2>6
  <1>4. CASE EvictVictim(t)
    <2>1. /\ clock_hand \in Frame /\ clock_hand' \in Frame
          /\ clock_hand # NoFrame
          /\ Persist(clock_hand)
          /\ UNCHANGED frame_map
      BY <1>0, <1>4, PoolSizeAssumption DEF EvictVictim, TypeOK, Frame
    <2>2. /\ device' \in [Block -> Data]
          /\ owed' \in [Thread -> SUBSET Block]
          /\ \A u \in Thread : owed'[u] \subseteq owed[u]
          /\ \A u \in Thread :
               NeedsWriteBack(clock_hand) => frames[clock_hand].block_id \notin owed'[u]
          /\ \A b \in Block :
               ~NeedsWriteBack(clock_hand) \/ b # frames[clock_hand].block_id
                 => device'[b] = device[b]
      BY <1>0, <2>1, PersistStep
    <2>3. /\ frames' \in [Frame -> FrameRecord]
          /\ ~frames'[clock_hand].valid
          /\ frames'[clock_hand].block_id = frames[clock_hand].block_id
          /\ \A e \in Frame : e # clock_hand => frames'[e] = frames[e]
      <3>1. frames \in [Frame -> FrameRecord]
        BY <1>0 DEF TypeOK
      <3>2. frames' = [frames EXCEPT ![clock_hand] = Emptied(frames[clock_hand])]
        BY <1>4 DEF EvictVictim
      <3> QED BY <2>1, <3>1, <3>2, EmptiedFrame
    <2>4. FrameInv'
      <3>1. FramesLoaded'
        BY <1>0, <2>1, <2>3 DEF FrameInv, FramesLoaded
      <3>2. MapExact'
        BY <1>0, <2>1, <2>3 DEF TypeOK, FrameInv, MapExact
      <3> QED BY <3>1, <3>2 DEF FrameInv
    <2>5. TypeOK'
      BY <1>0, <1>4, <2>1, <2>2, <2>3 DEF EvictVictim, TypeOK, PC, locks, Goto
    <2>6. LocksHeld'
      BY <1>0, <1>4 DEF EvictVictim, TypeOK, LocksHeld, locks, Goto
    <2>7. RequestsFit'
      BY <1>0, <1>4 DEF EvictVictim, TypeOK, RequestFits, Goto
    <2>8. MissStands' /\ VictimStaysInvalid'
      BY <1>0, <1>4, <2>3
         DEF EvictVictim, TypeOK, LocksHeld, MissStands, VictimStaysInvalid,
             Goto
    <2>9. GuardedFrameStays'
      <3> SUFFICES ASSUME NEW u \in Thread, pc'[u] = "guard"
                   PROVE  Holds(idx[u], req[u].blk)'
        BY DEF GuardedFrameStays, Holds
      <3>1. u # t /\ pc[u] = "guard" /\ idx'[u] = idx[u] /\ req'[u] = req[u]
        BY <1>0, <1>4 DEF EvictVictim, TypeOK, Goto
      <3>2. idx[u] \in Frame /\ idx[u] # clock_hand
        BY <1>0, <1>4, <2>1, <3>1 DEF EvictVictim, FrameFree, LocksHeld, TypeOK
      <3> QED BY <1>0, <2>3, <3>1, <3>2 DEF GuardedFrameStays, Holds
    <2> QED BY <2>4, <2>5, <2>6, <2>7, <2>8, <2>9
  <1>5. CASE EvictSkip(t)
    <2>1. /\ clock_hand \in Frame
          /\ Aged(frames[clock_hand]) \in FrameRecord
          /\ Same(Aged(frames[clock_hand]), frames[clock_hand])
          /\ frames' = [frames EXCEPT ![clock_hand] = Aged(frames[clock_hand])]
      BY <1>0, <1>5, FrameOpsType, FrameOpsKeep DEF EvictSkip, InFrame, TypeOK
    <2>2. UNCHANGED << frame_map, device >>
      BY <1>5 DEF EvictSkip
    <2>3. /\ frames' \in [Frame -> FrameRecord]
          /\ FrameInv'
          /\ \A e \in Frame : Same(frames'[e], frames[e])
      BY <1>0, <2>1, <2>2, SameFrame
    <2>4. TypeOK'
      <3>1. clock_hand' \in Frame
        BY <1>0, <1>5, PoolSizeAssumption DEF EvictSkip, TypeOK, Frame
      <3> QED BY <1>0, <1>5, <2>3, <3>1 DEF EvictSkip, TypeOK, locks
    <2>5. LocksHeld'
      BY <1>0, <1>5
         DEF EvictSkip, InFrame, FrameFree, TypeOK, LocksHeld, locks, Goto
    <2>6. RequestsFit'
      BY <1>0, <1>5 DEF EvictSkip, InFrame, TypeOK, RequestFits, Request, Goto
    <2>7. MissStands' /\ VictimStaysInvalid' /\ GuardedFrameStays'
      BY <1>0, <1>5, <2>3
         DEF EvictSkip, InFrame, TypeOK, LocksHeld, MissStands,
             VictimStaysInvalid, GuardedFrameStays, Holds, Same, Goto
    <2> QED BY <2>3, <2>4, <2>5, <2>6, <2>7
  <1>6. CASE Load(t) \/ \E v \in Data : LoadAs(t, v)
    <2>0. PICK v \in Data : LoadAs(t, v)
      BY <1>0, <1>6, PendingBlock DEF Load, LoadAs, TypeOK
    <2> DEFINE f == idx[t]
               b == req[t].blk
    <2>1. f \in Frame /\ b \in Block /\ f # NoFrame /\ b # NoBlock
      BY <1>0, <2>0, PendingBlock DEF LoadAs, TypeOK
    <2>2. Loaded(b, v) \in FrameRecord
      BY <1>0, <2>1, RefModulusAssumption, MaxUsageAssumption
         DEF Loaded, FrameRecord, TypeOK
    <2>3. /\ frames' \in [Frame -> FrameRecord]
          /\ frames'[f] = Loaded(b, v)
          /\ \A e \in Frame : e # f => frames'[e] = frames[e]
      BY <1>0, <2>0, <2>1, <2>2 DEF LoadAs, TypeOK
    <2>4. /\ frame_map' = Remap(b, f)
          /\ frame_map' \in [Block -> Frame \cup {NoFrame}]
      BY <1>0, <2>0, <2>1 DEF LoadAs, Remap, TypeOK
    <2>5. /\ frames'[f].valid
          /\ frames'[f].block_id = b
          /\ frames'[f].block = v
          /\ device' = device
      BY <1>0, <2>0, <2>1, <2>3 DEF Loaded, LoadAs, TypeOK
    <2>6. ~frames[f].valid
      BY <1>0, <2>0 DEF LoadAs, VictimStaysInvalid
    <2>7. frame_map[b] = NoFrame
      BY <1>0, <2>0 DEF LoadAs, MissStands
    <2>8. FrameInv'
      <3>1. FramesLoaded'
        BY <1>0, <2>1, <2>3, <2>5 DEF TypeOK, FrameInv, FramesLoaded
      <3>2. MapExact'
        <4>1. ASSUME NEW c \in Block, frame_map'[c] # NoFrame
              PROVE  frames'[frame_map'[c]].block_id = c
          <5>1. CASE c = b
            BY <2>1, <2>4, <2>5, <5>1 DEF Remap
          <5>2. CASE c # b
            <6>1. frame_map'[c] = frame_map[c] /\ c # frames[f].block_id
              BY <2>4, <4>1, <5>2 DEF Remap
            <6>2. frames[frame_map[c]].block_id = c /\ frame_map[c] \in Frame
              BY <1>0, <4>1, <6>1 DEF FrameInv, MapExact, TypeOK
            <6> QED BY <2>3, <6>1, <6>2
          <5> QED BY <5>1, <5>2
        <4>2. ASSUME NEW e \in Frame, frames'[e].block_id \in Block
              PROVE  frame_map'[frames'[e].block_id] = e
          <5>1. CASE e = f
            BY <2>1, <2>4, <2>5, <5>1 DEF Remap
          <5>2. CASE e # f
            <6>1. frames'[e] = frames[e]
              BY <2>3, <5>2
            <6>2. frame_map[frames[e].block_id] = e
              BY <1>0, <4>2, <6>1 DEF FrameInv, MapExact
            <6>3. frames[e].block_id # b /\ frames[e].block_id # frames[f].block_id
              BY <1>0, <2>1, <2>7, <4>2, <5>2, <6>1, <6>2 DEF FrameInv, MapExact
            <6> QED BY <2>4, <4>2, <6>1, <6>2, <6>3 DEF Remap
          <5> QED BY <5>1, <5>2
        <4> QED BY <4>1, <4>2 DEF MapExact
      <3> QED BY <3>1, <3>2 DEF FrameInv
    <2>9. TypeOK'
      BY <1>0, <2>0, <2>3, <2>4 DEF LoadAs, TypeOK, PC, Goto
    <2>10. LocksHeld'
      BY <1>0, <2>0 DEF LoadAs, TypeOK, LocksHeld, Goto
    <2>11. RequestsFit'
      BY <1>0, <2>0 DEF LoadAs, TypeOK, RequestFits, Goto
    <2>12. MissStands' /\ VictimStaysInvalid'
      BY <1>0, <2>0
         DEF LoadAs, TypeOK, LocksHeld, MissStands, VictimStaysInvalid, Goto
    <2>13. GuardedFrameStays'
      <3> SUFFICES ASSUME NEW u \in Thread, pc'[u] = "guard"
                   PROVE  Holds(idx[u], req[u].blk)'
        BY DEF GuardedFrameStays
      <3>1. u # t /\ pc[u] = "guard" /\ idx'[u] = idx[u] /\ req'[u] = req[u] /\ idx[u] \in Frame
        BY <1>0, <2>0 DEF LoadAs, TypeOK, Goto
      <3>2. idx[u] # f
        BY <1>0, <2>6, <3>1 DEF GuardedFrameStays, Holds
      <3> QED BY <1>0, <2>3, <3>1, <3>2 DEF GuardedFrameStays, Holds
    <2> QED BY <2>8, <2>9, <2>10, <2>11, <2>12, <2>13
  <1>7. CASE Retry(t)
    <2>1. req[t].blk \in Block
      BY <1>0, <1>7, PendingBlock DEF cache, Retry
    <2>2. TypeOK'
      BY <1>0, <1>7, <2>1 DEF cache, Retry, TypeOK, PC, locks, Goto
    <2>3. FrameInv'
      BY <1>0, <1>7
         DEF cache, Retry, FrameInv, FramesLoaded, MapExact
    <2>4. LocksHeld'
      BY <1>0, <1>7, <2>1 DEF cache, Retry, TypeOK, LocksHeld, MapFree, locks, Goto
    <2>5. RequestsFit'
      BY <1>0, <1>7 DEF cache, Retry, TypeOK, RequestFits, Goto
    <2>6. MissStands' /\ VictimStaysInvalid' /\ GuardedFrameStays'
      BY <1>0, <1>7, <2>1
         DEF cache, Retry, TypeOK, MissStands, VictimStaysInvalid,
             GuardedFrameStays, Holds, Goto
    <2> QED BY <2>2, <2>3, <2>4, <2>5, <2>6
  <1>8. CASE Read(t)
    <2>1. /\ idx[t] \in Frame
          /\ Touched(frames[idx[t]]) \in FrameRecord
          /\ Same(Touched(frames[idx[t]]), frames[idx[t]])
          /\ frames' = [frames EXCEPT ![idx[t]] = Touched(frames[idx[t]])]
      BY <1>0, <1>8, FrameOpsType, FrameOpsKeep DEF Read, InFrame, TypeOK
    <2>2. UNCHANGED << frame_map, device >>
      BY <1>8 DEF Read
    <2>3. /\ frames' \in [Frame -> FrameRecord]
          /\ FrameInv'
          /\ \A e \in Frame : Same(frames'[e], frames[e])
      BY <1>0, <2>1, <2>2, SameFrame
    <2>4. TypeOK'
      <3>1. req[t].blk \in Block
        BY <1>0, <1>8, PendingBlock DEF Read, InFrame
      <3>2. frames[idx[t]].block \in Data \cup {NoData}
        BY <1>0 DEF TypeOK, FrameRecord
      <3>3. [req[t] EXCEPT !.val = frames[idx[t]].block]
              \in [op : AllOps \cup {"none"}, blk : Block \cup {NoBlock},
                  val : Data \cup {NoData}]
        <4>1. req[t] \in [op : AllOps \cup {"none"}, blk : Block \cup {NoBlock},
                          val : Data \cup {NoData}]
          BY <1>0 DEF TypeOK
        <4> QED BY <3>2, <4>1
      <3>4. req' = [req EXCEPT ![t] = [req[t] EXCEPT !.val = frames[idx[t]].block]]
        BY <1>8 DEF Read
      <3>5. req' \in [Thread -> [op : AllOps \cup {"none"}, blk : Block \cup {NoBlock},
                               val : Data \cup {NoData}]]
        BY <1>0, <3>3, <3>4 DEF TypeOK
      <3>6. pins' \in [Thread -> [Block -> Nat]]
        BY <1>0, <1>8, <3>1 DEF Read, TypeOK
      <3> QED BY <1>0, <1>8, <2>3, <3>5, <3>6
                 DEF Read, InFrame, TypeOK, PC, locks, Goto
    <2>5. LocksHeld'
      <3>1. /\ UNCHANGED << map_writer, map_readers, frame_locks, idx >>
            /\ pc[t] = "frame" /\ pc' = [pc EXCEPT ![t] = "done"]
        BY <1>8 DEF Read, InFrame, locks, Goto
      <3> QED BY <1>0, <3>1 DEF TypeOK, LocksHeld
    <2>6. RequestsFit'
      BY <1>0, <1>8 DEF Read, InFrame, TypeOK, RequestFits, Request, Goto
    <2>7. MissStands' /\ VictimStaysInvalid' /\ GuardedFrameStays'
      BY <1>0, <1>8, <2>3
         DEF Read, InFrame, TypeOK, LocksHeld, MissStands,
             VictimStaysInvalid, GuardedFrameStays, Holds, Same, Goto
    <2> QED BY <2>3, <2>4, <2>5, <2>6, <2>7
  <1>9. CASE Pin(t)
    <2>1. /\ idx[t] \in Frame
          /\ PinnedOnce(frames[idx[t]]) \in FrameRecord
          /\ Same(PinnedOnce(frames[idx[t]]), frames[idx[t]])
          /\ frames' = [frames EXCEPT ![idx[t]] = PinnedOnce(frames[idx[t]])]
      BY <1>0, <1>9, FrameOpsType, FrameOpsKeep DEF Pin, InFrame, TypeOK
    <2>2. UNCHANGED << frame_map, device >>
      BY <1>9 DEF Pin
    <2>3. /\ frames' \in [Frame -> FrameRecord]
          /\ FrameInv'
          /\ \A e \in Frame : Same(frames'[e], frames[e])
      BY <1>0, <2>1, <2>2, SameFrame
    <2>4. TypeOK'
      <3>1. req[t].blk \in Block
        BY <1>0, <1>9, PendingBlock DEF Pin, InFrame
      <3>2. frames[idx[t]].block \in Data \cup {NoData}
        BY <1>0 DEF TypeOK, FrameRecord
      <3>3. [req[t] EXCEPT !.val = frames[idx[t]].block]
              \in [op : AllOps \cup {"none"}, blk : Block \cup {NoBlock},
                  val : Data \cup {NoData}]
        <4>1. req[t] \in [op : AllOps \cup {"none"}, blk : Block \cup {NoBlock},
                          val : Data \cup {NoData}]
          BY <1>0 DEF TypeOK
        <4> QED BY <3>2, <4>1
      <3>4. req' = [req EXCEPT ![t] = [req[t] EXCEPT !.val = frames[idx[t]].block]]
        BY <1>9 DEF Pin
      <3>5. req' \in [Thread -> [op : AllOps \cup {"none"}, blk : Block \cup {NoBlock},
                               val : Data \cup {NoData}]]
        BY <1>0, <3>3, <3>4 DEF TypeOK
      <3>6. pins' \in [Thread -> [Block -> Nat]]
        BY <1>0, <1>9, <3>1 DEF Pin, TypeOK
      <3> QED BY <1>0, <1>9, <2>3, <3>5, <3>6
                 DEF Pin, InFrame, TypeOK, PC, locks, Goto
    <2>5. LocksHeld'
      BY <1>0, <1>9 DEF Pin, InFrame, FrameFree, TypeOK, LocksHeld, locks, Goto
    <2>6. RequestsFit'
      BY <1>0, <1>9 DEF Pin, InFrame, TypeOK, RequestFits, Request, Goto
    <2>7. MissStands' /\ VictimStaysInvalid' /\ GuardedFrameStays'
      BY <1>0, <1>9, <2>3
         DEF Pin, InFrame, TypeOK, LocksHeld, MissStands,
             VictimStaysInvalid, GuardedFrameStays, Holds, Same, Goto
    <2> QED BY <2>3, <2>4, <2>5, <2>6, <2>7
  <1>10. CASE Write(t)
    <2>1. req[t].val \in Data
      BY <1>0, <1>10, PendingWrite, RequestFields
         DEF Write, InFrame, RequestFits, WriteOps, AllOps
    <2>2. /\ idx[t] \in Frame
          /\ frames[idx[t]] \in FrameRecord
      BY <1>0 DEF TypeOK
    <2>3. /\ Touched(Written(frames[idx[t]], req[t].val)) \in FrameRecord
          /\ Same(Touched(Written(frames[idx[t]], req[t].val)), Written(frames[idx[t]], req[t].val))
      BY <2>1, <2>2, WrittenFrame, FrameOpsType, FrameOpsKeep DEF Same
    <2>4. /\ frames' = [frames EXCEPT ![idx[t]] = Touched(Written(frames[idx[t]], req[t].val))]
          /\ frames[idx[t]].valid
          /\ UNCHANGED << frame_map, device >>
      BY <1>0, <1>10 DEF Write, InFrame, Holds, GuardedFrameStays
    <2>5. /\ frames' \in [Frame -> FrameRecord]
          /\ FrameInv'
          /\ \A e \in Frame :
               /\ frames'[e].valid = frames[e].valid
               /\ frames'[e].block_id = frames[e].block_id
               /\ frames[e].dirty => frames'[e].dirty
      BY <1>0, <2>1, <2>2, <2>3, <2>4, WriteFrame
    <2>6. TypeOK'
      BY <1>0, <1>10, <2>5 DEF Write, TypeOK, PC, locks, Goto
    <2>7. LocksHeld'
      BY <1>0, <1>10 DEF Write, InFrame, TypeOK, LocksHeld, locks, Goto
    <2>8. RequestsFit'
      BY <1>0, <1>10 DEF Write, InFrame, TypeOK, RequestFits, Goto
    <2>9. MissStands' /\ VictimStaysInvalid' /\ GuardedFrameStays'
      BY <1>0, <1>10, <2>5
         DEF Write, InFrame, TypeOK, MissStands, VictimStaysInvalid,
             GuardedFrameStays, Holds, Goto
    <2> QED BY <2>5, <2>6, <2>7, <2>8, <2>9
  <1>11. CASE Access(t)
    <2>1. /\ idx[t] \in Frame
          /\ PinnedOnce(frames[idx[t]]) \in FrameRecord
          /\ Same(PinnedOnce(frames[idx[t]]), frames[idx[t]])
          /\ frames' = [frames EXCEPT ![idx[t]] = PinnedOnce(frames[idx[t]])]
      BY <1>0, <1>11, FrameOpsType, FrameOpsKeep DEF Access, InFrame, TypeOK
    <2>2. UNCHANGED << frame_map, device >>
      BY <1>11 DEF Access
    <2>3. /\ frames' \in [Frame -> FrameRecord]
          /\ FrameInv'
          /\ \A e \in Frame : Same(frames'[e], frames[e])
      BY <1>0, <2>1, <2>2, SameFrame
    <2>4. TypeOK'
      BY <1>0, <1>11, <2>3 DEF Access, InFrame, TypeOK, PC, Frame, locks, Goto
    <2>5. LocksHeld'
      BY <1>0, <1>11
         DEF Access, InFrame, FrameFree, TypeOK, LocksHeld, locks, Goto
    <2>6. RequestsFit'
      BY <1>0, <1>11 DEF Access, InFrame, TypeOK, RequestFits, Request, Goto
    <2>7. MissStands' /\ VictimStaysInvalid' /\ GuardedFrameStays'
      BY <1>0, <1>11, <2>3
         DEF Access, InFrame, TypeOK, LocksHeld, MissStands,
             VictimStaysInvalid, GuardedFrameStays, Holds, Same, Goto
    <2> QED BY <2>3, <2>4, <2>5, <2>6, <2>7
  <1>12. CASE GuardWrite(t) \/ \E v \in Data : GuardWriteAs(t, v)
    <2>0. GuardWrite(t) => req[t].val \in Data
      BY <1>0, PendingWrite, RequestFields
         DEF GuardWrite, GuardWriteAs, RequestFits, WriteOps, AllOps
    <2>1. PICK v \in Data : GuardWriteAs(t, v)
      BY <1>12, <2>0 DEF GuardWrite
    <2>2. /\ idx[t] \in Frame
          /\ frames[idx[t]] \in FrameRecord
      BY <1>0 DEF TypeOK
    <2>3. /\ Written(frames[idx[t]], v) \in FrameRecord
          /\ Same(Written(frames[idx[t]], v), Written(frames[idx[t]], v))
      BY <2>1, <2>2, WrittenFrame DEF Same
    <2>4. /\ frames' = [frames EXCEPT ![idx[t]] = Written(frames[idx[t]], v)]
          /\ frames[idx[t]].valid
          /\ UNCHANGED << frame_map, device >>
      BY <1>0, <2>1 DEF GuardWriteAs, Holds, GuardedFrameStays
    <2>5. /\ frames' \in [Frame -> FrameRecord]
          /\ FrameInv'
          /\ \A e \in Frame :
               /\ frames'[e].valid = frames[e].valid
               /\ frames'[e].block_id = frames[e].block_id
               /\ frames[e].dirty => frames'[e].dirty
      BY <1>0, <2>1, <2>2, <2>3, <2>4, WriteFrame
    <2>6. TypeOK'
      BY <1>0, <2>1, <2>5 DEF GuardWriteAs, TypeOK, PC, locks, Goto
    <2>7. LocksHeld'
      BY <1>0, <2>1 DEF GuardWriteAs, TypeOK, LocksHeld, locks, Goto
    <2>8. RequestsFit'
      BY <1>0, <2>1 DEF GuardWriteAs, TypeOK, RequestFits, Goto
    <2>9. MissStands' /\ VictimStaysInvalid' /\ GuardedFrameStays'
      BY <1>0, <2>1, <2>5
         DEF GuardWriteAs, TypeOK, MissStands, VictimStaysInvalid,
             GuardedFrameStays, Holds, Goto
    <2> QED BY <2>5, <2>6, <2>7, <2>8, <2>9
  <1>13. CASE GuardRelease(t)
    <2>1. /\ idx[t] \in Frame
          /\ UnpinnedOnce(frames[idx[t]]) \in FrameRecord
          /\ Same(UnpinnedOnce(frames[idx[t]]), frames[idx[t]])
          /\ frames' = [frames EXCEPT ![idx[t]] = UnpinnedOnce(frames[idx[t]])]
      BY <1>0, <1>13, FrameOpsType, FrameOpsKeep
         DEF GuardRelease, InFrame, TypeOK
    <2>2. UNCHANGED << frame_map, device >>
      BY <1>13 DEF GuardRelease
    <2>3. /\ frames' \in [Frame -> FrameRecord]
          /\ FrameInv'
          /\ \A e \in Frame : Same(frames'[e], frames[e])
      BY <1>0, <2>1, <2>2, SameFrame
    <2>4. TypeOK'
      BY <1>0, <1>13, <2>3 DEF GuardRelease, TypeOK, PC, Goto
    <2>5. LocksHeld'
      <3>1. /\ UNCHANGED << map_writer, map_readers, idx >>
            /\ pc[t] = "guard" /\ pc' = [pc EXCEPT ![t] = "done"]
            /\ frame_locks' = [frame_locks EXCEPT ![idx[t]] = NoThread]
        BY <1>13 DEF GuardRelease, Goto
      <3> QED BY <1>0, <3>1 DEF TypeOK, LocksHeld
    <2>6. RequestsFit'
      BY <1>0, <1>13
         DEF GuardRelease, InFrame, TypeOK, RequestFits, Request, Goto
    <2>7. MissStands' /\ VictimStaysInvalid' /\ GuardedFrameStays'
      BY <1>0, <1>13, <2>3
         DEF GuardRelease, InFrame, TypeOK, LocksHeld, MissStands,
             VictimStaysInvalid, GuardedFrameStays, Holds, Same, Goto
    <2> QED BY <2>3, <2>4, <2>5, <2>6, <2>7
  <1>14. CASE UnpinLookup(t)
    <2>1. req[t].blk \in Block
      BY <1>0, <1>14, PendingBlock DEF cache, UnpinLookup
    <2>2. TypeOK'
      BY <1>0, <1>14, <2>1 DEF cache, UnpinLookup, TypeOK, PC, locks, Goto
    <2>3. FrameInv'
      BY <1>0, <1>14
         DEF cache, UnpinLookup, FrameInv, FramesLoaded, MapExact
    <2>4. LocksHeld'
      BY <1>0, <1>14, <2>1
         DEF cache, UnpinLookup, TypeOK, LocksHeld, MapFree, locks, Goto
    <2>5. RequestsFit'
      BY <1>0, <1>14 DEF cache, UnpinLookup, TypeOK, RequestFits, Goto
    <2>6. MissStands' /\ VictimStaysInvalid' /\ GuardedFrameStays'
      BY <1>0, <1>14, <2>1
         DEF cache, UnpinLookup, TypeOK, MissStands, VictimStaysInvalid,
             GuardedFrameStays, Holds, Goto
    <2> QED BY <2>2, <2>3, <2>4, <2>5, <2>6
  <1>15. CASE UnpinFrame(t)
    <2>1. idx[t] \in Frame /\ frames[idx[t]] \in FrameRecord /\ req[t].blk \in Block
      BY <1>0, <1>15, PendingBlock DEF UnpinFrame, TypeOK
    <2>2. UNCHANGED << frame_map, device >>
      BY <1>15 DEF UnpinFrame
    <2>3. PICK g \in FrameRecord :
            Same(g, frames[idx[t]]) /\ frames' = [frames EXCEPT ![idx[t]] = g]
      <3>1. CASE Holds(idx[t], req[t].blk)
        <4>1. frames' = [frames EXCEPT ![idx[t]] = UnpinnedOnce(frames[idx[t]])]
          BY <1>15, <3>1 DEF UnpinFrame
        <4> QED BY <2>1, <4>1, FrameOpsType, FrameOpsKeep
      <3>2. CASE ~Holds(idx[t], req[t].blk)
        <4>1. frames' = [frames EXCEPT ![idx[t]] = frames[idx[t]]]
          BY <1>0, <1>15, <3>2 DEF UnpinFrame, TypeOK
        <4> QED BY <2>1, <4>1 DEF Same
      <3> QED BY <3>1, <3>2
    <2>4. /\ frames' \in [Frame -> FrameRecord]
          /\ FrameInv'
          /\ \A e \in Frame : Same(frames'[e], frames[e])
      BY <1>0, <2>1, <2>2, <2>3, SameFrame
    <2>5. TypeOK'
      <3>1. pins[t][req[t].blk] - 1 \in Nat
        BY <1>0, <1>15, <2>1 DEF UnpinFrame, RequestFits, TypeOK
      <3>2. pins' \in [Thread -> [Block -> Nat]]
        BY <1>0, <1>15, <2>1, <3>1 DEF UnpinFrame, TypeOK
      <3> QED BY <1>0, <1>15, <2>4, <3>2 DEF UnpinFrame, TypeOK, PC, Goto
    <2>6. LocksHeld'
      BY <1>0, <1>15 DEF UnpinFrame, TypeOK, LocksHeld, Goto
    <2>7. RequestsFit'
      BY <1>0, <1>15 DEF UnpinFrame, TypeOK, RequestFits, Goto
    <2>8. MissStands' /\ VictimStaysInvalid' /\ GuardedFrameStays'
      BY <1>0, <1>15, <2>4
         DEF UnpinFrame, TypeOK, MissStands, VictimStaysInvalid,
             GuardedFrameStays, Holds, Same, Goto
    <2> QED BY <2>4, <2>5, <2>6, <2>7, <2>8
  <1>16. CASE FlushLookup(t)
    <2>1. req[t].blk \in Block
      BY <1>0, <1>16, PendingBlock DEF cache, FlushLookup
    <2>2. TypeOK'
      BY <1>0, <1>16, <2>1 DEF cache, FlushLookup, TypeOK, PC, locks, Goto
    <2>3. FrameInv'
      BY <1>0, <1>16
         DEF cache, FlushLookup, FrameInv, FramesLoaded, MapExact
    <2>4. LocksHeld'
      BY <1>0, <1>16, <2>1
         DEF cache, FlushLookup, TypeOK, LocksHeld, MapFree, locks, Goto
    <2>5. RequestsFit'
      <3>1. \A u \in Thread : u # t => /\ pc'[u] = pc[u]
                                     /\ req'[u] = req[u]
                                     /\ idx'[u] = idx[u]
                                     /\ pins'[u] = pins[u]
        BY <1>0, <1>16 DEF cache, FlushLookup, TypeOK, Goto
      <3>2. RequestFits(t)'
        BY <1>0, <1>16 DEF cache, FlushLookup, TypeOK, RequestFits, Goto
      <3> QED BY <1>0, <3>1, <3>2, OthersFit
    <2>6. MissStands' /\ VictimStaysInvalid' /\ GuardedFrameStays'
      <3>1. UNCHANGED << frames, frame_map, req >>
        BY <1>16 DEF cache, FlushLookup
      <3>2. \A u \in Thread :
              pc'[u] \in {"evict", "load", "guard"} =>
                /\ pc[u] = pc'[u]
                /\ idx'[u] = idx[u]
        BY <1>0, <1>16 DEF cache, FlushLookup, TypeOK, Goto
      <3>3. MissStands'
        BY <1>0, <3>1, <3>2 DEF cache, MissStands
      <3>4. VictimStaysInvalid' /\ GuardedFrameStays'
        BY <1>0, <3>1, <3>2
           DEF cache, VictimStaysInvalid, GuardedFrameStays, Holds
      <3> QED BY <3>3, <3>4
    <2> QED BY <2>2, <2>3, <2>4, <2>5, <2>6
  <1>17. CASE FlushFrame(t)
    <2>1. idx[t] \in Frame /\ UNCHANGED frame_map
      BY <1>0, <1>17 DEF FlushFrame, TypeOK
    <2>2. /\ frames' \in [Frame -> FrameRecord]
          /\ device' \in [Block -> Data]
          /\ owed' \in [Thread -> SUBSET Block]
          /\ FrameInv'
          /\ \A e \in Frame :
               /\ frames'[e].valid = frames[e].valid
               /\ frames'[e].block_id = frames[e].block_id
      <3>1. CASE CleanFrame(idx[t])
        <4>1. device' \in [Block -> Data] /\ owed' \in [Thread -> SUBSET Block]
          BY <1>0, <2>1, <3>1, PersistStep DEF CleanFrame
        <4> QED BY <1>0, <2>1, <3>1, <4>1, CleanStep
      <3>2. CASE UNCHANGED << frames, device, owed >>
        BY <1>0, <2>1, <3>2 DEF TypeOK, FrameInv, FramesLoaded, MapExact
      <3> QED BY <1>17, <3>1, <3>2 DEF FlushFrame
    <2>3. TypeOK'
      BY <1>0, <1>17, <2>2 DEF FlushFrame, TypeOK, PC, locks, Goto
    <2>4. LocksHeld'
      BY <1>0, <1>17 DEF FlushFrame, TypeOK, LocksHeld, locks, Goto
    <2>5. RequestsFit'
      BY <1>0, <1>17 DEF FlushFrame, TypeOK, RequestFits, Goto
    <2>6. MissStands' /\ VictimStaysInvalid' /\ GuardedFrameStays'
      <3>1. \A u \in Thread :
              pc'[u] \in {"evict", "load", "guard"} =>
                /\ u # t
                /\ pc[u] = pc'[u]
                /\ idx'[u] = idx[u]
                /\ idx[u] \in Frame
        BY <1>0, <1>17 DEF FlushFrame, TypeOK, Goto
      <3>2. UNCHANGED << frame_map, req >>
        BY <1>17 DEF FlushFrame
      <3>3. MissStands'
        BY <1>0, <3>1, <3>2 DEF MissStands
      <3>4. VictimStaysInvalid'
        BY <1>0, <2>2, <3>1 DEF VictimStaysInvalid
      <3>5. GuardedFrameStays'
        BY <1>0, <2>2, <3>1, <3>2 DEF GuardedFrameStays, Holds
      <3> QED BY <3>3, <3>4, <3>5
    <2> QED BY <2>2, <2>3, <2>4, <2>5, <2>6
  <1>18. CASE SweepFrame(t)
    <2>1. idx[t] \in Frame /\ CleanFrame(idx[t]) /\ UNCHANGED frame_map
      BY <1>0, <1>18 DEF SweepFrame, TypeOK
    <2>2. Persist(idx[t])
      BY <2>1 DEF CleanFrame
    <2>3. /\ frames' \in [Frame -> FrameRecord]
          /\ FrameInv'
          /\ \A e \in Frame :
               /\ frames'[e].valid = frames[e].valid
               /\ frames'[e].block_id = frames[e].block_id
               /\ e # idx[t] => frames'[e] = frames[e]
          /\ \A u \in Thread : \A b \in owed'[u] :
               b \in owed[u] /\ (NeedsWriteBack(frame_map[b]) => frame_map[b] # idx[t])
      BY <1>0, <2>1, CleanStep
    <2>4. TypeOK'
      <3>1. idx' \in [Thread -> Frame]
        <4>1. ~LastFrame(idx[t]) => idx[t] + 1 \in Frame
          BY <2>1, PoolSizeAssumption DEF LastFrame, Frame
        <4> QED BY <1>0, <1>18, <4>1 DEF SweepFrame, TypeOK
      <3>2. device' \in [Block -> Data] /\ owed' \in [Thread -> SUBSET Block]
        BY <1>0, <2>1, <2>2, PersistStep
      <3> QED BY <1>0, <1>18, <2>3, <3>1, <3>2
                 DEF SweepFrame, TypeOK, PC, locks, Goto
    <2>5. LocksHeld'
      BY <1>0, <1>18 DEF SweepFrame, TypeOK, LocksHeld, locks, Goto
    <2>6. RequestsFit'
      <3>1. \A u \in Thread : u # t => /\ pc'[u] = pc[u]
                                     /\ req'[u] = req[u]
                                     /\ idx'[u] = idx[u]
                                     /\ pins'[u] = pins[u]
        BY <1>0, <1>18 DEF SweepFrame, TypeOK, Goto
      <3>2. RequestFits(t)'
        BY <1>0, <1>18 DEF SweepFrame, TypeOK, RequestFits, Goto
      <3> QED BY <1>0, <3>1, <3>2, OthersFit
    <2>7. MissStands' /\ VictimStaysInvalid' /\ GuardedFrameStays'
      <3>1. \A u \in Thread :
              pc'[u] \in {"evict", "load", "guard"} =>
                /\ u # t
                /\ pc[u] = pc'[u]
                /\ idx'[u] = idx[u]
                /\ idx[u] \in Frame
        BY <1>0, <1>18 DEF SweepFrame, TypeOK, Goto
      <3>2. UNCHANGED << frame_map, req >>
        BY <1>18 DEF SweepFrame
      <3>3. MissStands'
        BY <1>0, <3>1, <3>2 DEF MissStands
      <3>4. VictimStaysInvalid'
        BY <1>0, <2>3, <3>1 DEF VictimStaysInvalid
      <3>5. GuardedFrameStays'
        BY <1>0, <2>3, <3>1, <3>2 DEF GuardedFrameStays, Holds
      <3> QED BY <3>3, <3>4, <3>5
    <2> QED BY <2>3, <2>4, <2>5, <2>6, <2>7
  <1>19. CASE Return(t)
    <2>1. TypeOK'
      BY <1>0, <1>19, PoolSizeAssumption
         DEF cache, Return, TypeOK, Frame, PC, NoReq, locks, Goto
    <2>2. FrameInv'
      BY <1>0, <1>19
         DEF cache, Return, FrameInv, FramesLoaded, MapExact
    <2>3. LocksHeld'
      BY <1>0, <1>19 DEF cache, Return, TypeOK, LocksHeld, locks, Goto
    <2>4. RequestsFit'
      BY <1>0, <1>19 DEF cache, Return, TypeOK, RequestFits, Goto
    <2>5. MissStands' /\ VictimStaysInvalid' /\ GuardedFrameStays'
      BY <1>0, <1>19
         DEF cache, Return, TypeOK, MissStands, VictimStaysInvalid,
             GuardedFrameStays, Holds, Goto
    <2> QED BY <2>1, <2>2, <2>3, <2>4, <2>5
  <1> QED BY <1>1, <1>2, <1>3, <1>4, <1>5, <1>6, <1>7, <1>8, <1>9, <1>10,
             <1>11, <1>12, <1>13, <1>14, <1>15, <1>16, <1>17, <1>18, <1>19
             DEF Step

LEMMA CacheStutter == CacheInv /\ UNCHANGED vars => CacheInv'
  <1> SUFFICES ASSUME CacheInv, UNCHANGED vars PROVE CacheInv'
    OBVIOUS
  <1> USE DEF vars
  <1>1. TypeOK'
    BY DEF CacheInv, TypeOK
  <1>2. LocksHeld'
    BY DEF CacheInv, LocksHeld
  <1>3. \A t \in Thread : RequestFits(t)'
    BY DEF CacheInv, RequestFits
  <1>4. FramesLoaded' /\ MapExact'
    BY DEF CacheInv, FramesLoaded, MapExact
  <1>5. MissStands' /\ VictimStaysInvalid' /\ GuardedFrameStays'
    BY DEF CacheInv, MissStands, VictimStaysInvalid, GuardedFrameStays, Holds
  <1> QED BY <1>1, <1>2, <1>3, <1>4, <1>5 DEF CacheInv

-------------------------------------------------------------------------------
(* What the frames hold: clean frames are copies of the device, and what a     *)
(* flush owes stays dirty until the flush comes to it.                         *)

\* The steps that change no frame's block and not the device.
Quiet(t) ==
    \/ Begin(t) \/ FindShared(t) \/ FindExclusive(t) \/ EvictSkip(t) \/ Retry(t)
    \/ Read(t) \/ Pin(t) \/ Access(t) \/ GuardRelease(t) \/ UnpinLookup(t)
    \/ UnpinFrame(t) \/ FlushLookup(t) \/ Return(t)

LEMMA QuietFrames ==
    ASSUME CacheInv, NEW t \in Thread, Quiet(t)
    PROVE  /\ UNCHANGED << frame_map, device >>
           /\ \A e \in Frame : Same(frames'[e], frames[e])
  <1>0. TypeOK /\ FrameInv /\ idx[t] \in Frame /\ clock_hand \in Frame
    BY DEF CacheInv, FrameInv, TypeOK
  <1>1. CASE \/ Begin(t) \/ FindShared(t) \/ FindExclusive(t) \/ Retry(t)
             \/ UnpinLookup(t) \/ FlushLookup(t) \/ Return(t)
    <2>1. UNCHANGED << frames, frame_map, device >>
      BY <1>1 DEF Begin, FindShared, FindExclusive, Retry, UnpinLookup,
                  FlushLookup, Return, cache
    <2> QED BY <2>1 DEF Same
  <1>2. CASE \/ EvictSkip(t) \/ Read(t) \/ Pin(t) \/ Access(t)
             \/ GuardRelease(t) \/ UnpinFrame(t)
    <2>1. UNCHANGED << frame_map, device >>
      BY <1>2 DEF EvictSkip, Read, Pin, Access, GuardRelease, UnpinFrame
    <2>2. /\ frames[idx[t]] \in FrameRecord
          /\ frames[clock_hand] \in FrameRecord
      BY <1>0 DEF TypeOK
    <2>3. \/ frames' = frames
          \/ \E f \in Frame : \E g \in FrameRecord :
               Same(g, frames[f]) /\ frames' = [frames EXCEPT ![f] = g]
      BY <1>0, <1>2, <2>2, FrameOpsType, FrameOpsKeep
         DEF EvictSkip, Read, Pin, Access, GuardRelease, UnpinFrame, InFrame
    <2> QED BY <1>0, <2>1, <2>3 DEF Same, TypeOK
  <1> QED BY <1>1, <1>2 DEF Quiet

\* What a write of v through a frame makes of it.
LEMMA WriteStepsAs ==
    ASSUME CacheInv, NEW t \in Thread, NEW v \in Data,
           (Write(t) /\ v = req[t].val) \/ GuardWriteAs(t, v)
    PROVE  /\ idx[t] \in Frame
           /\ req[t].blk \in Block
           /\ Holds(idx[t], req[t].blk)
           /\ UNCHANGED << frame_map, device, owed >>
           /\ \E g \in FrameRecord :
                /\ Same(g, Written(frames[idx[t]], v))
                /\ frames' = [frames EXCEPT ![idx[t]] = g]
  <1>1. /\ idx[t] \in Frame
        /\ frames[idx[t]] \in FrameRecord
        /\ req[t].blk \in Block
    BY PendingBlock
       DEF CacheInv, TypeOK, Write, GuardWriteAs, InFrame, RequestFits, Request,
           WriteOps
  <1>2. Holds(idx[t], req[t].blk)
    BY DEF Write, InFrame, GuardWriteAs, CacheInv, GuardedFrameStays
  <1>3. \E g \in FrameRecord :
          /\ Same(g, Written(frames[idx[t]], v))
          /\ frames' = [frames EXCEPT ![idx[t]] = g]
    <2> DEFINE w == Written(frames[idx[t]], v)
    <2>1. w \in FrameRecord
      BY <1>1, WrittenFrame
    <2>2. \/ frames' = [frames EXCEPT ![idx[t]] = w]
          \/ frames' = [frames EXCEPT ![idx[t]] = Touched(w)]
      BY DEF Write, InFrame, GuardWriteAs
    <2> HIDE DEF w
    <2>3. Same(w, w) /\ Same(Touched(w), w) /\ Touched(w) \in FrameRecord
      BY <2>1, FrameOpsType, FrameOpsKeep DEF Same
    <2>4. \E g \in FrameRecord :
            Same(g, w) /\ frames' = [frames EXCEPT ![idx[t]] = g]
      BY <2>1, <2>2, <2>3
    <2> QED BY <2>4 DEF w
  <1>4. UNCHANGED << frame_map, device, owed >>
    BY DEF Write, GuardWriteAs
  <1> QED BY <1>1, <1>2, <1>3, <1>4

\* The value of a write request, through the frame or its guard.
LEMMA WriteSteps ==
    ASSUME CacheInv, NEW t \in Thread, Write(t) \/ GuardWrite(t)
    PROVE  /\ idx[t] \in Frame
           /\ req[t].blk \in Block
           /\ req[t].val \in Data
           /\ Holds(idx[t], req[t].blk)
           /\ UNCHANGED << frame_map, device, owed >>
           /\ \E g \in FrameRecord :
                /\ Same(g, Written(frames[idx[t]], req[t].val))
                /\ frames' = [frames EXCEPT ![idx[t]] = g]
  <1>1. req[t].val \in Data
    BY PendingWrite
       DEF CacheInv, TypeOK, Write, GuardWrite, GuardWriteAs, InFrame, RequestFits,
           Request, WriteOps
  <1> QED BY <1>1, WriteStepsAs DEF GuardWrite

\* What evict_frame leaves of its victim and of the device.
LEMMA EvictStep ==
    ASSUME CacheInv, NEW t \in Thread, EvictVictim(t)
    PROVE  /\ clock_hand \in Frame /\ clock_hand # NoFrame
           /\ Persist(clock_hand)
           /\ frame_map' = frame_map
           /\ ~frames'[clock_hand].valid
           /\ frames'[clock_hand].block_id = frames[clock_hand].block_id
           /\ \A e \in Frame : e # clock_hand => frames'[e] = frames[e]
  <1>1. /\ clock_hand \in Frame
        /\ frames \in [Frame -> FrameRecord]
        /\ frames' = [frames EXCEPT ![clock_hand] = Emptied(frames[clock_hand])]
    BY DEF CacheInv, TypeOK, EvictVictim
  <1> QED BY <1>1, EmptiedFrame, NoFrameAssumption DEF EvictVictim

\* What find_frame makes of the frame it fills.
LEMMA LoadStep ==
    ASSUME CacheInv, NEW t \in Thread, NEW v \in Data, LoadAs(t, v)
    PROVE  /\ idx[t] \in Frame /\ req[t].blk \in Block
           /\ ~frames[idx[t]].valid
           /\ frame_map[req[t].blk] = NoFrame
           /\ frame_map' = Remap(req[t].blk, idx[t])
           /\ UNCHANGED << device, owed >>
           /\ frames'[idx[t]] = Loaded(req[t].blk, v)
           /\ \A e \in Frame : e # idx[t] => frames'[e] = frames[e]
  BY PendingBlock
     DEF CacheInv, TypeOK, LoadAs, VictimStaysInvalid, MissStands

\* A clean frame stays a copy of the device.
LEMMA KeepsClean ==
    ASSUME IInv, NEW t \in Thread, Begin(t) \/ Step(t)
    PROVE  CleanFramesMatchDevice'
  <1>0. CacheInv /\ TypeOK /\ FrameInv /\ CleanFramesMatchDevice
    BY DEF IInv, CacheInv, FrameInv
  <1>1. CASE Quiet(t)
    BY <1>0, <1>1, QuietFrames DEF CleanFramesMatchDevice, Same
  <1>2. CASE Write(t) \/ GuardWrite(t)
    <2>1. PICK g \in FrameRecord :
            /\ Same(g, Written(frames[idx[t]], req[t].val))
            /\ frames' = [frames EXCEPT ![idx[t]] = g]
      BY <1>0, <1>2, WriteSteps
    <2>2. g.dirty
      BY <1>0, <1>2, <2>1, WriteSteps, WrittenFrame DEF Same, TypeOK
    <2> QED BY <1>0, <1>2, <2>1, <2>2, WriteSteps
            DEF CleanFramesMatchDevice, TypeOK
  <1>3. CASE EvictVictim(t)
    <2> SUFFICES ASSUME NEW e \in Frame, frames'[e].valid, ~frames'[e].dirty
                 PROVE  frames'[e].block = device'[frames'[e].block_id]
      BY DEF CleanFramesMatchDevice
    <2>1. e # clock_hand /\ frames'[e] = frames[e]
      BY <1>0, <1>3, EvictStep
    <2>2. /\ frames[e].block_id \in Block
          /\ frames[e].block = device[frames[e].block_id]
      BY <1>0, <2>1 DEF FrameInv, FramesLoaded, CleanFramesMatchDevice
    <2>3. \/ ~NeedsWriteBack(clock_hand)
          \/ frames[e].block_id # frames[clock_hand].block_id
      BY <1>0, <1>3, <2>1, <2>2, EvictStep DEF FrameInv, MapExact
    <2>4. device'[frames[e].block_id] = device[frames[e].block_id]
      BY <1>0, <1>3, <2>2, <2>3, EvictStep, PersistStep
    <2> QED BY <2>1, <2>2, <2>4
  <1>4. CASE Load(t)
    <2>1. req[t].blk \in Block /\ device[req[t].blk] \in Data
      BY <1>0, <1>4, PendingBlock DEF CacheInv, TypeOK, Load, LoadAs
    <2>2. /\ device' = device
          /\ frames'[idx[t]] = Loaded(req[t].blk, device[req[t].blk])
          /\ \A e \in Frame : e # idx[t] => frames'[e] = frames[e]
      BY <1>0, <1>4, <2>1, LoadStep DEF Load
    <2>3. /\ frames'[idx[t]].block = device[req[t].blk]
          /\ frames'[idx[t]].block_id = req[t].blk
      BY <2>2 DEF Loaded
    <2> QED BY <1>0, <2>2, <2>3 DEF CleanFramesMatchDevice
  <1>5. CASE FlushFrame(t) \/ SweepFrame(t)
    <2>1. /\ idx[t] \in Frame /\ UNCHANGED frame_map
          /\ CleanFrame(idx[t]) \/ UNCHANGED << frames, device >>
      BY <1>0, <1>5 DEF FlushFrame, SweepFrame, TypeOK
    <2> QED BY <1>0, <2>1, CleanStep DEF CleanFramesMatchDevice
  <1> QED BY <1>1, <1>2, <1>3, <1>4, <1>5 DEF Step, Quiet

\* The dirty frame of a block stays so until the block has been written back,
\* which every flush sees.
LEMMA DirtyStays ==
    ASSUME CacheInv, NEW t \in Thread, Begin(t) \/ Step(t),
           NEW b \in Block, frame_map[b] # NoFrame, NeedsWriteBack(frame_map[b])
    PROVE  \/ frame_map'[b] = frame_map[b] /\ NeedsWriteBack(frame_map[b])'
           \/ \A u \in Thread : b \notin owed'[u]
  <1>0. /\ TypeOK /\ FrameInv
        /\ frame_map[b] \in Frame
        /\ frames[frame_map[b]].block_id = b
    BY DEF CacheInv, FrameInv, TypeOK, MapExact
  <1>1. CASE Quiet(t)
    BY <1>0, <1>1, QuietFrames DEF NeedsWriteBack, Same
  <1>2. CASE Write(t) \/ GuardWrite(t)
    <2>1. PICK g \in FrameRecord :
            /\ Same(g, Written(frames[idx[t]], req[t].val))
            /\ frames' = [frames EXCEPT ![idx[t]] = g]
      BY <1>2, WriteSteps
    <2>2. g.dirty /\ g.valid
      BY <1>0, <1>2, <2>1, WriteSteps, WrittenFrame DEF Same, TypeOK, Holds
    <2> QED BY <1>0, <1>2, <2>1, <2>2, WriteSteps DEF NeedsWriteBack, TypeOK
  <1>3. CASE EvictVictim(t)
    BY <1>0, <1>3, EvictStep, PersistStep DEF NeedsWriteBack
  <1>4. CASE Load(t)
    <2>1. req[t].blk \in Block /\ device[req[t].blk] \in Data
      BY <1>0, <1>4, PendingBlock DEF CacheInv, TypeOK, Load, LoadAs
    <2> QED BY <1>0, <1>4, <2>1, LoadStep
            DEF Load, Remap, NeedsWriteBack, FrameInv, MapExact
  <1>5. CASE FlushFrame(t) \/ SweepFrame(t)
    <2>1. /\ idx[t] \in Frame /\ UNCHANGED frame_map
          /\ CleanFrame(idx[t]) \/ UNCHANGED << frames, device >>
      BY <1>0, <1>5 DEF FlushFrame, SweepFrame, TypeOK
    <2>2. CASE UNCHANGED << frames, device >>
      BY <2>1, <2>2 DEF NeedsWriteBack
    <2>3. CASE CleanFrame(idx[t]) /\ frame_map[b] # idx[t]
      BY <1>0, <2>1, <2>3, CleanStep DEF NeedsWriteBack
    <2>4. CASE CleanFrame(idx[t]) /\ frame_map[b] = idx[t]
      BY <1>0, <2>1, <2>4, CleanStep
    <2> QED BY <2>1, <2>2, <2>3, <2>4
  <1> QED BY <1>1, <1>2, <1>3, <1>4, <1>5 DEF Step, Quiet

LEMMA KeepsAhead ==
    ASSUME IInv, NEW t \in Thread, Begin(t) \/ Step(t),
           NEW u \in Thread, NEW b \in owed'[u]
    PROVE  OwedIsAhead(u, b)'
  <1>0. /\ CacheInv /\ TypeOK /\ FrameInv /\ CleanFramesMatchDevice
        /\ \A c \in owed[u] : OwedIsAhead(u, c)
        /\ idx[t] \in Frame
    BY DEF IInv, CacheInv, FrameInv, TypeOK
  <1>1. CASE Begin(t) /\ u = t
    <2>1. PICK r \in Request(AllOps) :
            /\ pc' = [pc EXCEPT ![t] = EntryPoint(r.op)]
            /\ req' = [req EXCEPT ![t] = r]
            /\ owed' = [owed EXCEPT ![t] =
                            {c \in Scope(r) : Content[c] # device[c]}]
      BY <1>1, OpsAssumption, RequestFields DEF Begin, Goto
    <2>2. pc[t] = "idle" /\ idx[t] = 0 /\ UNCHANGED << cache, idx >>
      BY <1>0, <1>1 DEF Begin, CacheInv, RequestFits
    <2>3. b \in Scope(r) /\ b \in Block /\ Content[b] # device[b]
      BY <1>0, <1>1, <2>1, RequestFields DEF TypeOK, Scope
    <2>4. frame_map[b] \in Frame /\ NeedsWriteBack(frame_map[b])
      BY <1>0, <2>3
         DEF TypeOK, FrameInv, MapExact, CleanFramesMatchDevice, Content,
             NeedsWriteBack
    <2>5. \/ pc'[t] = "flush" /\ req'[t].blk = b
          \/ pc'[t] = "sweep" /\ idx'[t] = 0
      BY <1>0, <2>1, <2>2, <2>3 DEF Scope, TypeOK, EntryPoint
    <2>6. 0 <= frame_map[b] /\ frame_map[b] # NoFrame
      BY <2>4, NoFrameAssumption DEF Frame
    <2> QED BY <1>1, <2>2, <2>4, <2>5, <2>6 DEF OwedIsAhead, NeedsWriteBack, cache
  <1>2. CASE ~(Begin(t) /\ u = t)
    <2>1. b \in owed[u] /\ b \in Block
      <3>1. owed'[u] \subseteq owed[u]
        <4>1. CASE Begin(t)
          BY <1>0, <1>2, <4>1 DEF Begin, TypeOK
        <4>2. CASE \/ FindShared(t) \/ FindExclusive(t) \/ EvictSkip(t)
                   \/ Retry(t) \/ Read(t) \/ Pin(t) \/ Write(t) \/ Access(t)
                   \/ GuardWrite(t) \/ GuardRelease(t) \/ UnpinLookup(t)
                   \/ UnpinFrame(t) \/ FlushLookup(t) \/ Return(t) \/ Load(t)
          BY <4>2 DEF FindShared, FindExclusive, EvictSkip, Retry, Read, Pin,
                      Write, Access, GuardWrite, GuardWriteAs, GuardRelease, UnpinLookup,
                      UnpinFrame, FlushLookup, Return, Load, LoadAs
        <4>3. CASE EvictVictim(t)
          BY <1>0, <4>3, EvictStep, PersistStep
        <4>4. CASE FlushFrame(t) \/ SweepFrame(t)
          BY <1>0, <4>4, PersistStep DEF FlushFrame, SweepFrame, CleanFrame
        <4> QED BY <4>1, <4>2, <4>3, <4>4 DEF Step
      <3> QED BY <1>0, <3>1 DEF TypeOK
    <2>2. OwedIsAhead(u, b)
      BY <1>0, <2>1
    <2>3. frame_map'[b] = frame_map[b] /\ NeedsWriteBack(frame_map[b])'
      BY <1>0, <2>1, <2>2, DirtyStays DEF OwedIsAhead
    <2>4. CASE u # t
      <3>1. pc'[u] = pc[u] /\ req'[u] = req[u] /\ idx'[u] = idx[u]
        BY <1>0, <2>4
           DEF Begin, Step, FindShared, FindExclusive, EvictVictim, EvictSkip,
               Load, LoadAs, Retry, Read, Pin, Write, Access, GuardWrite, GuardWriteAs,
               GuardRelease, UnpinLookup, UnpinFrame, FlushLookup, FlushFrame,
               SweepFrame, Return, Goto, TypeOK
      <3> QED BY <2>2, <2>3, <3>1 DEF OwedIsAhead, NeedsWriteBack
    <2>5. CASE u = t
      <3>1. FlushLookup(t) \/ FlushFrame(t) \/ SweepFrame(t)
        BY <1>2, <2>2, <2>5
           DEF Step, OwedIsAhead, FindShared, FindExclusive, EvictVictim,
               EvictSkip, Load, LoadAs, Retry, Read, Pin, Write, Access,
               GuardWrite, GuardWriteAs, GuardRelease, UnpinLookup, UnpinFrame, Return, InFrame
      <3>2. frame_map[b] \in Frame /\ frame_map[b] # NoFrame
        BY <1>0, <2>1, <2>2 DEF OwedIsAhead, TypeOK
      <3>3. CASE FlushLookup(t)
        BY <1>0, <2>2, <2>3, <2>5, <3>2, <3>3
           DEF FlushLookup, OwedIsAhead, NeedsWriteBack, Goto, TypeOK
      <3>4. ASSUME CleanFrame(idx[t]) PROVE frame_map[b] # idx[t]
        BY <1>0, <2>3, <3>4 DEF CleanFrame, NeedsWriteBack, TypeOK, FrameRecord
      <3>5. CASE FlushFrame(t)
        <4>1. req[t].blk = b /\ idx[t] = frame_map[b] /\ NeedsWriteBack(idx[t])
          BY <2>2, <2>5, <3>5 DEF OwedIsAhead, FlushFrame
        <4>2. Holds(idx[t], req[t].blk)
          BY <1>0, <2>1, <3>2, <4>1 DEF Holds, NeedsWriteBack, FrameInv, MapExact
        <4> QED BY <3>4, <3>5, <4>1, <4>2 DEF FlushFrame
      <3>6. CASE SweepFrame(t)
        <4>1. idx[t] <= frame_map[b] /\ frame_map[b] # idx[t]
          BY <2>2, <2>5, <3>4, <3>6 DEF OwedIsAhead, SweepFrame
        <4>2. ~LastFrame(idx[t]) /\ idx[t] + 1 <= frame_map[b]
          BY <1>0, <3>2, <4>1, PoolSizeAssumption DEF LastFrame, Frame
        <4>3. pc'[t] = "sweep" /\ idx'[t] = idx[t] + 1
          BY <1>0, <3>6, <4>2 DEF SweepFrame, TypeOK
        <4> QED BY <2>3, <2>5, <3>2, <4>2, <4>3 DEF OwedIsAhead
      <3> QED BY <3>1, <3>3, <3>5, <3>6
    <2> QED BY <2>4, <2>5
  <1> QED BY <1>1, <1>2

-------------------------------------------------------------------------------

LEMMA InitInv == Init => IInv
  BY CacheInit DEF Init, IInv, CleanFramesMatchDevice

LEMMA NextInv == IInv /\ [Next]_vars => IInv'
  <1> SUFFICES ASSUME IInv, [Next]_vars PROVE IInv'
    OBVIOUS
  <1>1. CASE UNCHANGED vars
    <2>1. CacheInv'
      BY <1>1, CacheStutter DEF IInv
    <2>2. CleanFramesMatchDevice'
      BY <1>1 DEF vars, IInv, CleanFramesMatchDevice
    <2>3. \A t \in Thread : \A b \in owed'[t] : OwedIsAhead(t, b)'
      BY <1>1 DEF vars, IInv, OwedIsAhead, NeedsWriteBack
    <2> QED BY <2>1, <2>2, <2>3 DEF IInv
  <1>2. ASSUME NEW t \in Thread, Begin(t) \/ Step(t)
        PROVE  IInv'
    BY <1>2, CacheNext, KeepsClean, KeepsAhead DEF IInv
  <1> QED BY <1>1, <1>2 DEF Next

\* The inductive invariant of the pool holds in every reachable state.
THEOREM Invariance == Spec => []IInv
  <1>1. Init => IInv
    BY InitInv
  <1>2. IInv /\ [Next]_vars => IInv'
    BY NextInv
  <1> QED BY <1>1, <1>2, PTL DEF Spec

\* Every variable of the pool keeps its type; in particular the frame index a
\* thread carries out of find_frame is always one of a frame.
THEOREM TypeCorrect == Spec => []TypeOK
  <1>1. IInv => TypeOK
    BY DEF IInv, CacheInv
  <1> QED BY <1>1, Invariance, PTL

\* No block is cached in two frames, and frame_map_ never names a frame that
\* another block has taken.
THEOREM MapIsExact == Spec => []MapExact
  <1>1. IInv => MapExact
    BY DEF IInv, CacheInv
  <1> QED BY <1>1, Invariance, PTL

\* A frame that is not dirty holds what the device holds.
THEOREM CleanFramesAreCopies == Spec => []CleanFramesMatchDevice
  <1>1. IInv => CleanFramesMatchDevice
    BY DEF IInv, CacheInv
  <1> QED BY <1>1, Invariance, PTL

\* find_frame never takes its recursive retry, which would lock
\* frame_map_mutex_ twice in one thread.
THEOREM NoRecursiveRetry == Spec => []VictimStaysInvalid
  <1>1. IInv => VictimStaysInvalid
    BY DEF IInv, CacheInv
  <1> QED BY <1>1, Invariance, PTL

\* flush_block and flush_all return only after everything in their scope that
\* had not reached the device at the call has been written to it, whatever
\* evictions, reloads and writes other threads do meanwhile.
THEOREM FlushIsDurable == Spec => []FlushDurable
  <1>1. IInv => FlushDurable
    <2> SUFFICES ASSUME IInv, NEW t \in Thread, pc[t] = "done", owed[t] # {}
                 PROVE  FALSE
      BY DEF FlushDurable
    <2>1. PICK b \in owed[t] : TRUE
      OBVIOUS
    <2>2. OwedIsAhead(t, b)
      BY <2>1 DEF IInv
    <2> QED BY <2>2 DEF OwedIsAhead
  <1> QED BY <1>1, Invariance, PTL

-------------------------------------------------------------------------------
(* What the callers see: the pool implements BlockStore. *)

\* A block that a valid frame holds reads as that frame's content.
LEMMA HeldContent ==
    ASSUME TypeOK, MapExact, NEW f \in Frame, NEW b \in Block, Holds(f, b)
    PROVE  frame_map[b] = f /\ Content[b] = frames[f].block
  <1>1. frame_map[b] = f
    BY DEF MapExact, Holds
  <1>2. f # NoFrame
    BY NoFrameAssumption
  <1> QED BY <1>1, <1>2 DEF Content, Holds

\* A step that keeps each frame's block and the device keeps the content.
LEMMA SameContent ==
    ASSUME TypeOK, UNCHANGED << frame_map, device >>,
           \A f \in Frame : /\ frames'[f].valid = frames[f].valid
                            /\ frames'[f].block = frames[f].block
    PROVE  Content' = Content
  <1>1. ASSUME NEW b \in Block
        PROVE  Content'[b] = Content[b]
    BY DEF Content, TypeOK
  <1> QED BY <1>1 DEF Content

\* A write through a frame changes the content of the frame's block alone.
LEMMA WrittenContent ==
    ASSUME TypeOK, MapExact, NEW f \in Frame, NEW b \in Block, Holds(f, b),
           NEW v \in Data, NEW g \in FrameRecord,
           Same(g, Written(frames[f], v)),
           frames' = [frames EXCEPT ![f] = g],
           UNCHANGED << frame_map, device >>
    PROVE  /\ Content'[b] = v
           /\ \A c \in Block : c # b => Content'[c] = Content[c]
  <1>0. g.valid = frames[f].valid /\ g.block = v
    BY WrittenFrame DEF Same, TypeOK
  <1>1. frame_map[b] = f /\ f # NoFrame
    BY HeldContent, NoFrameAssumption
  <1>2. ASSUME NEW c \in Block, c # b
        PROVE  Content'[c] = Content[c]
    <2>1. frame_map[c] # f
      BY <1>1, <1>2 DEF MapExact, Holds
    <2> QED BY <2>1 DEF Content, TypeOK
  <1>3. Content'[b] = v
    BY <1>0, <1>1 DEF Content, TypeOK, Holds
  <1> QED BY <1>2, <1>3

\* Writing a frame back brings the device up to the content of its block.
LEMMA PersistedContent ==
    ASSUME TypeOK, FrameInv, NEW f \in Frame, NeedsWriteBack(f), Persist(f)
    PROVE  /\ frames[f].block_id \in Block
           /\ device' = [device EXCEPT ![frames[f].block_id]
                                           = Content[frames[f].block_id]]
           /\ owed' = [t \in Thread |-> owed[t] \ {frames[f].block_id}]
  <1>1. frames[f].block_id \in Block /\ Holds(f, frames[f].block_id)
    BY DEF FrameInv, FramesLoaded, NeedsWriteBack, Holds
  <1>2. Content[frames[f].block_id] = frames[f].block
    BY <1>1, HeldContent DEF FrameInv
  <1> QED BY <1>1, <1>2 DEF Persist

\* A frame written back or not, and then clean: the content stays.
LEMMA CleanedContent ==
    ASSUME TypeOK, FrameInv, NEW f \in Frame, CleanFrame(f), UNCHANGED frame_map
    PROVE  Content' = Content
  <1>1. ASSUME NEW b \in Block
        PROVE  Content'[b] = Content[b]
    <2>1. \A e \in Frame : /\ frames'[e].valid = frames[e].valid
                           /\ frames'[e].block = frames[e].block
      BY DEF CleanFrame, TypeOK, FrameRecord
    <2>2. CASE NeedsWriteBack(f) /\ b = frames[f].block_id
      <3>1. Holds(f, b) /\ Holds(f, b)'
        BY <2>2, CleanStep DEF NeedsWriteBack, Holds
      <3>2. frame_map[b] = f /\ f # NoFrame
        BY <3>1, HeldContent, NoFrameAssumption DEF FrameInv
      <3> QED BY <2>1, <3>1, <3>2 DEF Content, Holds
    <2>3. CASE ~(NeedsWriteBack(f) /\ b = frames[f].block_id)
      <3>1. device'[b] = device[b]
        BY <2>3, PersistStep DEF CleanFrame
      <3> QED BY <2>1, <3>1 DEF Content, TypeOK
    <2> QED BY <2>2, <2>3
  <1> QED BY <1>1 DEF Content

\* evict_frame takes a frame away and the block still reads the same.
LEMMA EvictedContent ==
    ASSUME IInv, NEW t \in Thread, EvictVictim(t)
    PROVE  Content' = Content
  <1>1. /\ TypeOK /\ FrameInv /\ CleanFramesMatchDevice
        /\ clock_hand \in Frame
        /\ Persist(clock_hand)
        /\ frame_map' = frame_map
        /\ frames' = [frames EXCEPT ![clock_hand] = Emptied(frames[clock_hand])]
    BY DEF IInv, CacheInv, FrameInv, TypeOK, EvictVictim
  <1>2. ASSUME NEW b \in Block
        PROVE  Content'[b] = Content[b]
    <2>1. \A e \in Frame : e # clock_hand => frames'[e] = frames[e]
      BY <1>1 DEF TypeOK
    <2>2. ~frames'[clock_hand].valid
      BY <1>1, EmptiedFrame DEF TypeOK
    <2>3. CASE frame_map[b] = clock_hand /\ frames[clock_hand].valid
      <3>1. frames[clock_hand].block_id = b /\ clock_hand # NoFrame
        BY <1>1, <2>3, NoFrameAssumption DEF FrameInv, MapExact
      <3>2. Content[b] = frames[clock_hand].block
        BY <2>3, <3>1 DEF Content
      <3>3. Content'[b] = device'[b]
        BY <1>1, <2>2, <2>3 DEF Content
      <3>4. device'[b] = frames[clock_hand].block
        <4>1. CASE NeedsWriteBack(clock_hand)
          BY <1>1, <3>1, <4>1, PersistStep
        <4>2. CASE ~NeedsWriteBack(clock_hand)
          BY <1>1, <2>3, <3>1, <4>2
             DEF Persist, NeedsWriteBack, FrameInv, CleanFramesMatchDevice
        <4> QED BY <4>1, <4>2
      <3> QED BY <3>2, <3>3, <3>4
    <2>4. CASE ~(frame_map[b] = clock_hand /\ frames[clock_hand].valid)
      <3>1. ~NeedsWriteBack(clock_hand) \/ b # frames[clock_hand].block_id
        BY <1>1, <2>4 DEF NeedsWriteBack, FrameInv, MapExact
      <3>2. device'[b] = device[b]
        BY <1>1, <3>1, PersistStep
      <3>3. frame_map[b] \in Frame \cup {NoFrame}
        BY <1>1 DEF TypeOK
      <3> QED BY <1>1, <2>1, <2>2, <2>4, <3>2, <3>3 DEF Content
    <2> QED BY <2>3, <2>4
  <1> QED BY <1>2 DEF Content

\* find_frame fills a frame and remaps it: every block reads as before.
LEMMA LoadedContent ==
    ASSUME IInv, NEW t \in Thread, Load(t)
    PROVE  Content' = Content
  <1> DEFINE f == idx[t]
             b == req[t].blk
  <1>1. /\ TypeOK /\ FrameInv
        /\ f \in Frame /\ f # NoFrame
        /\ ~frames[f].valid
        /\ b \in Block
        /\ frame_map[b] = NoFrame
        /\ device' = device
        /\ frames' = [frames EXCEPT ![f] = Loaded(b, device[b])]
        /\ frame_map' = Remap(b, f)
    BY PendingBlock, NoFrameAssumption
       DEF IInv, CacheInv, FrameInv, TypeOK, Load, LoadAs, VictimStaysInvalid, MissStands
  <1> HIDE DEF f, b
  <1>2. frames'[f].valid /\ frames'[f].block = device[b]
    BY <1>1 DEF TypeOK, Loaded
  <1>3. \A e \in Frame : e # f => frames'[e] = frames[e]
    BY <1>1 DEF TypeOK
  <1>4. ASSUME NEW c \in Block
        PROVE  Content'[c] = Content[c]
    <2>1. CASE c = b
      BY <1>1, <1>2, <2>1 DEF Content, Remap
    <2>2. CASE c # b /\ c = frames[f].block_id
      <3>1. frame_map'[c] = NoFrame /\ frame_map[c] = f
        BY <1>1, <2>2 DEF Remap, FrameInv, MapExact
      <3> QED BY <1>1, <3>1 DEF Content
    <2>3. CASE c # b /\ c # frames[f].block_id
      <3>1. frame_map'[c] = frame_map[c] /\ frame_map[c] # f
        BY <1>1, <2>3 DEF Remap, FrameInv, MapExact
      <3>2. frame_map[c] \in Frame \cup {NoFrame}
        BY <1>1 DEF TypeOK
      <3> QED BY <1>1, <1>3, <3>1, <3>2 DEF Content
    <2> QED BY <2>1, <2>2, <2>3
  <1> QED BY <1>4 DEF Content

\* Every step but a write keeps the content.
LEMMA QuietContent ==
    ASSUME IInv, NEW t \in Thread, Begin(t) \/ Step(t), ~Write(t), ~GuardWrite(t)
    PROVE  Content' = Content
  <1>0. CacheInv /\ TypeOK /\ FrameInv /\ idx[t] \in Frame
    BY DEF IInv, CacheInv, FrameInv, TypeOK
  <1>1. CASE Quiet(t)
    BY <1>0, <1>1, QuietFrames, SameContent DEF Same
  <1>2. CASE EvictVictim(t)
    BY <1>2, EvictedContent
  <1>3. CASE Load(t)
    BY <1>3, LoadedContent
  <1>4. CASE FlushFrame(t)
    BY <1>0, <1>4, CleanedContent, SameContent DEF FlushFrame
  <1>5. CASE SweepFrame(t)
    BY <1>0, <1>5, CleanedContent DEF SweepFrame
  <1> QED BY <1>1, <1>2, <1>3, <1>4, <1>5 DEF Step, Quiet

\* A write or a guard's write sets the content of its own block alone.
LEMMA WriteContent ==
    ASSUME IInv, NEW t \in Thread, Write(t) \/ GuardWrite(t)
    PROVE  /\ req[t].blk \in Block
           /\ Holds(idx[t], req[t].blk)
           /\ Content' = [Content EXCEPT ![req[t].blk] = req[t].val]
  <1>1. /\ CacheInv /\ TypeOK /\ MapExact
        /\ idx[t] \in Frame
        /\ req[t].blk \in Block
        /\ req[t].val \in Data
        /\ Holds(idx[t], req[t].blk)
        /\ UNCHANGED << frame_map, device >>
    BY WriteSteps DEF IInv, CacheInv
  <1>2. PICK g \in FrameRecord :
          /\ Same(g, Written(frames[idx[t]], req[t].val))
          /\ frames' = [frames EXCEPT ![idx[t]] = g]
    BY <1>1, WriteSteps
  <1>3. ASSUME NEW b \in Block, b = req[t].blk, NEW v \in Data, v = req[t].val
        PROVE  /\ Content'[b] = v
               /\ \A c \in Block : c # b => Content'[c] = Content[c]
    <2>1. /\ TypeOK /\ MapExact
          /\ idx[t] \in Frame
          /\ Holds(idx[t], b)
          /\ Same(g, Written(frames[idx[t]], v))
          /\ frames' = [frames EXCEPT ![idx[t]] = g]
          /\ UNCHANGED << frame_map, device >>
      BY <1>1, <1>2, <1>3
    <2> QED BY <2>1, WrittenContent
  <1>4. Content' = [Content EXCEPT ![req[t].blk] = req[t].val]
    BY <1>1, <1>3 DEF Content
  <1> QED BY <1>1, <1>4

\* A guard's frame is one no other thread can enter.
LEMMA GuardExcludes ==
    ASSUME IInv, NEW u \in Thread, pc[u] = "guard",
           NEW t \in Thread, t # u, Write(t) \/ GuardWrite(t)
    PROVE  req[t].blk # req[u].blk
  <1> SUFFICES ASSUME req[t].blk = req[u].blk PROVE FALSE
    OBVIOUS
  <1>1. Holds(idx[t], req[t].blk) /\ Holds(idx[u], req[u].blk)
    BY WriteContent DEF IInv, CacheInv, GuardedFrameStays
  <1>2. idx[t] = idx[u]
    BY <1>1, WriteContent DEF IInv, CacheInv, TypeOK, MapExact, Holds
  <1>3. frame_locks[idx[u]] = u
    BY DEF IInv, CacheInv, LocksHeld, TypeOK
  <1>4. frame_locks[idx[t]] \in {t, NoThread}
    BY DEF IInv, CacheInv, LocksHeld, TypeOK, Write, GuardWrite, GuardWriteAs, InFrame, FrameFree
  <1> QED BY <1>2, <1>3, <1>4, NoThreadAssumption

\* While the guard of access_frame_lock is held only its holder changes what
\* the block reads as, and the frame is not given to another block.
THEOREM GuardsAreExclusive == Spec => GuardIsExclusive
  <1>1. IInv /\ [Next]_vars => \A t \in Thread : GuardKept(t)
    <2> SUFFICES ASSUME IInv, [Next]_vars, NEW u \in Thread, pc[u] = "guard"
                 PROVE  GuardKept(u)
      BY DEF GuardKept
    <2>0. /\ TypeOK /\ FrameInv
          /\ Holds(idx[u], req[u].blk)
          /\ req[u].blk \in Block
      BY PendingBlock DEF IInv, CacheInv, FrameInv, GuardedFrameStays
    <2>1. CASE UNCHANGED vars
      BY <2>1 DEF vars, Content, GuardKept
    <2>2. ASSUME NEW t \in Thread, Begin(t) \/ Step(t)
          PROVE  GuardKept(u)
      <3>1. frame_map'[req[u].blk] = frame_map[req[u].blk]
        <4>1. CASE ~Load(t)
          BY <2>2, <4>1
             DEF Begin, Step, FindShared, FindExclusive, EvictVictim, EvictSkip,
                 Retry, Read, Pin, Write, Access, GuardWrite, GuardWriteAs, GuardRelease,
                 UnpinLookup, UnpinFrame, FlushLookup, FlushFrame, SweepFrame,
                 Return, cache
        <4>2. CASE Load(t)
          <5>1. /\ frame_map' = Remap(req[t].blk, idx[t])
                /\ frame_map[req[t].blk] = NoFrame
                /\ ~frames[idx[t]].valid
            BY <4>2 DEF IInv, CacheInv, Load, LoadAs, MissStands, VictimStaysInvalid
          <5>2. frame_map[req[u].blk] = idx[u] /\ idx[u] # NoFrame
            BY <2>0, HeldContent, NoFrameAssumption DEF FrameInv, TypeOK
          <5>3. frames[idx[t]].block_id # req[u].blk
            BY <2>0, <5>1, <5>2 DEF TypeOK, FrameInv, MapExact, Holds
          <5> QED BY <2>0, <5>1, <5>2, <5>3 DEF Remap
        <4> QED BY <4>1, <4>2
      <3>2. ASSUME Content'[req[u].blk] # Content[req[u].blk]
            PROVE  GuardWrite(u)
        <4>1. Write(t) \/ GuardWrite(t)
          BY <2>2, <3>2, QuietContent
        <4>2. req[t].blk = req[u].blk
          BY <2>0, <2>2, <3>2, <4>1, WriteContent DEF Content
        <4>3. t = u
          BY <2>2, <4>1, <4>2, GuardExcludes
        <4> QED BY <4>1, <4>3 DEF Write, InFrame
      <3> QED BY <3>1, <3>2 DEF GuardKept
    <2> QED BY <2>1, <2>2 DEF Next
  <1> QED BY <1>1, Invariance, PTL DEF Spec, GuardIsExclusive

\* The pool starts as a store whose content is the device's.
LEMMA InitStore == Init => Store!Init
  <1> SUFFICES ASSUME Init PROVE Store!Init
    OBVIOUS
  <1>1. Content = device /\ device \in [Block -> Data]
    BY DEF Init, Content
  <1>2. Phase = [t \in Thread |-> "idle"]
    BY DEF Init, Phase
  <1> QED BY <1>1, <1>2 DEF Init, Store!Init, Store!NoReq, NoReq

\* Where a call stands, as the store sees it.
LEMMA PhaseIs ==
    ASSUME TypeOK, NEW t \in Thread, NEW l \in PC, Goto(t, l)
    PROVE  /\ Phase' = [Phase EXCEPT ![t] = IF l \in {"idle", "done"}
                                            THEN l ELSE "pending"]
           /\ Phase[t] = IF pc[t] \in {"idle", "done"} THEN pc[t] ELSE "pending"
           /\ Phase \in [Thread -> {"idle", "done", "pending"}]
  BY DEF Goto, Phase, TypeOK

\* Every step of the pool is a step of the store or changes nothing the store
\* shows.
LEMMA NextStore == IInv /\ [Next]_vars => [Store!Next]_(Store!vars)
  <1> SUFFICES ASSUME IInv, [Next]_vars PROVE [Store!Next]_(Store!vars)
    OBVIOUS
  <1> USE DEF Store!vars
  <1>1. CASE UNCHANGED vars
    BY <1>1 DEF vars, Content, Phase
  <1>2. ASSUME NEW t \in Thread, Begin(t) \/ Step(t)
        PROVE  [Store!Next]_(Store!vars)
    <2> USE <1>2
    <2>0. TypeOK /\ FrameInv /\ idx[t] \in Frame
      BY DEF IInv, CacheInv, FrameInv, TypeOK
    <2>1. CASE Begin(t)
      <3>1. PICK r \in Request(AllOps) :
              /\ Goto(t, EntryPoint(r.op))
              /\ req' = [req EXCEPT ![t] = r]
              /\ owed' = [owed EXCEPT ![t] =
                              {b \in Scope(r) : Content[b] # device[b]}]
        BY <2>1, OpsAssumption, RequestFields DEF Begin
      <3>2. pc[t] = "idle" /\ device' = device /\ Content' = Content
        BY <2>1, QuietContent DEF Begin, cache, Write, GuardWrite, GuardWriteAs, InFrame
      <3>3. EntryPoint(r.op) \in PC \ {"idle", "done"}
        BY DEF EntryPoint, PC
      <3>4. Phase[t] = "idle" /\ Phase' = [Phase EXCEPT ![t] = "pending"]
        BY <2>0, <3>1, <3>2, <3>3, PhaseIs
      <3>5. Store!Invoke(t, r)
        BY <3>1, <3>2, <3>4 DEF Store!Invoke, Store!Scope, Scope
      <3>6. r \in Store!Request(Store!AllOps)
        BY DEF Store!Request, Store!AllOps, Store!ReadOps, Store!WriteOps,
               Store!FlushOps, Request, AllOps, ReadOps, WriteOps, FlushOps
      <3> QED BY <3>5, <3>6 DEF Store!Next
    <2>2. CASE \/ FindShared(t) \/ FindExclusive(t) \/ EvictSkip(t) \/ Load(t)
               \/ Retry(t) \/ Access(t) \/ UnpinLookup(t)
      <3>1. Content' = Content
        BY <2>2, QuietContent
           DEF FindShared, FindExclusive, EvictSkip, Load, LoadAs, Retry, Access,
               UnpinLookup, Write, GuardWrite, GuardWriteAs, InFrame, Goto, TypeOK
      <3>2. UNCHANGED << device, req, owed >>
        BY <2>2
           DEF FindShared, FindExclusive, EvictSkip, Load, LoadAs, Retry, Access,
               UnpinLookup, cache
      <3>3. Phase' = Phase
        <4>1. pc' = pc \/ /\ pc[t] \notin {"idle", "done"}
                          /\ \E l \in PC \ {"idle", "done"} : Goto(t, l)
          BY <2>2
             DEF FindShared, FindExclusive, EvictSkip, Load, LoadAs, Retry,
                 Access, InFrame, UnpinLookup, PC
        <4> QED BY <2>0, <4>1, PhaseIs DEF Phase
      <3> QED BY <3>1, <3>2, <3>3
    <2>3. CASE EvictVictim(t)
      <3>1. /\ clock_hand \in Frame
            /\ Persist(clock_hand)
            /\ UNCHANGED req
            /\ Content' = Content
        BY <2>0, <2>3, EvictedContent DEF EvictVictim, TypeOK
      <3>2. Phase' = Phase
        BY <2>0, <2>3, PhaseIs DEF EvictVictim, PC
      <3>3. CASE NeedsWriteBack(clock_hand)
        <4>1. PICK b \in Block :
                /\ device' = [device EXCEPT ![b] = Content[b]]
                /\ owed' = [u \in Thread |-> owed[u] \ {b}]
          BY <2>0, <3>1, <3>3, PersistedContent
        <4>2. Store!Persist(b)
          BY <3>1, <3>2, <4>1 DEF Store!Persist, Store!WriteBack
        <4> QED BY <4>2 DEF Store!Next
      <3>4. CASE ~NeedsWriteBack(clock_hand)
        BY <3>1, <3>2, <3>4 DEF Persist
      <3> QED BY <3>3, <3>4
    <2>4. CASE Read(t) \/ Pin(t)
      <3>1. /\ pc[t] = "frame"
            /\ req[t].op \in ReadOps
            /\ Holds(idx[t], req[t].blk)
            /\ req' = [req EXCEPT ![t].val = frames[idx[t]].block]
            /\ UNCHANGED << device, owed >>
            /\ Goto(t, "done")
        BY <2>4 DEF Read, Pin, InFrame, ReadOps
      <3>2. req[t].blk \in Block
        BY <3>1, PendingBlock DEF IInv, CacheInv
      <3>3. Content[req[t].blk] = frames[idx[t]].block
        BY <2>0, <3>1, <3>2, HeldContent DEF FrameInv
      <3>4. Content' = Content
        BY <2>4, <3>1, QuietContent DEF Write, GuardWrite, GuardWriteAs, InFrame, ReadOps
      <3>5. Phase[t] = "pending" /\ Phase' = [Phase EXCEPT ![t] = "done"]
        BY <2>0, <3>1, PhaseIs DEF PC
      <3>6. Store!Read(t)
        BY <3>1, <3>3, <3>4, <3>5 DEF Store!Read, Store!ReadOps, ReadOps
      <3> QED BY <3>6 DEF Store!Next
    <2>5. CASE Write(t)
      <3>1. /\ pc[t] = "frame"
            /\ req[t].op = "write"
            /\ UNCHANGED << device, req, owed >>
            /\ Goto(t, "done")
        BY <2>5 DEF Write, InFrame
      <3>2. Phase[t] = "pending" /\ Phase' = [Phase EXCEPT ![t] = "done"]
        BY <2>0, <3>1, PhaseIs DEF PC
      <3>3. Store!Write(t)
        BY <2>5, <3>1, <3>2, WriteContent DEF Store!Write
      <3> QED BY <3>3 DEF Store!Next
    <2>6. CASE GuardWrite(t)
      <3>1. /\ pc[t] = "guard" /\ pc' = pc
            /\ UNCHANGED << device, req, owed >>
        BY <2>6 DEF GuardWrite, GuardWriteAs
      <3>2. req[t].op = "access"
        BY <3>1, RequestFields DEF IInv, CacheInv, RequestFits, AllOps, WriteOps
      <3>3. Phase[t] = "pending" /\ Phase' = Phase
        BY <3>1 DEF Phase
      <3>4. Store!WriteThrough(t)
        BY <2>6, <3>1, <3>2, <3>3, WriteContent DEF Store!WriteThrough
      <3> QED BY <3>4 DEF Store!Next
    <2>7. CASE GuardRelease(t) \/ UnpinFrame(t)
      <3>1. /\ pc[t] \in {"guard", "unpin_frame"}
            /\ UNCHANGED << device, req, owed >>
            /\ Goto(t, "done")
        BY <2>7 DEF GuardRelease, UnpinFrame
      <3>2. req[t].op \in {"access", "unpin"}
        BY <3>1, RequestFields DEF IInv, CacheInv, RequestFits, AllOps, WriteOps
      <3>3. owed[t] = {}
        BY <3>1 DEF IInv, CacheInv, OwedIsAhead
      <3>4. Content' = Content
        BY <2>7, QuietContent DEF GuardRelease, UnpinFrame, Write, GuardWrite, GuardWriteAs,
                                  InFrame, Goto, TypeOK, IInv, CacheInv
      <3>5. Phase[t] = "pending" /\ Phase' = [Phase EXCEPT ![t] = "done"]
        BY <2>0, <3>1, PhaseIs DEF PC
      <3>6. Store!Finish(t)
        BY <3>1, <3>2, <3>3, <3>4, <3>5 DEF Store!Finish, Store!FlushOps
      <3> QED BY <3>6 DEF Store!Next
    <2>8. CASE FlushLookup(t) \/ FlushFrame(t) \/ SweepFrame(t)
      <3>1. /\ pc[t] \in {"flush", "flush_frame", "sweep"}
            /\ req' = req
        BY <2>8 DEF FlushLookup, FlushFrame, SweepFrame
      <3>2. req[t].op \in FlushOps
        BY <3>1, RequestFields DEF IInv, CacheInv, RequestFits, AllOps, FlushOps
      <3>3. Content' = Content
        BY <2>8, QuietContent DEF FlushLookup, FlushFrame, SweepFrame, Write,
                                  GuardWrite, GuardWriteAs, InFrame
      <3>4. Phase[t] = "pending"
        BY <3>1 DEF Phase
      <3>5. \/ pc[t] # "flush" /\ Persist(idx[t]) /\ NeedsWriteBack(idx[t])
            \/ UNCHANGED << device, owed >>
        BY <2>8 DEF FlushLookup, FlushFrame, SweepFrame, CleanFrame, Persist, cache
      <3>6. \/ Phase' = Phase
            \/ /\ Phase' = [Phase EXCEPT ![t] = "done"]
               /\ \A b \in owed[t] : /\ pc[t] # "flush"
                                     /\ Persist(idx[t])
                                     /\ NeedsWriteBack(idx[t])
                                     /\ frames[idx[t]].block_id = b
        <4>1. CASE FlushLookup(t)
          <5>1. CASE frame_map[req[t].blk] # NoFrame
            BY <2>0, <4>1, <5>1, PhaseIs DEF FlushLookup, PC
          <5>2. CASE frame_map[req[t].blk] = NoFrame
            <6>1. owed[t] = {}
              BY <4>1, <5>2 DEF FlushLookup, IInv, CacheInv, OwedIsAhead
            <6> QED BY <2>0, <4>1, <5>2, <6>1, PhaseIs DEF FlushLookup, PC
          <5> QED BY <5>1, <5>2
        <4>2. CASE FlushFrame(t)
          <5>1. Phase' = [Phase EXCEPT ![t] = "done"]
            BY <2>0, <4>2, PhaseIs DEF FlushFrame, PC
          <5>2. ASSUME NEW b \in owed[t]
                PROVE  /\ req[t].blk = b /\ idx[t] = frame_map[b]
                       /\ NeedsWriteBack(idx[t])
                       /\ frames[idx[t]].block_id = b
            <6>1. b \in Block /\ OwedIsAhead(t, b)
              BY <5>2 DEF IInv, CacheInv, TypeOK
            <6> QED BY <4>2, <6>1 DEF FlushFrame, OwedIsAhead, IInv, CacheInv, MapExact
          <5>3. ASSUME NEW b \in owed[t]
                PROVE  Persist(idx[t])
            BY <4>2, <5>2, <5>3 DEF FlushFrame, CleanFrame, Holds, NeedsWriteBack
          <5> QED BY <4>2, <5>1, <5>2, <5>3 DEF FlushFrame
        <4>3. CASE SweepFrame(t)
          <5>1. CASE ~LastFrame(idx[t])
            BY <4>3, <5>1 DEF SweepFrame, Phase
          <5>2. CASE LastFrame(idx[t])
            <6>1. Phase' = [Phase EXCEPT ![t] = "done"]
              BY <2>0, <4>3, <5>2, PhaseIs DEF SweepFrame, PC
            <6>2. ASSUME NEW b \in owed[t]
                  PROVE  /\ NeedsWriteBack(idx[t])
                         /\ frames[idx[t]].block_id = b
              <7>1. b \in Block /\ OwedIsAhead(t, b)
                BY <6>2 DEF IInv, CacheInv, TypeOK
              <7>2. /\ idx[t] <= frame_map[b]
                    /\ frame_map[b] # NoFrame
                    /\ NeedsWriteBack(frame_map[b])
                BY <4>3, <7>1 DEF SweepFrame, OwedIsAhead
              <7>3. frame_map[b] \in Frame
                BY <2>0, <7>1, <7>2 DEF TypeOK
              <7>4. idx[t] = frame_map[b]
                BY <2>0, <5>2, <7>2, <7>3, PoolSizeAssumption
                   DEF LastFrame, Frame
              <7> QED BY <7>1, <7>2, <7>4 DEF IInv, CacheInv, MapExact
            <6> QED BY <4>3, <6>1, <6>2 DEF SweepFrame, CleanFrame
          <5> QED BY <5>1, <5>2
        <4> QED BY <2>8, <4>1, <4>2, <4>3
      <3>7. CASE UNCHANGED << device, owed >> /\ Phase' = Phase
        BY <3>1, <3>3, <3>7
      <3>8. CASE UNCHANGED << device, owed >> /\ owed[t] = {}
                   /\ Phase' = [Phase EXCEPT ![t] = "done"]
        <4>1. Store!Finish(t)
          BY <3>1, <3>2, <3>3, <3>4, <3>8
             DEF Store!Finish, Store!FlushOps, FlushOps
        <4> QED BY <4>1 DEF Store!Next
      <3>9. CASE Persist(idx[t]) /\ NeedsWriteBack(idx[t])
        <4> DEFINE b == frames[idx[t]].block_id
        <4>1. /\ b \in Block
              /\ Store!WriteBack(b)
          BY <2>0, <3>1, <3>3, <3>9, PersistedContent DEF Store!WriteBack
        <4> HIDE DEF b
        <4>2. CASE Phase' = Phase
          BY <4>1, <4>2 DEF Store!Next, Store!Persist
        <4>3. CASE /\ Phase' = [Phase EXCEPT ![t] = "done"]
                   /\ owed[t] \subseteq {b}
          <5>1. Store!PersistAndFinish(t, b)
            BY <3>2, <3>4, <4>1, <4>3
               DEF Store!PersistAndFinish, Store!FlushOps, FlushOps
          <5> QED BY <4>1, <5>1 DEF Store!Next
        <4> QED BY <3>6, <4>2, <4>3 DEF b
      <3> QED BY <3>5, <3>6, <3>7, <3>8, <3>9
    <2>9. CASE Return(t)
      <3>1. /\ pc[t] = "done"
            /\ req' = [req EXCEPT ![t] = NoReq]
            /\ UNCHANGED << device, owed >>
            /\ Goto(t, "idle")
        BY <2>9 DEF Return, cache
      <3>2. Content' = Content
        BY <2>9, QuietContent DEF Return, Write, GuardWrite, GuardWriteAs, InFrame
      <3>3. Phase[t] = "done" /\ Phase' = [Phase EXCEPT ![t] = "idle"]
        BY <2>0, <3>1, PhaseIs DEF PC
      <3>4. Store!Return(t)
        BY <3>1, <3>2, <3>3 DEF Store!Return, Store!NoReq, NoReq
      <3> QED BY <3>4 DEF Store!Next
    <2> QED BY <2>1, <2>2, <2>3, <2>4, <2>5, <2>6, <2>7, <2>8, <2>9 DEF Step
  <1> QED BY <1>1, <1>2 DEF Next

\* The pool is a block store: however many threads read, write, hold guards,
\* evict and flush, every call acts as if at one instant on one array of blocks,
\* and the device only ever receives a block's current content.
THEOREM PoolIsStore == Spec => ImplementsStore
  <1>1. Init => Store!Init
    BY InitStore
  <1>2. IInv /\ [Next]_vars => [Store!Next]_(Store!vars)
    BY NextStore
  <1> QED BY <1>1, <1>2, Invariance, PTL DEF Spec, ImplementsStore, Store!Spec

-------------------------------------------------------------------------------
(* The pins: ref_count counts them, and a pinned block stays cached. *)

LEMMA PinnedElement ==
    ASSUME NEW B, NEW x
    PROVE  /\ x \in Pinned(B) <=> \E t \in Thread, b \in B :
                                     \E n \in 1 .. pins[t][b] : x = << t, b, n >>
           /\ x \in Pinned(B)' <=> \E t \in Thread, b \in B :
                                     \E n \in 1 .. pins'[t][b] : x = << t, b, n >>
  <1>1. x \in Pinned(B) <=> \E t \in Thread, b \in B :
                                 \E n \in 1 .. pins[t][b] : x = << t, b, n >>
    <2> DEFINE Of(t, b) == {<< t, b, n >> : n \in 1 .. pins[t][b]}
    <2>1. \A t, b : x \in Of(t, b)
                      <=> \E n \in 1 .. pins[t][b] : x = << t, b, n >>
      OBVIOUS
    <2>2. Pinned(B) = UNION {Of(t, b) : t \in Thread, b \in B}
      BY DEF Pinned
    <2> HIDE DEF Of
    <2>3. x \in UNION {Of(t, b) : t \in Thread, b \in B}
          <=> \E t \in Thread, b \in B : x \in Of(t, b)
      OBVIOUS
    <2> QED BY <2>1, <2>2, <2>3
  <1>2. x \in Pinned(B)' <=> \E t \in Thread, b \in B :
                                 \E n \in 1 .. pins'[t][b] : x = << t, b, n >>
    <2> DEFINE Of(t, b) == {<< t, b, n >> : n \in 1 .. pins'[t][b]}
    <2>1. \A t, b : x \in Of(t, b)
                      <=> \E n \in 1 .. pins'[t][b] : x = << t, b, n >>
      OBVIOUS
    <2>2. Pinned(B)' = UNION {Of(t, b) : t \in Thread, b \in B}
      BY DEF Pinned
    <2> HIDE DEF Of
    <2>3. x \in UNION {Of(t, b) : t \in Thread, b \in B}
          <=> \E t \in Thread, b \in B : x \in Of(t, b)
      OBVIOUS
    <2> QED BY <2>1, <2>2, <2>3
  <1> QED BY <1>1, <1>2

\* A pin taken is one element more, for every set with the block in it.
LEMMA PinTaken ==
    ASSUME TypeOK, NEW t \in Thread, NEW b \in Block, NEW B \in SUBSET Block,
           pins' = [pins EXCEPT ![t][b] = @ + 1]
    PROVE  LET x == << t, b, pins[t][b] + 1 >> IN
           /\ x \notin Pinned(B)
           /\ Pinned(B)' = IF b \in B THEN Pinned(B) \cup {x} ELSE Pinned(B)
  <1> DEFINE n == pins[t][b]
  <1>1. n \in Nat /\ pins \in [Thread -> [Block -> Nat]]
    BY DEF TypeOK
  <1>2. \A u \in Thread, c \in Block :
            pins'[u][c] = IF u = t /\ c = b THEN n + 1 ELSE pins[u][c]
    BY <1>1
  <1>3. \A k : k \in 1 .. n + 1 <=> k \in 1 .. n \/ k = n + 1
    BY <1>1
  <1>4. n + 1 \notin 1 .. n
    BY <1>1
  <1> HIDE DEF n
  <1>5. << t, b, n + 1 >> \notin Pinned(B)
    BY <1>4, PinnedElement DEF n
  <1>6. ASSUME NEW x
        PROVE  x \in Pinned(B)' <=> x \in Pinned(B) \/ (b \in B /\ x = << t, b, n + 1 >>)
    <2>1. x \in Pinned(B)' <=> \E u \in Thread, c \in B :
                                   \E k \in 1 .. pins'[u][c] : x = << u, c, k >>
      BY PinnedElement
    <2>2. ASSUME NEW u \in Thread, NEW c \in B
          PROVE  (\E k \in 1 .. pins'[u][c] : x = << u, c, k >>)
                 <=> \/ \E k \in 1 .. pins[u][c] : x = << u, c, k >>
                     \/ u = t /\ c = b /\ x = << t, b, n + 1 >>
      BY <1>2, <1>3 DEF n
    <2> QED BY <2>1, <2>2, PinnedElement
  <1> QED BY <1>5, <1>6 DEF n

\* A pin given back is one element less.
LEMMA PinGivenBack ==
    ASSUME TypeOK, NEW t \in Thread, NEW b \in Block, NEW B \in SUBSET Block,
           pins[t][b] > 0, pins' = [pins EXCEPT ![t][b] = @ - 1]
    PROVE  LET x == << t, b, pins[t][b] >> IN
           /\ b \in B => x \in Pinned(B)
           /\ Pinned(B)' = IF b \in B THEN Pinned(B) \ {x} ELSE Pinned(B)
  <1> DEFINE n == pins[t][b]
  <1>1. n \in Nat /\ n > 0 /\ pins \in [Thread -> [Block -> Nat]]
    BY DEF TypeOK
  <1>2. \A u \in Thread, c \in Block :
            pins'[u][c] = IF u = t /\ c = b THEN n - 1 ELSE pins[u][c]
    BY <1>1
  <1>3. \A k : k \in 1 .. n - 1 <=> k \in 1 .. n /\ k # n
    BY <1>1
  <1>4. n \in 1 .. n
    BY <1>1
  <1> HIDE DEF n
  <1>5. b \in B => << t, b, n >> \in Pinned(B)
    BY <1>4, PinnedElement DEF n
  <1>6. ASSUME NEW x
        PROVE  x \in Pinned(B)' <=> x \in Pinned(B) /\ ~(b \in B /\ x = << t, b, n >>)
    <2>1. x \in Pinned(B)' <=> \E u \in Thread, c \in B :
                                   \E k \in 1 .. pins'[u][c] : x = << u, c, k >>
      BY PinnedElement
    <2>2. ASSUME NEW u \in Thread, NEW c \in B
          PROVE  (\E k \in 1 .. pins'[u][c] : x = << u, c, k >>)
                 <=> /\ \E k \in 1 .. pins[u][c] : x = << u, c, k >>
                     /\ ~(b \in B /\ x = << t, b, n >>)
      BY <1>2, <1>3 DEF n
    <2> QED BY <2>1, <2>2, PinnedElement
  <1> QED BY <1>5, <1>6 DEF n

\* A block has a pin exactly when some thread keeps one.
LEMMA HasPins ==
    ASSUME TypeOK, NEW b \in Block
    PROVE  Pinned({b}) = {} <=> \A t \in Thread : ~(pins[t][b] > 0)
  <1>1. \A t \in Thread : pins[t][b] > 0 => 1 \in 1 .. pins[t][b]
    BY DEF TypeOK
  <1>2. \A t \in Thread : ~(pins[t][b] > 0) => 1 .. pins[t][b] = {}
    BY DEF TypeOK
  <1>3. ASSUME NEW t \in Thread, pins[t][b] > 0
        PROVE  Pinned({b}) # {}
    <2>1. << t, b, 1 >> \in Pinned({b})
      BY <1>1, <1>3, PinnedElement
    <2> QED BY <2>1
  <1>4. ASSUME \A t \in Thread : ~(pins[t][b] > 0), NEW x \in Pinned({b})
        PROVE  FALSE
    BY <1>2, <1>4, PinnedElement
  <1> QED BY <1>3, <1>4

\* The pins of one block are some of them all.
LEMMA SomePins ==
    ASSUME NEW b \in Block, IsFiniteSet(Pinned(Block))
    PROVE  /\ IsFiniteSet(Pinned({b}))
           /\ Cardinality(Pinned({b})) \in Nat
           /\ Cardinality(Pinned({b})) <= Cardinality(Pinned(Block))
  <1>1. Pinned({b}) \in SUBSET Pinned(Block)
    BY DEF Pinned
  <1> QED BY <1>1, FS_Subset, FS_CardinalityType

\* At most one guard stands on a frame, that of the lock's holder.
LEMMA GuardsAre ==
    ASSUME TypeOK, LocksHeld, NEW f \in Frame
    PROVE  GuardsOn(f) = IF frame_locks[f] = NoThread THEN {} ELSE {frame_locks[f]}
  BY NoThreadAssumption DEF GuardsOn, LocksHeld, TypeOK

\* What a step of t does to the callers of find_frame.
LEMMA CallersStep ==
    ASSUME TypeOK, NEW t \in Thread, Step(t)
    PROVE  Callers' = Callers \/ Callers' = Callers \ {t}
  <1>1. \A u \in Thread : u # t => pc'[u] = pc[u] /\ req'[u] = req[u]
    BY DEF Step, FindShared, FindExclusive, EvictVictim, EvictSkip,
           Load, LoadAs, Retry, Read, Pin, Write, Access, GuardWrite, GuardWriteAs,
           GuardRelease, UnpinLookup, UnpinFrame, FlushLookup, FlushFrame,
           SweepFrame, Return, Goto, TypeOK
  <1>2. pc'[t] \notin {"idle", "done"} => req'[t].op = req[t].op /\ pc[t] \notin {"idle", "done"}
    BY DEF Step, FindShared, FindExclusive, EvictVictim, EvictSkip,
           Load, LoadAs, Retry, Read, Pin, Write, Access, GuardWrite, GuardWriteAs,
           GuardRelease, UnpinLookup, UnpinFrame, FlushLookup, FlushFrame,
           SweepFrame, Return, Goto, TypeOK, InFrame
  <1>3. \A u \in Thread : u # t => (u \in Callers' <=> u \in Callers)
    BY <1>1 DEF Callers
  <1>4. t \in Callers' => t \in Callers
    BY <1>2 DEF Callers
  <1>5. Callers \subseteq Thread /\ Callers' \subseteq Thread
    BY DEF Callers
  <1> QED BY <1>3, <1>4, <1>5

SameCount(g, fr) == /\ g.valid = fr.valid
                    /\ g.block_id = fr.block_id
                    /\ g.ref_count = fr.ref_count

\* What the operations on one frame do to its count.
LEMMA FrameCounts ==
    ASSUME NEW fr \in FrameRecord, NEW v \in Data
    PROVE  /\ SameCount(Touched(fr), fr)
           /\ SameCount(Aged(fr), fr)
           /\ SameCount(Written(fr, v), fr)
           /\ SameCount([fr EXCEPT !.dirty = FALSE], fr)
           /\ PinnedOnce(fr).ref_count = (fr.ref_count + 1) % RefModulus
           /\ fr.ref_count > 0 => UnpinnedOnce(fr).ref_count = fr.ref_count - 1
  BY DEF SameCount, Touched, Aged, Written, PinnedOnce, UnpinnedOnce, FrameRecord

\* A step that moves no pin, no guard and no frame leaves the counts exact.
LEMMA CountsStay ==
    ASSUME TypeOK, FramesLoaded, PinnedIsResident, RefCountExact,
           pins' = pins, frame_map' = frame_map,
           \A f \in Frame : SameCount(frames'[f], frames[f]),
           \A f \in Frame : GuardsOn(f)' = GuardsOn(f)
    PROVE  PinnedIsResident' /\ RefCountExact'
  <1>1. PinnedIsResident'
    <2> SUFFICES ASSUME NEW t \in Thread, NEW b \in Block, pins[t][b] > 0
                 PROVE  frame_map[b] # NoFrame /\ frames'[frame_map[b]].valid
      BY DEF PinnedIsResident
    <2>1. frame_map[b] # NoFrame /\ frames[frame_map[b]].valid
      BY DEF PinnedIsResident
    <2>2. frame_map[b] \in Frame
      BY <2>1 DEF TypeOK
    <2> QED BY <2>1, <2>2 DEF SameCount
  <1>2. ASSUME NEW f \in Frame, frames'[f].valid
        PROVE  frames'[f].ref_count = PinsOn(frames[f].block_id)'
                                        + Cardinality(GuardsOn(f)')
    <2>1. frames[f].valid /\ frames'[f].block_id = frames[f].block_id
          /\ frames'[f].ref_count = frames[f].ref_count
      BY <1>2 DEF SameCount
    <2>2. PinsOn(frames[f].block_id)' = PinsOn(frames[f].block_id)
      BY <2>1 DEF PinsOn, Pinned
    <2> QED BY <2>1, <2>2 DEF RefCountExact
  <1> QED BY <1>1, <1>2 DEF RefCountExact

\* Every frame's count is within the demand, and below it while a caller of
\* find_frame is not yet counted in the frame.
LEMMA CountWithinDemand ==
    ASSUME CacheInv, PinInv, NEW f \in Frame, frames[f].valid
    PROVE  /\ IsFiniteSet(Pinned({frames[f].block_id}))
           /\ Cardinality(Pinned({frames[f].block_id})) \in Nat
           /\ Cardinality(GuardsOn(f)) \in Nat
           /\ \A t \in Callers \ GuardsOn(f) : frames[f].ref_count < MaxDemand
  <1>1. /\ TypeOK /\ LocksHeld /\ \A t \in Thread : RequestFits(t)
        /\ frames[f].block_id \in Block
        /\ IsFiniteSet(Pinned(Block)) /\ IsFiniteSet(Callers)
        /\ Demand <= MaxDemand
    BY DEF CacheInv, PinInv, DemandBounded, FramesLoaded
  <1>2. /\ IsFiniteSet(Pinned({frames[f].block_id}))
        /\ Cardinality(Pinned({frames[f].block_id})) \in Nat
        /\ Cardinality(Pinned({frames[f].block_id})) <= Cardinality(Pinned(Block))
    BY <1>1, SomePins
  <1>3. GuardsOn(f) \in SUBSET Callers
    BY <1>1 DEF GuardsOn, Callers, RequestFits, Request, EntryPoint, WriteOps
  <1>4. IsFiniteSet(GuardsOn(f)) /\ Cardinality(GuardsOn(f)) \in Nat
    BY <1>1, <1>3, FS_Subset, FS_CardinalityType
  <1>5. ASSUME NEW t \in Callers \ GuardsOn(f)
        PROVE  frames[f].ref_count < MaxDemand
    <2>1. /\ Cardinality(GuardsOn(f)) <= Cardinality(Callers)
          /\ Cardinality(GuardsOn(f)) # Cardinality(Callers)
          /\ Cardinality(Callers) \in Nat
      BY <1>1, <1>3, <1>5, FS_Subset, FS_CardinalityType
    <2>2. Cardinality(Pinned(Block)) \in Nat
      BY <1>1, FS_CardinalityType
    <2>3. frames[f].ref_count = Cardinality(Pinned({frames[f].block_id}))
                                    + Cardinality(GuardsOn(f))
      BY DEF PinInv, RefCountExact, PinsOn
    <2> QED BY <1>1, <1>2, <1>4, <2>1, <2>2, <2>3, MaxDemandAssumption DEF Demand
  <1> QED BY <1>2, <1>4, <1>5

-------------------------------------------------------------------------------
\* The demand stays within its bound: only Begin adds to it, and asks first.
LEMMA KeepsDemand ==
    ASSUME CacheInv, PinInv, NEW t \in Thread, Begin(t) \/ Step(t)
    PROVE  DemandBounded'
  <1>0. /\ TypeOK /\ RequestFits(t)
        /\ IsFiniteSet(Pinned(Block)) /\ IsFiniteSet(Callers)
        /\ Demand <= MaxDemand
        /\ Cardinality(Pinned(Block)) \in Nat /\ Cardinality(Callers) \in Nat
        /\ MaxDemand \in Nat
    BY FS_CardinalityType, MaxDemandAssumption DEF CacheInv, PinInv, DemandBounded
  <1>1. CASE Begin(t)
    <2>1. PICK r \in Request(Ops) :
              /\ MayIssue(t, r)
              /\ pc' = [pc EXCEPT ![t] = EntryPoint(r.op)]
              /\ req' = [req EXCEPT ![t] = r]
      BY <1>1 DEF Begin, Goto
    <2>2. Pinned(Block)' = Pinned(Block)
      BY <1>1 DEF Begin, Pinned
    <2>3. t \notin Callers
      BY <1>1 DEF Begin, Callers
    <2>4. \A u \in Thread : u # t => (u \in Callers' <=> u \in Callers)
      BY <1>0, <2>1 DEF Callers, TypeOK
    <2>5. Callers \subseteq Thread /\ Callers' \subseteq Thread
      BY DEF Callers
    <2>6. t \in Callers' <=> EntryPoint(r.op) = "find"
      BY <1>0, <2>1 DEF Callers, TypeOK, EntryPoint
    <2>7. CASE EntryPoint(r.op) = "find"
      <3>1. Callers' = Callers \cup {t}
        BY <2>4, <2>5, <2>6, <2>7
      <3>2. IsFiniteSet(Callers') /\ Cardinality(Callers') = Cardinality(Callers) + 1
        BY <1>0, <2>3, <3>1, FS_AddElement
      <3>3. Demand < MaxDemand
        BY <2>1, <2>7 DEF MayIssue
      <3> QED BY <1>0, <2>2, <3>2, <3>3 DEF DemandBounded, Demand
    <2>8. CASE EntryPoint(r.op) # "find"
      <3>1. Callers' = Callers
        BY <2>3, <2>4, <2>5, <2>6, <2>8
      <3> QED BY <1>0, <2>2, <3>1 DEF DemandBounded, Demand
    <2> QED BY <2>7, <2>8
  <1>2. CASE Step(t)
    <2>1. /\ IsFiniteSet(Callers') /\ Cardinality(Callers') \in Nat
          /\ Cardinality(Callers') <= Cardinality(Callers)
      BY <1>0, <1>2, CallersStep, FS_RemoveElement, FS_CardinalityType, FS_Subset
    <2>2. CASE Pin(t)
      <3> DEFINE b == req[t].blk
                 x == << t, b, pins[t][b] + 1 >>
      <3>1. b \in Block /\ pins' = [pins EXCEPT ![t][b] = @ + 1]
        BY <1>0, <2>2 DEF Pin, InFrame, RequestFits, Request, ReadOps, WriteOps
      <3>2. x \notin Pinned(Block) /\ Pinned(Block)' = Pinned(Block) \cup {x}
        BY <1>0, <3>1, PinTaken
      <3> HIDE DEF b, x
      <3>3. /\ IsFiniteSet(Pinned(Block)')
            /\ Cardinality(Pinned(Block)') = Cardinality(Pinned(Block)) + 1
        BY <1>0, <3>2, FS_AddElement
      <3>4. t \in Callers /\ t \notin Callers'
        BY <1>0, <2>2 DEF Pin, InFrame, Callers, EntryPoint, Goto, TypeOK
      <3>5. Callers' = Callers \ {t}
        BY <1>0, <1>2, <3>4, CallersStep
      <3>6. Cardinality(Callers') = Cardinality(Callers) - 1
        BY <1>0, <3>4, <3>5, FS_RemoveElement
      <3> QED BY <1>0, <2>1, <3>3, <3>6 DEF DemandBounded, Demand
    <2>3. CASE UnpinFrame(t)
      <3> DEFINE b == req[t].blk
                 x == << t, b, pins[t][b] >>
      <3>1. b \in Block /\ pins[t][b] > 0 /\ pins' = [pins EXCEPT ![t][b] = @ - 1]
        BY <1>0, <2>3 DEF UnpinFrame, RequestFits, Request
      <3>2. x \in Pinned(Block) /\ Pinned(Block)' = Pinned(Block) \ {x}
        BY <1>0, <3>1, PinGivenBack
      <3> HIDE DEF b, x
      <3>3. /\ IsFiniteSet(Pinned(Block)')
            /\ Cardinality(Pinned(Block)') = Cardinality(Pinned(Block)) - 1
        BY <1>0, <3>2, FS_RemoveElement
      <3> QED BY <1>0, <2>1, <3>3 DEF DemandBounded, Demand
    <2>4. CASE ~Pin(t) /\ ~UnpinFrame(t)
      <3>1. pins' = pins
        BY <1>2, <2>4
           DEF Step, FindShared, FindExclusive, EvictVictim, EvictSkip,
               Load, LoadAs, Retry, Read, Write, Access, GuardWrite, GuardWriteAs,
               GuardRelease, UnpinLookup, FlushLookup, FlushFrame,
               SweepFrame, Return
      <3>2. Pinned(Block)' = Pinned(Block)
        BY <3>1 DEF Pinned
      <3> QED BY <1>0, <2>1, <3>2 DEF DemandBounded, Demand
    <2> QED BY <2>2, <2>3, <2>4
  <1> QED BY <1>1, <1>2

\* The map does not change under an unpin.
LEMMA KeepsUnpin ==
    ASSUME CacheInv, UnpinAtFrame, NEW t \in Thread, Begin(t) \/ Step(t)
    PROVE  UnpinAtFrame'
  <1> SUFFICES ASSUME NEW u \in Thread, pc'[u] = "unpin_frame"
               PROVE  idx'[u] = frame_map'[req'[u].blk]
    BY DEF UnpinAtFrame
  <1>0. TypeOK /\ LocksHeld
    BY DEF CacheInv
  <1>1. CASE UnpinLookup(t) /\ u = t
    BY <1>0, <1>1 DEF UnpinLookup, cache, TypeOK
  <1>2. CASE ~(UnpinLookup(t) /\ u = t)
    <2>1. pc[u] = "unpin_frame" /\ req'[u] = req[u] /\ idx'[u] = idx[u]
      BY <1>0, <1>2
         DEF Begin, Step, FindShared, FindExclusive, EvictVictim, EvictSkip,
             Load, LoadAs, Retry, Read, Pin, Write, Access, GuardWrite, GuardWriteAs,
             GuardRelease, UnpinLookup, UnpinFrame, FlushLookup, FlushFrame,
             SweepFrame, Return, Goto, TypeOK, EntryPoint
    <2>2. pc[t] # "load"
      BY <1>0, <2>1, NoThreadAssumption DEF LocksHeld, TypeOK
    <2>3. frame_map' = frame_map
      BY <2>2
         DEF Begin, Step, FindShared, FindExclusive, EvictVictim, EvictSkip,
             Load, LoadAs, Retry, Read, Pin, Write, Access, GuardWrite, GuardWriteAs,
             GuardRelease, UnpinLookup, UnpinFrame, FlushLookup, FlushFrame,
             SweepFrame, Return, cache
    <2> QED BY <2>1, <2>3 DEF UnpinAtFrame
  <1> QED BY <1>1, <1>2

\* The steps that move no pin, no guard and no frame.
LEMMA StillSteps ==
    ASSUME CacheInv, NEW t \in Thread,
           \/ Begin(t) \/ FindShared(t) \/ FindExclusive(t) \/ EvictSkip(t)
           \/ Retry(t) \/ Read(t) \/ Write(t) \/ GuardWrite(t) \/ UnpinLookup(t)
           \/ FlushLookup(t) \/ FlushFrame(t) \/ SweepFrame(t) \/ Return(t)
    PROVE  /\ pins' = pins /\ frame_map' = frame_map
           /\ \A f \in Frame : SameCount(frames'[f], frames[f])
           /\ \A f \in Frame : GuardsOn(f)' = GuardsOn(f)
  <1>0. /\ TypeOK /\ RequestFits(t)
        /\ \A f \in Frame : SameCount(frames[f], frames[f])
    BY DEF CacheInv, SameCount
  <1>1. pins' = pins /\ frame_map' = frame_map
    BY DEF Begin, FindShared, FindExclusive, EvictSkip, Retry, Read, Write,
           GuardWrite, GuardWriteAs, UnpinLookup, FlushLookup, FlushFrame, SweepFrame, Return, cache
  <1>2. \A u \in Thread, f \in Frame :
            pc'[u] = "guard" /\ idx'[u] = f <=> pc[u] = "guard" /\ idx[u] = f
    BY <1>0
       DEF Begin, FindShared, FindExclusive, EvictSkip, Retry, Read, Write,
           GuardWrite, GuardWriteAs, UnpinLookup, FlushLookup, FlushFrame, SweepFrame, Return,
           InFrame, Goto, TypeOK, EntryPoint
  <1>3. ASSUME NEW f \in Frame
        PROVE  SameCount(frames'[f], frames[f])
    <2>1. CASE frames' = frames
      BY <1>0, <2>1
    <2>2. ASSUME NEW e \in Frame, NEW fr, SameCount(fr, frames[e]),
                 frames' = [frames EXCEPT ![e] = fr]
          PROVE  SameCount(frames'[f], frames[f])
      BY <1>0, <2>2 DEF TypeOK
    <2>3. CASE EvictSkip(t)
      <3>1. SameCount(Aged(frames[clock_hand]), frames[clock_hand])
        BY <1>0 DEF SameCount, Aged, TypeOK, FrameRecord
      <3>2. clock_hand \in Frame
            /\ frames' = [frames EXCEPT ![clock_hand] = Aged(frames[clock_hand])]
        BY <1>0, <2>3 DEF EvictSkip, TypeOK
      <3> QED BY <2>2, <3>1, <3>2
    <2>4. CASE Read(t)
      <3>1. SameCount(Touched(frames[idx[t]]), frames[idx[t]])
        BY <1>0 DEF SameCount, Touched, TypeOK, FrameRecord
      <3>2. idx[t] \in Frame
            /\ frames' = [frames EXCEPT ![idx[t]] = Touched(frames[idx[t]])]
        BY <1>0, <2>4 DEF Read, InFrame, TypeOK
      <3> QED BY <2>2, <3>1, <3>2
    <2>5. CASE Write(t)
      <3> DEFINE v == req[t].val
                 fr == Touched(Written(frames[idx[t]], v))
      <3>1. idx[t] \in Frame /\ frames[idx[t]] \in FrameRecord
        BY <1>0 DEF TypeOK
      <3>2. frames' = [frames EXCEPT ![idx[t]] = fr]
        BY <2>5 DEF Write, InFrame
      <3> HIDE DEF v
      <3>3. SameCount(fr, frames[idx[t]])
        BY <3>1 DEF SameCount, Touched, Written, FrameRecord
      <3> HIDE DEF fr
      <3> QED BY <2>2, <3>1, <3>2, <3>3
    <2>6. CASE GuardWrite(t)
      <3> DEFINE v == req[t].val
                 fr == Written(frames[idx[t]], v)
      <3>1. idx[t] \in Frame /\ frames[idx[t]] \in FrameRecord
        BY <1>0 DEF TypeOK
      <3>2. frames' = [frames EXCEPT ![idx[t]] = fr]
        BY <2>6 DEF GuardWrite, GuardWriteAs
      <3> HIDE DEF v
      <3>3. SameCount(fr, frames[idx[t]])
        BY <3>1 DEF SameCount, Written, FrameRecord
      <3> HIDE DEF fr
      <3> QED BY <2>2, <3>1, <3>2, <3>3
    <2>7. CASE FlushFrame(t) \/ SweepFrame(t)
      <3> DEFINE fr == [frames[idx[t]] EXCEPT !.dirty = FALSE]
      <3>1. idx[t] \in Frame /\ frames[idx[t]] \in FrameRecord
        BY <1>0 DEF TypeOK
      <3>2. frames' = frames \/ frames' = [frames EXCEPT ![idx[t]] = fr]
        BY <2>7 DEF FlushFrame, SweepFrame, CleanFrame
      <3>3. SameCount(fr, frames[idx[t]])
        BY <3>1 DEF SameCount, FrameRecord
      <3> HIDE DEF fr
      <3> QED BY <2>1, <2>2, <3>1, <3>2, <3>3
    <2>8. CASE \/ Begin(t) \/ FindShared(t) \/ FindExclusive(t) \/ Retry(t)
               \/ UnpinLookup(t) \/ FlushLookup(t) \/ Return(t)
      BY <2>1, <2>8
         DEF Begin, FindShared, FindExclusive, Retry, UnpinLookup, FlushLookup,
             Return, cache
    <2> QED BY <2>3, <2>4, <2>5, <2>6, <2>7, <2>8
  <1>4. \A f \in Frame : GuardsOn(f)' = GuardsOn(f)
    BY <1>2 DEF GuardsOn
  <1> QED BY <1>1, <1>3, <1>4

\* A step that changes one frame keeps the counts of the others, if it moves
\* neither their pins nor their guards.
LEMMA OneCount ==
    ASSUME TypeOK, FramesLoaded, MapExact, RefCountExact, NoFrame \notin Frame,
           NEW f \in Frame,
           \A e \in Frame : e # f => frames'[e] = frames[e] /\ GuardsOn(e)' = GuardsOn(e),
           \A c \in Block : frame_map[c] \notin {f, NoFrame}
                               => Pinned({c})' = Pinned({c}),
           frames'[f].valid =>
              frames'[f].ref_count = PinsOn(frames[f].block_id)'
                                        + Cardinality(GuardsOn(f)')
    PROVE  RefCountExact'
  <1> SUFFICES ASSUME NEW e \in Frame, frames'[e].valid
               PROVE  frames'[e].ref_count = PinsOn(frames[e].block_id)'
                                                + Cardinality(GuardsOn(e)')
    BY DEF RefCountExact
  <1>1. CASE e = f
    BY <1>1
  <1>2. CASE e # f
    <2>1. PICK c \in Block : c = frames[e].block_id
      BY <1>2 DEF FramesLoaded
    <2>2. frame_map[c] = e
      BY <2>1 DEF MapExact
    <2>3. Pinned({c})' = Pinned({c})
      BY <1>2, <2>2
    <2>4. c = frames'[e].block_id /\ frames'[e].ref_count = frames[e].ref_count
      BY <1>2, <2>1
    <2>5. PinsOn(frames[e].block_id)' = PinsOn(frames[e].block_id)
      BY <2>1, <2>3, <2>4 DEF PinsOn
    <2>6. GuardsOn(e)' = GuardsOn(e)
      BY <1>2
    <2> QED BY <1>2, <2>4, <2>5, <2>6 DEF RefCountExact
  <1> QED BY <1>1, <1>2

\* What the steps in a frame start from.
LEMMA InFrameFacts ==
    ASSUME CacheInv, PinInv, NEW t \in Thread, pc[t] = "frame",
           FrameFree(idx[t]), Holds(idx[t], req[t].blk)
    PROVE  \E f \in Frame, b \in Block :
              /\ f = idx[t] /\ b = req[t].blk
              /\ frames[f] \in FrameRecord
              /\ frames[f].valid /\ frames[f].block_id = b /\ frame_map[b] = f
              /\ GuardsOn(f) = {}
              /\ IsFiniteSet(Pinned({b})) /\ Cardinality(Pinned({b})) \in Nat
              /\ frames[f].ref_count = Cardinality(Pinned({b}))
              /\ frames[f].ref_count < MaxDemand
  <1>1. TypeOK /\ LocksHeld /\ RequestFits(t) /\ MapExact /\ RefCountExact
    BY DEF CacheInv, PinInv
  <1>2. PICK f \in Frame, b \in Block : f = idx[t] /\ b = req[t].blk
    BY <1>1 DEF TypeOK, RequestFits, Request, ReadOps, WriteOps
  <1>3. /\ frames[f] \in FrameRecord
        /\ frames[f].valid /\ frames[f].block_id = b /\ frame_map[b] = f
    BY <1>1, <1>2 DEF TypeOK, Holds, MapExact
  <1>4. GuardsOn(f) = {}
    BY <1>1, <1>2, GuardsAre DEF FrameFree
  <1>5. t \in Callers \ GuardsOn(f)
    BY <1>1, <1>4 DEF RequestFits, Request, ReadOps, WriteOps, Callers, EntryPoint
  <1>6. /\ IsFiniteSet(Pinned({b})) /\ Cardinality(Pinned({b})) \in Nat
        /\ frames[f].ref_count < MaxDemand
    BY <1>3, <1>5, CountWithinDemand
  <1>7. frames[f].ref_count = Cardinality(Pinned({b})) + Cardinality(GuardsOn(f))
    BY <1>1, <1>3 DEF RefCountExact, PinsOn
  <1>8. Cardinality({}) = 0
    BY FS_EmptySet
  <1>9. frames[f].ref_count = Cardinality(Pinned({b}))
    BY <1>4, <1>6, <1>7, <1>8
  <1> WITNESS f \in Frame, b \in Block
  <1> QED BY <1>2, <1>3, <1>4, <1>6, <1>9

\* Nobody's guard moves but t's, when t is the only one to enter or leave one.
LEMMA GuardsStay ==
    ASSUME TypeOK, NEW t \in Thread, NEW f \in Frame,
           \A u \in Thread : u # t => pc'[u] = pc[u] /\ idx'[u] = idx[u],
           pc[t] = "guard" /\ idx[t] = f <=> pc'[t] = "guard" /\ idx'[t] = f
    PROVE  GuardsOn(f)' = GuardsOn(f)
  BY DEF GuardsOn

\* read_block takes a pin and counts it.
LEMMA PinCounts ==
    ASSUME CacheInv, PinInv, MaxDemand < RefModulus, NEW t \in Thread, Pin(t)
    PROVE  PinnedIsResident' /\ RefCountExact'
  <1>0. /\ TypeOK /\ FramesLoaded /\ MapExact /\ RefCountExact
        /\ PinnedIsResident
    BY DEF CacheInv, PinInv
  <1>1. PICK f \in Frame, b \in Block :
           /\ f = idx[t] /\ b = req[t].blk
           /\ frames[f] \in FrameRecord
           /\ frames[f].valid /\ frames[f].block_id = b /\ frame_map[b] = f
           /\ GuardsOn(f) = {}
           /\ IsFiniteSet(Pinned({b})) /\ Cardinality(Pinned({b})) \in Nat
           /\ frames[f].ref_count = Cardinality(Pinned({b}))
           /\ frames[f].ref_count < MaxDemand
    BY InFrameFacts DEF Pin, InFrame
  <1>2. /\ frames' = [frames EXCEPT ![f] = PinnedOnce(frames[f])]
        /\ pins' = [pins EXCEPT ![t][b] = @ + 1]
        /\ pc' = [pc EXCEPT ![t] = "done"] /\ pc[t] = "frame"
        /\ idx' = idx /\ frame_map' = frame_map
    BY <1>1 DEF Pin, InFrame, Goto
  <1> DEFINE x == << t, b, pins[t][b] + 1 >>
  <1>3. \A B \in SUBSET Block :
           /\ x \notin Pinned(B)
           /\ Pinned(B)' = IF b \in B THEN Pinned(B) \cup {x} ELSE Pinned(B)
    BY <1>0, <1>2, PinTaken
  <1> HIDE DEF x
  <1>4. \A e \in Frame : GuardsOn(e)' = GuardsOn(e)
    BY <1>0, <1>2, GuardsStay DEF TypeOK
  <1>5. Cardinality(Pinned({b})') = Cardinality(Pinned({b})) + 1
    <2>1. x \notin Pinned({b}) /\ Pinned({b})' = Pinned({b}) \cup {x}
      BY <1>3
    <2>2. Cardinality(Pinned({b}) \cup {x}) = Cardinality(Pinned({b})) + 1
      BY <1>1, <2>1, FS_AddElement
    <2> QED BY <2>1, <2>2
  <1>6. PinnedOnce(frames[f]).ref_count = frames[f].ref_count + 1
    <2>1. PinnedOnce(frames[f]).ref_count = (frames[f].ref_count + 1) % RefModulus
      BY <1>1 DEF PinnedOnce, Touched, FrameRecord
    <2> QED BY <1>1, <2>1, RefModulusAssumption, MaxDemandAssumption DEF FrameRecord
  <1>7. Same(PinnedOnce(frames[f]), frames[f])
    BY <1>1, FrameOpsKeep
  <1>8. frames'[f] = PinnedOnce(frames[f])
        /\ \A e \in Frame : e # f => frames'[e] = frames[e]
    BY <1>0, <1>2 DEF TypeOK
  <1>9. frames'[f].valid /\ frames'[f].block_id = b
    BY <1>1, <1>7, <1>8 DEF Same
  <1>10. PinnedIsResident'
    <2> SUFFICES ASSUME NEW u \in Thread, NEW c \in Block, pins'[u][c] > 0
                 PROVE  frame_map[c] # NoFrame /\ frames'[frame_map[c]].valid
      BY <1>2 DEF PinnedIsResident
    <2>1. CASE c = b
      BY <1>1, <1>9, <2>1, NoFrameAssumption
    <2>2. CASE c # b
      <3>1. pins'[u][c] = pins[u][c]
        BY <1>0, <1>2, <2>2 DEF TypeOK
      <3>2. frame_map[c] # NoFrame /\ frames[frame_map[c]].valid
        BY <1>0, <3>1 DEF PinnedIsResident
      <3> QED BY <1>0, <1>8, <1>9, <3>2 DEF TypeOK
    <2> QED BY <2>1, <2>2
  <1>11. frames'[f].ref_count = PinsOn(frames[f].block_id)' + Cardinality(GuardsOn(f)')
    <2>1. PinsOn(frames[f].block_id)' = Cardinality(Pinned({b})')
      BY <1>9 DEF PinsOn
    <2>2. Cardinality(GuardsOn(f)') = 0
      BY <1>1, <1>4, FS_EmptySet
    <2> QED BY <1>1, <1>5, <1>6, <1>8, <2>1, <2>2
  <1>12. \A c \in Block : frame_map[c] \notin {f, NoFrame} => Pinned({c})' = Pinned({c})
    BY <1>1, <1>3
  <1>13. RefCountExact'
    BY <1>0, <1>4, <1>8, <1>11, <1>12, NoFrameAssumption, OneCount
  <1> QED BY <1>10, <1>13

\* A step that moves no pin and changes no block's frame keeps every pinned
\* block resident, if it leaves the pinned blocks' frames valid.
LEMMA ResidentStays ==
    ASSUME TypeOK, PinnedIsResident, frame_map' = frame_map,
           \A t \in Thread, b \in Block : pins'[t][b] > 0 => pins[t][b] > 0,
           \A e \in Frame : frames[e].valid => frames'[e].valid
    PROVE  PinnedIsResident'
  <1> SUFFICES ASSUME NEW t \in Thread, NEW b \in Block, pins'[t][b] > 0
               PROVE  frame_map[b] # NoFrame /\ frames'[frame_map[b]].valid
    BY DEF PinnedIsResident
  <1>1. frame_map[b] # NoFrame /\ frames[frame_map[b]].valid
    BY DEF PinnedIsResident
  <1>2. frame_map[b] \in Frame
    BY <1>1 DEF TypeOK
  <1> QED BY <1>1, <1>2

\* access_frame_lock counts the guard it returns.
LEMMA AccessCounts ==
    ASSUME CacheInv, PinInv, MaxDemand < RefModulus, NEW t \in Thread, Access(t)
    PROVE  PinnedIsResident' /\ RefCountExact'
  <1>0. /\ TypeOK /\ FramesLoaded /\ MapExact /\ RefCountExact
        /\ PinnedIsResident
    BY DEF CacheInv, PinInv
  <1>1. PICK f \in Frame, b \in Block :
           /\ f = idx[t] /\ b = req[t].blk
           /\ frames[f] \in FrameRecord
           /\ frames[f].valid /\ frames[f].block_id = b /\ frame_map[b] = f
           /\ GuardsOn(f) = {}
           /\ IsFiniteSet(Pinned({b})) /\ Cardinality(Pinned({b})) \in Nat
           /\ frames[f].ref_count = Cardinality(Pinned({b}))
           /\ frames[f].ref_count < MaxDemand
    BY InFrameFacts DEF Access, InFrame
  <1>2. /\ frames' = [frames EXCEPT ![f] = PinnedOnce(frames[f])]
        /\ pins' = pins
        /\ pc' = [pc EXCEPT ![t] = "guard"] /\ pc[t] = "frame"
        /\ idx' = idx /\ frame_map' = frame_map
    BY <1>1 DEF Access, InFrame, Goto
  <1>3. \A B : Pinned(B)' = Pinned(B)
    BY <1>2 DEF Pinned
  <1>4. \A e \in Frame : e # f => GuardsOn(e)' = GuardsOn(e)
    BY <1>0, <1>1, <1>2, GuardsStay DEF TypeOK
  <1>5. GuardsOn(f)' = {t}
    <2>1. \A u \in Thread : u # t => pc'[u] = pc[u] /\ idx'[u] = idx[u]
      BY <1>0, <1>2 DEF TypeOK
    <2>2. \A u \in Thread : u \in GuardsOn(f)' => u = t
      BY <1>1, <2>1 DEF GuardsOn
    <2>3. pc'[t] = "guard" /\ idx'[t] = f
      BY <1>0, <1>1, <1>2 DEF TypeOK
    <2> QED BY <2>2, <2>3 DEF GuardsOn
  <1>6. PinnedOnce(frames[f]).ref_count = frames[f].ref_count + 1
    <2>1. PinnedOnce(frames[f]).ref_count = (frames[f].ref_count + 1) % RefModulus
      BY <1>1 DEF PinnedOnce, Touched, FrameRecord
    <2> QED BY <1>1, <2>1, RefModulusAssumption, MaxDemandAssumption DEF FrameRecord
  <1>7. Same(PinnedOnce(frames[f]), frames[f])
    BY <1>1, FrameOpsKeep
  <1>8. frames'[f] = PinnedOnce(frames[f])
        /\ \A e \in Frame : e # f => frames'[e] = frames[e]
    BY <1>0, <1>2 DEF TypeOK
  <1>9. frames'[f].valid /\ frames'[f].block_id = b
    BY <1>1, <1>7, <1>8 DEF Same
  <1>10. PinnedIsResident'
    BY <1>0, <1>2, <1>8, <1>9, ResidentStays
  <1>11. frames'[f].ref_count = PinsOn(frames[f].block_id)' + Cardinality(GuardsOn(f)')
    <2>1. PinsOn(frames[f].block_id)' = Cardinality(Pinned({b}))
      BY <1>3, <1>9 DEF PinsOn
    <2>2. Cardinality(GuardsOn(f)') = 1
      BY <1>5, FS_Singleton
    <2> QED BY <1>1, <1>6, <1>8, <2>1, <2>2
  <1>12. RefCountExact'
    BY <1>0, <1>3, <1>4, <1>8, <1>11, NoFrameAssumption, OneCount
  <1> QED BY <1>10, <1>12

\* The guard's destructor takes its count back.
LEMMA ReleaseCounts ==
    ASSUME CacheInv, PinInv, NEW t \in Thread, GuardRelease(t)
    PROVE  PinnedIsResident' /\ RefCountExact'
  <1>0. /\ TypeOK /\ LocksHeld /\ FramesLoaded /\ MapExact /\ RefCountExact
        /\ PinnedIsResident
    BY DEF CacheInv, PinInv
  <1>1. PICK f \in Frame : f = idx[t]
    BY <1>0 DEF TypeOK
  <1>2. /\ frames' = [frames EXCEPT ![f] = UnpinnedOnce(frames[f])]
        /\ pins' = pins
        /\ pc' = [pc EXCEPT ![t] = "done"] /\ pc[t] = "guard"
        /\ idx' = idx /\ frame_map' = frame_map
    BY <1>1 DEF GuardRelease, Goto
  <1>3. \A B : Pinned(B)' = Pinned(B)
    BY <1>2 DEF Pinned
  <1>4. \A e \in Frame : e # f => GuardsOn(e)' = GuardsOn(e)
    BY <1>0, <1>1, <1>2, GuardsStay DEF TypeOK
  <1>5. GuardsOn(f) = {t} /\ GuardsOn(f)' = {}
    <2>1. GuardsOn(f) = {t}
      BY <1>0, <1>1, <1>2, GuardsAre, NoThreadAssumption DEF LocksHeld, GuardsOn
    <2>2. \A u \in Thread : u # t => pc'[u] = pc[u] /\ idx'[u] = idx[u]
      BY <1>0, <1>2 DEF TypeOK
    <2>3. pc'[t] # "guard"
      BY <1>0, <1>2 DEF TypeOK
    <2> QED BY <2>1, <2>2, <2>3 DEF GuardsOn
  <1>6. frames[f] \in FrameRecord
    BY <1>0 DEF TypeOK
  <1>7. PICK c : c = frames[f].block_id
    OBVIOUS
  <1>8. frames'[f] = UnpinnedOnce(frames[f])
        /\ \A e \in Frame : e # f => frames'[e] = frames[e]
    BY <1>0, <1>2 DEF TypeOK
  <1>9. frames'[f].valid = frames[f].valid /\ frames'[f].block_id = c
    BY <1>6, <1>7, <1>8, FrameOpsKeep DEF Same
  <1>10. PinnedIsResident'
    BY <1>0, <1>2, <1>8, <1>9, ResidentStays
  <1>11. ASSUME frames'[f].valid
         PROVE  frames'[f].ref_count = PinsOn(frames[f].block_id)'
                                          + Cardinality(GuardsOn(f)')
    <2>1. PinsOn(frames[f].block_id)' = Cardinality(Pinned({c}))
      BY <1>3, <1>9 DEF PinsOn
    <2>2. Cardinality(GuardsOn(f)) = 1 /\ Cardinality(GuardsOn(f)') = 0
      BY <1>5, FS_Singleton, FS_EmptySet
    <2>3. frames[f].ref_count = Cardinality(Pinned({c})) + 1
      BY <1>0, <1>7, <1>9, <1>11, <2>2 DEF RefCountExact, PinsOn
    <2>4. Cardinality(Pinned({c})) \in Nat
      BY <1>7, <1>9, <1>11, CountWithinDemand
    <2>5. UnpinnedOnce(frames[f]).ref_count = frames[f].ref_count - 1
      BY <1>6, <2>3, <2>4 DEF UnpinnedOnce, FrameRecord
    <2> QED BY <1>8, <2>1, <2>2, <2>3, <2>4, <2>5
  <1>12. RefCountExact'
    BY <1>0, <1>3, <1>4, <1>8, <1>11, NoFrameAssumption, OneCount
  <1> QED BY <1>10, <1>12

\* unpin_block meets the frame its block is in and takes the pin's count back.
LEMMA UnpinCounts ==
    ASSUME CacheInv, PinInv, NEW t \in Thread, UnpinFrame(t)
    PROVE  PinnedIsResident' /\ RefCountExact'
  <1>0. /\ TypeOK /\ FramesLoaded /\ MapExact /\ RefCountExact
        /\ PinnedIsResident /\ RequestFits(t) /\ UnpinAtFrame
    BY DEF CacheInv, PinInv
  <1>1. PICK f \in Frame, b \in Block : f = idx[t] /\ b = req[t].blk
    BY <1>0 DEF UnpinFrame, RequestFits, Request, TypeOK
  <1>2. /\ pins[t][b] > 0 /\ frame_map[b] = f
        /\ frames[f].valid /\ frames[f].block_id = b
        /\ frames[f] \in FrameRecord
    BY <1>0, <1>1
       DEF UnpinFrame, RequestFits, UnpinAtFrame, PinnedIsResident, MapExact, TypeOK
  <1>3. /\ frames' = [frames EXCEPT ![f] = UnpinnedOnce(frames[f])]
        /\ pins' = [pins EXCEPT ![t][b] = @ - 1]
        /\ pc' = [pc EXCEPT ![t] = "done"] /\ pc[t] = "unpin_frame"
        /\ idx' = idx /\ frame_map' = frame_map
    BY <1>1, <1>2 DEF UnpinFrame, Holds, Goto
  <1> DEFINE x == << t, b, pins[t][b] >>
  <1>4. \A B \in SUBSET Block :
           /\ b \in B => x \in Pinned(B)
           /\ Pinned(B)' = IF b \in B THEN Pinned(B) \ {x} ELSE Pinned(B)
    BY <1>0, <1>2, <1>3, PinGivenBack
  <1> HIDE DEF x
  <1>5. \A e \in Frame : GuardsOn(e)' = GuardsOn(e)
    BY <1>0, <1>3, GuardsStay DEF TypeOK
  <1>6. frames'[f] = UnpinnedOnce(frames[f])
        /\ \A e \in Frame : e # f => frames'[e] = frames[e]
    BY <1>0, <1>3 DEF TypeOK
  <1>7. frames'[f].valid /\ frames'[f].block_id = b
    BY <1>2, <1>6, FrameOpsKeep DEF Same
  <1>8. PinnedIsResident'
    <2>1. \A u \in Thread, c \in Block : pins'[u][c] > 0 => pins[u][c] > 0
      BY <1>0, <1>2, <1>3 DEF TypeOK
    <2> QED BY <1>0, <1>3, <1>6, <1>7, <2>1, ResidentStays
  <1>9. /\ IsFiniteSet(Pinned({b})) /\ Cardinality(Pinned({b})) \in Nat
        /\ Cardinality(GuardsOn(f)) \in Nat
    BY <1>2, CountWithinDemand
  <1>10. Cardinality(Pinned({b})') = Cardinality(Pinned({b})) - 1
    <2>1. x \in Pinned({b}) /\ Pinned({b})' = Pinned({b}) \ {x}
      BY <1>4
    <2>2. Cardinality(Pinned({b}) \ {x}) = Cardinality(Pinned({b})) - 1
      BY <1>9, <2>1, FS_RemoveElement
    <2> QED BY <2>1, <2>2
  <1>11. Cardinality(Pinned({b})) > 0
    <2>1. Pinned({b}) # {}
      BY <1>4
    <2> QED BY <1>9, <2>1, FS_EmptySet
  <1>12. frames[f].ref_count = Cardinality(Pinned({b})) + Cardinality(GuardsOn(f))
    BY <1>0, <1>2 DEF RefCountExact, PinsOn
  <1>13. UnpinnedOnce(frames[f]).ref_count = frames[f].ref_count - 1
    BY <1>2, <1>9, <1>11, <1>12 DEF UnpinnedOnce, FrameRecord
  <1>14. frames'[f].ref_count = PinsOn(frames[f].block_id)' + Cardinality(GuardsOn(f)')
    <2>1. PinsOn(frames[f].block_id)' = Cardinality(Pinned({b})')
      BY <1>7 DEF PinsOn
    <2>2. Cardinality(GuardsOn(f)') = Cardinality(GuardsOn(f))
      BY <1>5
    <2> QED BY <1>6, <1>9, <1>10, <1>12, <1>13, <2>1, <2>2
  <1>15. \A c \in Block : frame_map[c] \notin {f, NoFrame} => Pinned({c})' = Pinned({c})
    BY <1>2, <1>4
  <1>16. RefCountExact'
    BY <1>0, <1>5, <1>6, <1>14, <1>15, NoFrameAssumption, OneCount
  <1> QED BY <1>8, <1>16

\* evict_frame takes no frame whose block is pinned.
LEMMA EvictCounts ==
    ASSUME CacheInv, PinInv, NEW t \in Thread, EvictVictim(t)
    PROVE  PinnedIsResident' /\ RefCountExact'
  <1>0. /\ TypeOK /\ LocksHeld /\ FramesLoaded /\ MapExact /\ RefCountExact
        /\ PinnedIsResident
    BY DEF CacheInv, PinInv
  <1>1. PICK f \in Frame : f = clock_hand
    BY <1>0 DEF TypeOK
  <1>2. /\ FrameFree(f) /\ Reusable(f)
        /\ frames' = [frames EXCEPT ![f] = Emptied(frames[f])]
        /\ pins' = pins
        /\ pc' = [pc EXCEPT ![t] = "load"] /\ pc[t] = "evict"
        /\ idx' = [idx EXCEPT ![t] = f] /\ frame_map' = frame_map
    BY <1>1 DEF EvictVictim, Goto
  <1>3. \A B : Pinned(B)' = Pinned(B)
    BY <1>2 DEF Pinned
  <1>4. \A e \in Frame : GuardsOn(e)' = GuardsOn(e)
    BY <1>0, <1>2, GuardsStay DEF TypeOK
  <1>5. /\ frames[f] \in FrameRecord
        /\ frames'[f] = Emptied(frames[f])
        /\ \A e \in Frame : e # f => frames'[e] = frames[e]
    BY <1>0, <1>2 DEF TypeOK
  <1>6. ~frames'[f].valid
    BY <1>5, EmptiedFrame
  <1>7. ASSUME NEW b \in Block, frame_map[b] = f, frames[f].valid
        PROVE  Pinned({b}) = {}
    <2>1. frames[f].block_id = b /\ frames[f].ref_count = 0
      BY <1>0, <1>2, <1>7, NoFrameAssumption DEF MapExact, Reusable
    <2>2. IsFiniteSet(Pinned({b})) /\ Cardinality(Pinned({b})) \in Nat
          /\ Cardinality(GuardsOn(f)) \in Nat
      BY <1>7, <2>1, CountWithinDemand
    <2>3. frames[f].ref_count = Cardinality(Pinned({b})) + Cardinality(GuardsOn(f))
      BY <1>0, <1>7, <2>1 DEF RefCountExact, PinsOn
    <2>4. Cardinality(Pinned({b})) = 0
      BY <2>1, <2>2, <2>3
    <2> QED BY <2>2, <2>4, FS_EmptySet
  <1>8. PinnedIsResident'
    <2> SUFFICES ASSUME NEW u \in Thread, NEW b \in Block, pins[u][b] > 0
                 PROVE  frame_map[b] # NoFrame /\ frames'[frame_map[b]].valid
      BY <1>2 DEF PinnedIsResident
    <2>1. frame_map[b] # NoFrame /\ frames[frame_map[b]].valid
      BY <1>0 DEF PinnedIsResident
    <2>2. Pinned({b}) # {}
      BY <1>0, HasPins
    <2>3. frame_map[b] \in Frame /\ frame_map[b] # f
      BY <1>0, <1>7, <2>1, <2>2 DEF TypeOK
    <2> QED BY <1>5, <2>1, <2>3
  <1>9. RefCountExact'
    BY <1>0, <1>3, <1>4, <1>5, <1>6, NoFrameAssumption, OneCount
  <1> QED BY <1>8, <1>9

\* find_frame fills a frame for a block that nobody has pinned.
LEMMA LoadCounts ==
    ASSUME CacheInv, PinInv, NEW t \in Thread, NEW v, LoadAs(t, v)
    PROVE  PinnedIsResident' /\ RefCountExact'
  <1>0. /\ TypeOK /\ LocksHeld /\ FramesLoaded /\ MapExact /\ RefCountExact
        /\ PinnedIsResident /\ RequestFits(t) /\ MissStands /\ VictimStaysInvalid
    BY DEF CacheInv, PinInv
  <1>1. PICK f \in Frame, b \in Block : f = idx[t] /\ b = req[t].blk
    BY <1>0 DEF LoadAs, RequestFits, Request, ReadOps, WriteOps, TypeOK
  <1>2. /\ FrameFree(f) /\ ~frames[f].valid /\ frame_map[b] = NoFrame
        /\ frames' = [frames EXCEPT ![f] = Loaded(b, v)]
        /\ frame_map' = Remap(b, f)
        /\ pins' = pins
        /\ pc' = [pc EXCEPT ![t] = "frame"] /\ pc[t] = "load"
        /\ idx' = idx
    BY <1>0, <1>1 DEF LoadAs, Goto, VictimStaysInvalid, MissStands
  <1>3. \A B : Pinned(B)' = Pinned(B)
    BY <1>2 DEF Pinned
  <1>4. \A e \in Frame : GuardsOn(e)' = GuardsOn(e)
    BY <1>0, <1>2, GuardsStay DEF TypeOK
  <1>5. /\ frames'[f] = Loaded(b, v)
        /\ \A e \in Frame : e # f => frames'[e] = frames[e]
    BY <1>0, <1>2 DEF TypeOK
  <1>6. frames'[f].valid /\ frames'[f].ref_count = 0 /\ frames'[f].block_id = b
    BY <1>5 DEF Loaded
  <1>7. Pinned({b}) = {}
    BY <1>0, <1>2, HasPins DEF PinnedIsResident
  <1>8. PinnedIsResident'
    <2> SUFFICES ASSUME NEW u \in Thread, NEW c \in Block, pins[u][c] > 0
                 PROVE  frame_map'[c] # NoFrame /\ frames'[frame_map'[c]].valid
      BY <1>2 DEF PinnedIsResident
    <2>1. frame_map[c] # NoFrame /\ frames[frame_map[c]].valid
      BY <1>0 DEF PinnedIsResident
    <2>2. frame_map[c] \in Frame /\ frame_map[c] # f /\ c # b
      BY <1>0, <1>2, <2>1 DEF TypeOK
    <2>3. c # frames[f].block_id
      BY <1>0, <2>2 DEF MapExact
    <2>4. frame_map'[c] = frame_map[c]
      BY <1>2, <2>2, <2>3 DEF Remap
    <2> QED BY <1>5, <2>1, <2>2, <2>4
  <1>9. frames'[f].ref_count = PinsOn(frames[f].block_id)' + Cardinality(GuardsOn(f)')
    <2>1. PinsOn(frames[f].block_id)' = 0
      BY <1>3, <1>6, <1>7, FS_EmptySet DEF PinsOn
    <2>2. GuardsOn(f) = {}
      BY <1>0, <1>2, GuardsAre DEF FrameFree
    <2>3. Cardinality(GuardsOn(f)') = 0
      BY <1>4, <2>2, FS_EmptySet
    <2> QED BY <1>6, <2>1, <2>3
  <1>10. RefCountExact'
    BY <1>0, <1>3, <1>4, <1>5, <1>9, NoFrameAssumption, OneCount
  <1> QED BY <1>8, <1>10

-------------------------------------------------------------------------------

LEMMA InitPins == Init => PinInv
  <1> SUFFICES ASSUME Init PROVE PinInv
    OBVIOUS
  <1>1. \A t \in Thread, b \in Block : pins[t][b] = 0
    BY DEF Init
  <1>2. Pinned(Block) = {}
    <2>1. \A n : n \notin 1 .. 0
      OBVIOUS
    <2> QED BY <1>1, <2>1, PinnedElement
  <1>3. Callers = {}
    BY DEF Init, Callers
  <1>4. DemandBounded
    BY <1>2, <1>3, FS_EmptySet, MaxDemandAssumption DEF DemandBounded, Demand
  <1> QED BY <1>1, <1>4 DEF PinInv, UnpinAtFrame, PinnedIsResident, RefCountExact, Init

LEMMA NextPins ==
    ASSUME MaxDemand < RefModulus
    PROVE  IInv /\ PinInv /\ [Next]_vars => PinInv'
  <1> SUFFICES ASSUME IInv, PinInv, [Next]_vars PROVE PinInv'
    OBVIOUS
  <1>0. CacheInv
    BY DEF IInv
  <1>1. CASE UNCHANGED vars
    BY <1>1
       DEF vars, PinInv, DemandBounded, Demand, Pinned, Callers, UnpinAtFrame,
           PinnedIsResident, RefCountExact, PinsOn, GuardsOn
  <1>2. ASSUME NEW t \in Thread, Begin(t) \/ Step(t)
        PROVE  PinInv'
    <2>1. DemandBounded'
      BY <1>0, <1>2, KeepsDemand
    <2>2. UnpinAtFrame'
      BY <1>0, <1>2, KeepsUnpin DEF PinInv
    <2>3. PinnedIsResident' /\ RefCountExact'
      <3>1. CASE \/ Begin(t) \/ FindShared(t) \/ FindExclusive(t) \/ EvictSkip(t)
                 \/ Retry(t) \/ Read(t) \/ Write(t) \/ GuardWrite(t) \/ UnpinLookup(t)
                 \/ FlushLookup(t) \/ FlushFrame(t) \/ SweepFrame(t) \/ Return(t)
        BY <1>0, <3>1, StillSteps, CountsStay DEF CacheInv, PinInv
      <3>2. CASE Pin(t)
        BY <1>0, <3>2, PinCounts
      <3>3. CASE Access(t)
        BY <1>0, <3>3, AccessCounts
      <3>4. CASE GuardRelease(t)
        BY <1>0, <3>4, ReleaseCounts
      <3>5. CASE UnpinFrame(t)
        BY <1>0, <3>5, UnpinCounts
      <3>6. CASE EvictVictim(t)
        BY <1>0, <3>6, EvictCounts
      <3>7. CASE Load(t)
        BY <1>0, <3>7, LoadCounts DEF Load
      <3> QED BY <1>2, <3>1, <3>2, <3>3, <3>4, <3>5, <3>6, <3>7 DEF Step
    <2> QED BY <2>1, <2>2, <2>3 DEF PinInv
  <1> QED BY <1>1, <1>2 DEF Next

\* While the callers demand fewer frames than a ref_count can count, every
\* frame's ref_count is exactly the number of pins and guards on it: no
\* interleaving of reads, guards, evictions and retries loses or invents one.
THEOREM CountsAreExact ==
    ASSUME MaxDemand < RefModulus
    PROVE  Spec => []RefCountExact
  <1>1. Init => PinInv
    BY InitPins
  <1>2. IInv /\ PinInv /\ [Next]_vars => PinInv'
    BY NextPins
  <1>3. PinInv => RefCountExact
    BY DEF PinInv
  <1> QED BY <1>1, <1>2, <1>3, Invariance, PTL DEF Spec

\* Under the same condition a pinned block is never evicted: the assertion of
\* unpin_block, that its block is in frame_map_, never fails for a caller that
\* unpins what it pinned.
THEOREM PinnedStaysResident ==
    ASSUME MaxDemand < RefModulus
    PROVE  Spec => []PinnedIsResident
  <1>1. Init => PinInv
    BY InitPins
  <1>2. IInv /\ PinInv /\ [Next]_vars => PinInv'
    BY NextPins
  <1>3. PinInv => PinnedIsResident
    BY DEF PinInv
  <1> QED BY <1>1, <1>2, <1>3, Invariance, PTL DEF Spec

-------------------------------------------------------------------------------
(* InodeBufferPool. *)

\* What an inode reads as, from its frame if that is dirty and else from the
\* table.
Latest(i) == IF Dirty(i) THEN frames[frame_map[i]].block ELSE device[i]

\* A clean frame of an inode that read_block finds is a copy of the table.
CleanSlotsMatch ==
    \A f \in Frame :
        frames[f].valid /\ ~frames[f].dirty /\ Slot(frames[f].block_id) = 0
            => frames[f].block = device[frames[f].block_id]

\* While stop is under way nobody else is in a call, and what its flush_all has
\* passed is clean.
Stopping ==
    /\ pc[Flusher] = "idle"
    /\ \/ /\ pc[User] = "sweep"
          /\ \A f \in Frame : NeedsWriteBack(f) => idx[User] <= f
       \/ /\ pc[User] = "done"
          /\ \A f \in Frame : ~NeedsWriteBack(f)

StopOrder ==
    /\ stage = "stopping" => Stopping
    /\ stage = "stopped" => \A f \in Frame : ~NeedsWriteBack(f)
    /\ blocks_off => stage = "stopped" /\ image = device

\* A last write that has been in the file is in the table too.
SavedInTable == \A i \in Block : fate[i] = "saved" => device[i] = written[i]

\* Nothing is mixed into an inode that read_block finds.
FirstSlotsUnmixed == \A i \in Block : Slot(i) = 0 => fate[i] # "mixed"

Kept == LastWriteIsKept /\ SavedInTable /\ FirstSlotsUnmixed

InodeInv ==
    /\ CacheInv
    /\ image \in [Block -> Data] /\ written \in [Block -> Data]
    /\ fate \in [Block -> Fates]
    /\ Kept
    /\ CleanSlotsMatch
    /\ StopOrder

-------------------------------------------------------------------------------
(* Where the last writes are. *)

LEMMA LastIsLatest ==
    LastWriteIsKept <=> \A i \in Block :
                            /\ Sound(i) => Latest(i) = written[i]
                            /\ fate[i] = "saved" => image[i] = written[i]
  BY DEF LastWriteIsKept, Latest

\* The frame of a dirty inode is the one the map names.
LEMMA DirtyFrame ==
    ASSUME TypeOK, FrameInv, NEW i \in Block
    PROVE  /\ Dirty(i) => /\ frame_map[i] \in Frame
                          /\ frames[frame_map[i]].valid /\ frames[frame_map[i]].dirty
                          /\ frames[frame_map[i]].block_id = i
           /\ \A f \in Frame :
                 NeedsWriteBack(f) /\ frames[f].block_id = i
                    => frame_map[i] = f /\ Dirty(i)
  BY NoFrameAssumption DEF Dirty, NeedsWriteBack, TypeOK, FrameInv, MapExact

LEMMA QuietLatest ==
    ASSUME TypeOK, UNCHANGED << frame_map, device >>,
           \A e \in Frame : Same(frames'[e], frames[e])
    PROVE  /\ \A i \in Block : Latest(i)' = Latest(i)
           /\ \A i \in Block : device'[i] \in {device[i], Latest(i)}
           /\ CleanSlotsMatch => CleanSlotsMatch'
  <1>1. ASSUME NEW i \in Block
        PROVE  Latest(i)' = Latest(i)
    <2>1. frame_map[i] \in Frame \cup {NoFrame}
      BY DEF TypeOK
    <2>2. CASE frame_map[i] = NoFrame
      BY <2>2 DEF Latest, Dirty
    <2>3. CASE frame_map[i] \in Frame
      BY <2>3 DEF Latest, Dirty, NeedsWriteBack, Same
    <2> QED BY <2>1, <2>2, <2>3
  <1>2. CleanSlotsMatch => CleanSlotsMatch'
    BY DEF CleanSlotsMatch, Same
  <1> QED BY <1>1, <1>2

\* A frame that is written back, if it needs to be, and is clean or empty then.
LEMMA PersistLatest ==
    ASSUME TypeOK, FrameInv, NEW f \in Frame, Persist(f), frame_map' = frame_map,
           \A e \in Frame : e # f => frames'[e] = frames[e],
           ~(frames'[f].valid /\ frames'[f].dirty),
           frames'[f].valid => /\ frames[f].valid
                               /\ frames'[f].block_id = frames[f].block_id
                               /\ frames'[f].block = frames[f].block
    PROVE  /\ \A i \in Block : Latest(i)' = Latest(i)
           /\ \A i \in Block : device'[i] \in {device[i], Latest(i)}
           /\ CleanSlotsMatch => CleanSlotsMatch'
  <1> USE NoFrameAssumption
  <1>1. ASSUME NEW i \in Block
        PROVE  Latest(i)' = Latest(i)
    <2>0. frame_map[i] \in Frame \cup {NoFrame}
      BY DEF TypeOK
    <2>1. CASE NeedsWriteBack(f) /\ frames[f].block_id = i
      <3>1. frame_map[i] = f /\ Dirty(i) /\ device'[i] = frames[f].block
        BY <2>1, DirtyFrame, PersistStep
      <3>2. ~Dirty(i)'
        BY <3>1 DEF Dirty, NeedsWriteBack
      <3> QED BY <3>1, <3>2 DEF Latest
    <2>2. CASE ~(NeedsWriteBack(f) /\ frames[f].block_id = i)
      <3>1. device'[i] = device[i]
        BY <2>2, PersistStep
      <3>2. CASE frame_map[i] = f
        <4>1. ~Dirty(i) /\ ~Dirty(i)'
          BY <2>2, <3>2 DEF Dirty, NeedsWriteBack
        <4> QED BY <3>1, <4>1 DEF Latest
      <3>3. CASE frame_map[i] # f
        BY <2>0, <3>1, <3>3 DEF Latest, Dirty, NeedsWriteBack
      <3> QED BY <3>2, <3>3
    <2> QED BY <2>1, <2>2
  <1>2. ASSUME CleanSlotsMatch, NEW e \in Frame,
               frames'[e].valid, ~frames'[e].dirty, Slot(frames'[e].block_id) = 0
        PROVE  frames'[e].block = device'[frames'[e].block_id]
    <2>1. CASE e = f /\ NeedsWriteBack(f)
      BY <1>2, <2>1, PersistStep
    <2>2. CASE e = f /\ ~NeedsWriteBack(f)
      <3>1. frames[e].valid /\ ~frames[e].dirty
        BY <1>2, <2>2 DEF NeedsWriteBack
      <3>2. frames[e].block = device[frames[e].block_id] /\ frames[e].block_id \in Block
        BY <1>2, <2>2, <3>1 DEF CleanSlotsMatch, FrameInv, FramesLoaded
      <3> QED BY <1>2, <2>2, <3>2, PersistStep
    <2>3. CASE e # f
      <3>1. frames'[e] = frames[e]
        BY <2>3
      <3>2. frames[e].block = device[frames[e].block_id] /\ frames[e].block_id \in Block
        BY <1>2, <3>1 DEF CleanSlotsMatch, FrameInv, FramesLoaded
      <3>3. ~NeedsWriteBack(f) \/ frames[e].block_id # frames[f].block_id
        BY <2>3, <3>2 DEF FrameInv, MapExact
      <3> QED BY <3>1, <3>2, <3>3, PersistStep
    <2> QED BY <2>1, <2>2, <2>3
  <1>3. CleanSlotsMatch => CleanSlotsMatch'
    BY <1>2 DEF CleanSlotsMatch, Slot
  <1>4. ASSUME NEW i \in Block
        PROVE  device'[i] \in {device[i], Latest(i)}
    <2>1. CASE NeedsWriteBack(f) /\ frames[f].block_id = i
      <3>1. frame_map[i] = f /\ Dirty(i) /\ device'[i] = frames[f].block
        BY <2>1, DirtyFrame, PersistStep
      <3> QED BY <3>1 DEF Latest
    <2>2. CASE ~(NeedsWriteBack(f) /\ frames[f].block_id = i)
      BY <2>2, PersistStep
    <2> QED BY <2>1, <2>2
  <1> QED BY <1>1, <1>3, <1>4

\* The steps of the pool that write into no frame keep every inode's latest
\* value, whatever a load yields in a slot that is not the first.
LEMMA StepLatest ==
    ASSUME CacheInv, NEW t \in Thread,
           \/ Quiet(t) \/ EvictVictim(t) \/ FlushFrame(t) \/ SweepFrame(t)
           \/ \E v \in Yields(req[t].blk) : LoadAs(t, v)
    PROVE  /\ \A i \in Block : Latest(i)' = Latest(i)
           /\ \A i \in Block : device'[i] \in {device[i], Latest(i)}
           /\ CleanSlotsMatch => CleanSlotsMatch'
  <1>0. TypeOK /\ FrameInv
    BY DEF CacheInv, FrameInv
  <1>1. CASE Quiet(t)
    BY <1>0, <1>1, QuietFrames, QuietLatest
  <1>2. CASE EvictVictim(t)
    BY <1>0, <1>2, EvictStep, PersistLatest
  <1>3. CASE FlushFrame(t) \/ SweepFrame(t)
    <2>1. PICK f \in Frame : f = idx[t]
      BY <1>0 DEF TypeOK
    <2>2. /\ frame_map' = frame_map
          /\ CleanFrame(f) \/ UNCHANGED << frames, device >>
      BY <1>3, <2>1 DEF FlushFrame, SweepFrame
    <2>3. CASE UNCHANGED << frames, device >>
      BY <1>0, <2>2, <2>3, QuietLatest DEF Same
    <2>4. CASE CleanFrame(f)
      <3>1. /\ Persist(f)
            /\ frames' = IF NeedsWriteBack(f) THEN [frames EXCEPT ![f].dirty = FALSE]
                         ELSE frames
            /\ frames \in [Frame -> FrameRecord]
        BY <1>0, <2>4 DEF CleanFrame, TypeOK
      <3>2. /\ \A e \in Frame : e # f => frames'[e] = frames[e]
            /\ ~(frames'[f].valid /\ frames'[f].dirty)
            /\ frames'[f].valid => /\ frames[f].valid
                                   /\ frames'[f].block_id = frames[f].block_id
                                   /\ frames'[f].block = frames[f].block
        BY <3>1 DEF NeedsWriteBack, FrameRecord
      <3> QED BY <1>0, <2>2, <3>1, <3>2, PersistLatest
    <2> QED BY <2>2, <2>3, <2>4
  <1>4. ASSUME NEW v \in Yields(req[t].blk), LoadAs(t, v)
        PROVE  /\ \A i \in Block : Latest(i)' = Latest(i)
               /\ \A i \in Block : device'[i] \in {device[i], Latest(i)}
               /\ CleanSlotsMatch => CleanSlotsMatch'
    <2>1. req[t].blk \in Block
      BY <1>0, <1>4, PendingBlock DEF CacheInv, LoadAs
    <2>2. v \in Data /\ (Slot(req[t].blk) = 0 => v = device[req[t].blk])
      BY <1>0, <2>1 DEF Yields, TypeOK
    <2>3. PICK f \in Frame, b \in Block :
             /\ f = idx[t] /\ b = req[t].blk
             /\ ~frames[f].valid /\ frame_map[b] = NoFrame
             /\ frame_map' = Remap(b, f)
             /\ device' = device
             /\ frames'[f] = Loaded(b, v)
             /\ \A e \in Frame : e # f => frames'[e] = frames[e]
      BY <1>4, <2>2, LoadStep
    <2>4. frames'[f].valid /\ ~frames'[f].dirty /\ frames'[f].block_id = b
          /\ frames'[f].block = v
      BY <2>3 DEF Loaded
    <2>5. ASSUME NEW i \in Block
          PROVE  Latest(i)' = Latest(i)
      <3>0. frame_map[i] \in Frame \cup {NoFrame}
        BY <1>0 DEF TypeOK
      <3>1. CASE i = b
        <4>1. ~Dirty(i) /\ ~Dirty(i)'
          BY <2>3, <2>4, <3>1 DEF Dirty, Remap, NeedsWriteBack
        <4> QED BY <2>3, <4>1 DEF Latest
      <3>2. CASE i # b /\ i = frames[f].block_id
        <4>1. ~Dirty(i)
          BY <1>0, <2>3, <3>2 DEF Dirty, NeedsWriteBack, FrameInv, MapExact
        <4>2. ~Dirty(i)'
          BY <2>3, <3>2 DEF Dirty, Remap
        <4> QED BY <2>3, <4>1, <4>2 DEF Latest
      <3>3. CASE i # b /\ i # frames[f].block_id
        <4>1. frame_map'[i] = frame_map[i] /\ frame_map[i] # f
          BY <1>0, <2>3, <3>3, NoFrameAssumption DEF Remap, FrameInv, MapExact
        <4> QED BY <2>3, <3>0, <4>1 DEF Latest, Dirty, NeedsWriteBack
      <3> QED BY <3>1, <3>2, <3>3
    <2>6. CleanSlotsMatch => CleanSlotsMatch'
      BY <2>2, <2>3, <2>4 DEF CleanSlotsMatch, Slot
    <2> QED BY <2>3, <2>5, <2>6
  <1> QED BY <1>1, <1>2, <1>3, <1>4

\* A step that leaves every inode's latest value, the image and the history.
LEMMA KeptStays ==
    ASSUME Kept, UNCHANGED << image, written, fate >>,
           \A i \in Block : Latest(i)' = Latest(i),
           \A i \in Block : device'[i] \in {device[i], Latest(i)}
    PROVE  Kept'
  <1>1. \A i \in Block : /\ Sound(i) => Latest(i) = written[i]
                         /\ fate[i] = "saved" => image[i] = written[i]
    BY LastIsLatest DEF Kept
  <1>2. ASSUME NEW i \in Block
        PROVE  /\ Sound(i)' => Latest(i)' = written'[i]
               /\ fate'[i] = "saved" => image'[i] = written'[i]
    BY <1>1, <1>2 DEF Sound
  <1>3. LastWriteIsKept'
    BY <1>2 DEF LastWriteIsKept, Latest
  <1>4. SavedInTable'
    BY <1>1 DEF Kept, SavedInTable, Sound
  <1>5. FirstSlotsUnmixed'
    BY DEF Kept, FirstSlotsUnmixed, Slot
  <1> QED BY <1>3, <1>4, <1>5 DEF Kept

\* A write of v leaves v, and only v, in a dirty frame.
LEMMA WriteLatest ==
    ASSUME CacheInv, NEW t \in Thread, NEW v \in Data,
           (Write(t) /\ v = req[t].val) \/ GuardWriteAs(t, v),
           NEW b \in Block, b = req[t].blk
    PROVE  /\ Latest(b)' = v
           /\ \A i \in Block : i # b => Latest(i)' = Latest(i)
           /\ device' = device
           /\ CleanSlotsMatch => CleanSlotsMatch'
  <1>0. TypeOK /\ FrameInv
    BY DEF CacheInv, FrameInv
  <1>1. PICK f \in Frame, g \in FrameRecord :
           /\ f = idx[t]
           /\ Holds(f, b)
           /\ frame_map' = frame_map /\ device' = device
           /\ Same(g, Written(frames[f], v))
           /\ frames' = [frames EXCEPT ![f] = g]
    BY WriteStepsAs
  <1>3. frame_map[b] = f /\ frames[f] \in FrameRecord
    BY <1>0, <1>1 DEF Holds, FrameInv, MapExact, TypeOK
  <1>4. g.valid /\ g.dirty /\ g.block_id = b /\ g.block = v
    BY <1>1, <1>3, WrittenFrame DEF Same, Holds
  <1>5. frames'[f] = g /\ \A e \in Frame : e # f => frames'[e] = frames[e]
    BY <1>0, <1>1 DEF TypeOK
  <1>6. Latest(b)' = v
    <2>1. Dirty(b)'
      BY <1>1, <1>3, <1>4, <1>5, NoFrameAssumption DEF Dirty, NeedsWriteBack
    <2> QED BY <1>1, <1>3, <1>4, <1>5, <2>1 DEF Latest
  <1>7. ASSUME NEW i \in Block, i # b
        PROVE  Latest(i)' = Latest(i)
    <2>1. frame_map[i] \in Frame \cup {NoFrame} /\ frame_map[i] # f
      BY <1>0, <1>1, <1>7, NoFrameAssumption DEF TypeOK, FrameInv, MapExact, Holds
    <2> QED BY <1>1, <1>5, <2>1 DEF Latest, Dirty, NeedsWriteBack
  <1>8. CleanSlotsMatch => CleanSlotsMatch'
    BY <1>1, <1>4, <1>5 DEF CleanSlotsMatch, Slot
  <1> QED BY <1>1, <1>6, <1>7, <1>8

\* A frame of a first slot holds the last write, if that has not been lost.
LEMMA FirstSlotFrame ==
    ASSUME InodeInv, NEW i \in Block, Slot(i) = 0, Sound(i),
           frame_map[i] # NoFrame, Holds(frame_map[i], i)
    PROVE  frames[frame_map[i]].block = written[i]
  <1>1. TypeOK /\ LastWriteIsKept /\ CleanSlotsMatch
    BY DEF InodeInv, Kept, CacheInv
  <1>2. PICK f \in Frame : f = frame_map[i]
    BY <1>1 DEF TypeOK
  <1>3. frames[f].valid /\ frames[f].block_id = i
    BY <1>2 DEF Holds
  <1>4. CASE frames[f].dirty
    BY <1>1, <1>2, <1>3, <1>4 DEF LastWriteIsKept, Dirty, NeedsWriteBack
  <1>5. CASE ~frames[f].dirty
    <2>1. frames[f].block = device[i]
      BY <1>1, <1>3, <1>5 DEF CleanSlotsMatch
    <2>2. device[i] = written[i]
      BY <1>1, <1>2, <1>5 DEF LastWriteIsKept, Dirty, NeedsWriteBack
    <2> QED BY <1>2, <2>1, <2>2
  <1> QED BY <1>4, <1>5

\* After a step that writes v into one inode, what it says of that inode is so
\* if v is what is meant or the last write has become unsound.
LEMMA KeptWrite ==
    ASSUME InodeInv, NEW i \in Block, NEW v \in Data, NEW w \in Data,
           NEW h \in {"unsaved", "mixed", "lost"},
           Latest(i)' = v,
           \A j \in Block : j # i => Latest(j)' = Latest(j),
           device' = device, image' = image,
           written' = [written EXCEPT ![i] = w],
           fate' = [fate EXCEPT ![i] = h],
           h = "unsaved" => v = w,
           Slot(i) = 0 => h # "mixed"
    PROVE  Kept' /\ written' \in [Block -> Data] /\ fate' \in [Block -> Fates]
  <1>0. /\ written \in [Block -> Data] /\ fate \in [Block -> Fates]
        /\ LastWriteIsKept /\ SavedInTable /\ FirstSlotsUnmixed
    BY DEF InodeInv, Kept
  <1>1. ASSUME NEW j \in Block
        PROVE  /\ Sound(j)' => Latest(j)' = written'[j]
               /\ fate'[j] = "saved" => image'[j] = written'[j]
    <2>1. CASE j = i
      BY <1>0, <2>1 DEF Sound
    <2>2. CASE j # i
      <3>1. fate'[j] = fate[j] /\ written'[j] = written[j]
        BY <1>0, <2>2
      <3>2. /\ Sound(j) => Latest(j) = written[j]
            /\ fate[j] = "saved" => image[j] = written[j]
        BY <1>0, LastIsLatest
      <3>3. Sound(j)' => Sound(j)
        BY <3>1 DEF Sound
      <3> QED BY <2>2, <3>1, <3>2, <3>3
    <2> QED BY <2>1, <2>2
  <1>2. LastWriteIsKept'
    BY <1>1 DEF LastWriteIsKept, Latest
  <1>3. SavedInTable'
    BY <1>0 DEF SavedInTable
  <1>4. FirstSlotsUnmixed'
    BY <1>0 DEF FirstSlotsUnmixed, Slot
  <1>5. written' \in [Block -> Data] /\ fate' \in [Block -> Fates]
    BY <1>0 DEF Fates
  <1> QED BY <1>2, <1>3, <1>4, <1>5 DEF Kept

\* write_inode, and a change of what the frame holds.
LEMMA WriteKeeps ==
    ASSUME InodeInv, NEW t \in Thread, WriteInode(t) \/ ChangeInode(t),
           image' = image
    PROVE  /\ CacheInv' /\ Kept' /\ CleanSlotsMatch'
           /\ written' \in [Block -> Data] /\ fate' \in [Block -> Fates]
  <1>0. /\ CacheInv /\ TypeOK /\ FrameInv /\ CleanSlotsMatch
        /\ written \in [Block -> Data] /\ fate \in [Block -> Fates]
        /\ FirstSlotsUnmixed
    BY DEF InodeInv, Kept, CacheInv, FrameInv
  <1>1. CASE WriteInode(t)
    <2>1. Write(t) /\ req[t].val \in Data
      BY <1>0, <1>1, WriteSteps DEF WriteInode
    <2>2. CacheInv'
      BY <1>0, <2>1, CacheNext DEF Step
    <2>3. PICK i \in Block, v \in Data : i = req[t].blk /\ v = req[t].val
      BY <1>0, <2>1, WriteSteps
    <2>4. /\ Latest(i)' = v
          /\ \A j \in Block : j # i => Latest(j)' = Latest(j)
          /\ device' = device /\ CleanSlotsMatch'
      BY <1>0, <2>1, <2>3, WriteLatest
    <2>5. /\ written' = [written EXCEPT ![i] = v]
          /\ fate' = [fate EXCEPT ![i] = "unsaved"]
      BY <1>1, <2>3 DEF WriteInode
    <2> QED BY <2>2, <2>4, <2>5, KeptWrite
  <1>2. CASE ChangeInode(t)
    <2>1. PICK u \in Updates : /\ GuardWriteAs(t, u[frames[idx[t]].block])
                               /\ written' = [written EXCEPT ![req[t].blk] = u[@]]
      BY <1>2 DEF ChangeInode
    <2>2. /\ idx[t] \in Frame /\ Holds(idx[t], req[t].blk)
      BY <1>0, <2>1 DEF GuardWriteAs, CacheInv, TypeOK, GuardedFrameStays
    <2>3. PICK f \in Frame, i \in Block :
             /\ f = idx[t] /\ i = req[t].blk /\ Holds(f, i)
             /\ frame_map[i] = f /\ frames[f].block \in Data
      BY <1>0, <2>2 DEF Holds, FrameInv, FramesLoaded, MapExact
    <2>4. u \in [Data -> Data] /\ u[frames[f].block] \in Data
      BY <2>3, InodePoolAssumption
    <2>5. PICK v \in Data, w \in Data :
             v = u[frames[f].block] /\ w = u[written[i]]
      BY <1>0, <2>4
    <2>6. GuardWriteAs(t, v)
      BY <2>1, <2>3, <2>5
    <2>7. CacheInv'
      BY <1>0, <2>6, CacheNext
    <2>8. /\ Latest(i)' = v
          /\ \A j \in Block : j # i => Latest(j)' = Latest(j)
          /\ device' = device /\ CleanSlotsMatch'
      BY <1>0, <2>3, <2>6, WriteLatest
    <2>9. PICK h \in {"unsaved", "mixed", "lost"} :
             h = IF fate[i] \in {"mixed", "lost"} THEN fate[i]
                 ELSE IF frames[f].block = written[i] THEN "unsaved"
                 ELSE "mixed"
      OBVIOUS
    <2>10. /\ written' = [written EXCEPT ![i] = w]
          /\ fate' = [fate EXCEPT ![i] = h]
      BY <1>2, <2>1, <2>3, <2>5, <2>9 DEF ChangeInode
    <2>11. h = "unsaved" => v = w
      BY <2>5, <2>9
    <2>12. Slot(i) = 0 => h # "mixed"
      <3> SUFFICES ASSUME Slot(i) = 0 PROVE h # "mixed"
        OBVIOUS
      <3>1. fate[i] # "mixed"
        BY <1>0 DEF FirstSlotsUnmixed
      <3>2. CASE fate[i] = "lost"
        BY <2>9, <3>2
      <3>3. CASE fate[i] # "lost"
        <4>1. Sound(i)
          BY <1>0, <3>1, <3>3 DEF Sound, Fates
        <4>2. frames[f].block = written[i]
          BY <2>3, <4>1, FirstSlotFrame, NoFrameAssumption
        <4> QED BY <2>9, <3>1, <3>3, <4>2
      <3> QED BY <3>2, <3>3
    <2> QED BY <2>7, <2>8, <2>10, <2>11, <2>12, KeptWrite
  <1> QED BY <1>1, <1>2

-------------------------------------------------------------------------------
(* How far a stop has come. *)

\* While a stop is under way the only call is the user's flush_all, and its
\* loop leaves no dirty frame behind.
LEMMA StoppingGoesOn ==
    ASSUME CacheInv, Stopping, NEW t \in Thread, Call(t)
    PROVE  Stopping'
  <1>0. /\ TypeOK /\ FrameInv /\ RequestFits(User)
        /\ Thread = {User, Flusher} /\ User # Flusher
    BY InodePoolAssumption DEF CacheInv, FrameInv
  <1>1. t = User /\ SweepFrame(User)
    BY <1>0 DEF Stopping, Call, FindFrame, FindShared, FindExclusive, EvictFrame,
           EvictVictim, EvictSkip, LoadInode, LoadAs, RetryInode, Retry, ReadInode,
        Read, Pin, AccessFrameLock, Access, ReleaseGuard, GuardRelease, UnpinInode,
        UnpinLookup, UnpinFrame, FlushInode, FlushLookup, FlushFrame, FlushAll,
        SweepFrame, WriteInode, Write, ChangeInode, GuardWriteAs, RefuseInode,
        FlushMissing, InFrame
  <1>2. PICK f \in Frame : f = idx[User]
    BY <1>0 DEF TypeOK
  <1>3. /\ pc[User] = "sweep"
        /\ \A e \in Frame : NeedsWriteBack(e) => f <= e
        /\ CleanFrame(f)
    BY <1>1, <1>2 DEF Stopping, SweepFrame
  <1>4. pc'[Flusher] = "idle"
    BY <1>0, <1>1 DEF Stopping, SweepFrame, Goto, TypeOK
  <1>5. ASSUME NEW e \in Frame, NeedsWriteBack(e)'
        PROVE  NeedsWriteBack(e) /\ e # f
    BY <1>0, <1>3, <1>5 DEF CleanFrame, NeedsWriteBack, TypeOK, FrameRecord
  <1>6. CASE LastFrame(f)
    <2>1. pc'[User] = "done"
      BY <1>0, <1>1, <1>2, <1>6 DEF SweepFrame, Goto, TypeOK
    <2>2. \A e \in Frame : ~NeedsWriteBack(e)'
      BY <1>3, <1>5, <1>6, PoolSizeAssumption DEF LastFrame, Frame
    <2> QED BY <1>4, <2>1, <2>2 DEF Stopping
  <1>7. CASE ~LastFrame(f)
    <2>1. pc'[User] = "sweep" /\ idx'[User] = f + 1
      BY <1>0, <1>1, <1>2, <1>3, <1>7 DEF SweepFrame, TypeOK
    <2>2. \A e \in Frame : NeedsWriteBack(e)' => f + 1 <= e
      BY <1>3, <1>5 DEF Frame
    <2> QED BY <1>4, <2>1, <2>2 DEF Stopping
  <1> QED BY <1>6, <1>7

\* stop begins its flush_all at the first frame, once the thread is joined.
LEMMA StopBegins ==
    ASSUME CacheInv, StopInodes
    PROVE  Stopping'
  <1>0. /\ TypeOK /\ RequestFits(User)
        /\ User \in Thread /\ Flusher \in Thread /\ User # Flusher
    BY InodePoolAssumption DEF CacheInv
  <1>1. /\ Begin(User) /\ req'[User].op = "flush_all" /\ pc[Flusher] = "idle"
    BY DEF StopInodes, Joined
  <1>2. PICK r \in Request(Ops) :
            pc' = [pc EXCEPT ![User] = EntryPoint(r.op)] /\ req' = [req EXCEPT ![User] = r]
    BY <1>1 DEF Begin, Goto
  <1>3. r.op = "flush_all"
    BY <1>0, <1>1, <1>2 DEF TypeOK
  <1>4. pc'[User] = "sweep" /\ pc'[Flusher] = "idle"
    BY <1>0, <1>1, <1>2, <1>3 DEF TypeOK, EntryPoint
  <1>5. idx'[User] = 0
    BY <1>0, <1>1 DEF Begin, RequestFits
  <1>6. \A f \in Frame : 0 <= f
    BY PoolSizeAssumption DEF Frame
  <1> QED BY <1>4, <1>5, <1>6 DEF Stopping

-------------------------------------------------------------------------------
(* The invariant. *)

LEMMA InitInode == InodeInit => InodeInv
  <1> SUFFICES ASSUME InodeInit PROVE InodeInv
    OBVIOUS
  <1>1. CacheInv
    BY CacheInit DEF InodeInit
  <1>2. /\ image \in [Block -> Data] /\ written \in [Block -> Data]
        /\ fate \in [Block -> Fates]
    BY InodePoolAssumption DEF InodeInit, Fates
  <1>3. \A f \in Frame : ~frames[f].valid
    BY DEF InodeInit, Init
  <1>4. LastWriteIsKept
    BY DEF InodeInit, Init, LastWriteIsKept, Dirty
  <1>5. SavedInTable /\ FirstSlotsUnmixed
    BY DEF InodeInit, SavedInTable, FirstSlotsUnmixed
  <1>6. CleanSlotsMatch
    BY <1>3 DEF CleanSlotsMatch
  <1>7. StopOrder
    BY DEF InodeInit, StopOrder
  <1> QED BY <1>1, <1>2, <1>4, <1>5, <1>6, <1>7 DEF InodeInv, Kept

\* A new process starts from the image, as a new pool does: what was in the file
\* is there, and after both stops that is all there is.
LEMMA RestartInode ==
    ASSUME InodeInv, Restart
    PROVE  InodeInv'
  <1>0. /\ LastWriteIsKept /\ SavedInTable /\ FirstSlotsUnmixed /\ StopOrder
        /\ image \in [Block -> Data] /\ written \in [Block -> Data]
        /\ fate \in [Block -> Fates]
    BY DEF InodeInv, Kept
  <1>1. image' = image /\ device' = image /\ written' = written
    BY DEF Restart
  <1>2. Init'
    BY <1>0, <1>1 DEF Restart, Init
  <1>3. Init' => CacheInv'
    BY CacheInit, PTL
  <1>4. ASSUME NEW i \in Block
        PROVE  /\ Sound(i)' => image[i] = written[i]
               /\ fate'[i] \in Fates
               /\ fate'[i] = "mixed" => fate[i] = "mixed"
    <2>1. CASE stage = "aborted"
      <3>1. fate'[i] = IF fate[i] = "saved" THEN "saved" ELSE "lost"
        BY <2>1 DEF Restart
      <3>2. Sound(i)' => fate[i] = "saved"
        BY <3>1 DEF Sound
      <3> QED BY <1>0, <3>1, <3>2 DEF LastWriteIsKept, Fates
    <2>2. CASE stage = "stopped" /\ blocks_off
      <3>1. fate' = fate
        BY <2>2 DEF Restart
      <3>2. image = device /\ \A f \in Frame : ~NeedsWriteBack(f)
        BY <1>0, <2>2 DEF StopOrder
      <3>3. ~Dirty(i)
        BY <3>2, DirtyFrame DEF InodeInv, CacheInv, FrameInv, NeedsWriteBack
      <3>4. Sound(i)' => Sound(i)
        BY <3>1 DEF Sound
      <3> QED BY <1>0, <3>1, <3>2, <3>3, <3>4 DEF LastWriteIsKept
    <2> QED BY <2>1, <2>2 DEF Restart
  <1>5. LastWriteIsKept'
    BY <1>1, <1>4 DEF Restart, LastWriteIsKept, Dirty, Sound
  <1>6. SavedInTable' /\ FirstSlotsUnmixed'
    BY <1>0, <1>1, <1>4 DEF SavedInTable, FirstSlotsUnmixed, Slot, Sound
  <1>7. \A f \in Frame : ~frames'[f].valid
    BY DEF Restart
  <1>8. CleanSlotsMatch'
    BY <1>7 DEF CleanSlotsMatch
  <1>9. StopOrder'
    BY DEF Restart, StopOrder
  <1>10. fate' \in [Block -> Fates]
    <2>1. fate' = [i \in Block |-> fate'[i]]
      BY <1>0 DEF Restart
    <2> QED BY <1>4, <2>1
  <1> QED BY <1>0, <1>1, <1>2, <1>3, <1>5, <1>6, <1>8, <1>9, <1>10
          DEF InodeInv, Kept

\* A step that leaves the pool and the history alone.
LEMMA OutsideStep ==
    ASSUME InodeInv, UNCHANGED vars
    PROVE  /\ CacheInv' /\ CleanSlotsMatch'
           /\ UNCHANGED << image, written, fate >> => Kept'
  <1>1. CacheInv'
    BY CacheStutter DEF InodeInv
  <1>2. UNCHANGED << frames, frame_map, device >>
    BY DEF vars
  <1>3. ASSUME UNCHANGED << image, written, fate >> PROVE Kept'
    BY <1>2, <1>3 DEF InodeInv, Kept, LastWriteIsKept, SavedInTable,
                      FirstSlotsUnmixed, Sound, Slot, Dirty, NeedsWriteBack
  <1>4. CleanSlotsMatch'
    BY <1>2 DEF InodeInv, CleanSlotsMatch, Slot
  <1> QED BY <1>1, <1>3, <1>4

\* The block pool writes the inodes of I back.
LEMMA WriteBackKeeps ==
    ASSUME InodeInv, UNCHANGED vars, written' = written, NEW I,
           image' = [i \in Block |-> IF i \in I THEN device[i] ELSE image[i]],
           fate' = Reached(I)
    PROVE  Kept' /\ image' \in [Block -> Data] /\ fate' \in [Block -> Fates]
  <1>0. /\ LastWriteIsKept /\ SavedInTable /\ FirstSlotsUnmixed
        /\ image \in [Block -> Data] /\ device \in [Block -> Data]
        /\ fate \in [Block -> Fates]
    BY DEF InodeInv, Kept, CacheInv, TypeOK
  <1>1. UNCHANGED << frames, frame_map, device >>
    BY DEF vars
  <1>2. ASSUME NEW i \in Block
        PROVE  /\ fate'[i] = fate[i] \/ (fate[i] = "unsaved" /\ fate'[i] = "saved")
               /\ fate'[i] = "saved" => /\ device[i] = written[i]
                                        /\ image'[i] = written[i]
    BY <1>0 DEF Reached, LastWriteIsKept, SavedInTable
  <1>3. LastWriteIsKept'
    BY <1>0, <1>1, <1>2 DEF LastWriteIsKept, Sound, Dirty, NeedsWriteBack
  <1>4. SavedInTable' /\ FirstSlotsUnmixed'
    BY <1>0, <1>1, <1>2 DEF SavedInTable, FirstSlotsUnmixed, Slot
  <1>5. image' \in [Block -> Data] /\ fate' \in [Block -> Fates]
    BY <1>0 DEF Reached, Fates
  <1> QED BY <1>3, <1>4, <1>5 DEF Kept

\* What one step of a call does to the frames.
LEMMA CallStep ==
    ASSUME InodeInv, NEW t \in Thread, BeginCall(t) \/ Call(t) \/ EndCall(t)
                                            \/ StopInodes \/ InodesStopped
    PROVE  /\ CacheInv' /\ Kept' /\ CleanSlotsMatch'
           /\ image' = image /\ blocks_off' = blocks_off
           /\ written' \in [Block -> Data] /\ fate' \in [Block -> Fates]
  <1>0. /\ CacheInv /\ Kept /\ CleanSlotsMatch
        /\ written \in [Block -> Data] /\ fate \in [Block -> Fates] /\ TypeOK
        /\ User \in Thread
    BY InodePoolAssumption DEF InodeInv, CacheInv
  <1>1. ASSUME NEW u \in Thread, UNCHANGED << image, written, fate >>,
               \/ Quiet(u) \/ EvictVictim(u) \/ FlushFrame(u) \/ SweepFrame(u)
               \/ \E v \in Yields(req[u].blk) : LoadAs(u, v)
        PROVE  CacheInv' /\ Kept' /\ CleanSlotsMatch'
    <2>1. (\E v \in Yields(req[u].blk) : LoadAs(u, v)) => \E v \in Data : LoadAs(u, v)
      BY <1>0, PendingBlock DEF CacheInv, TypeOK, Yields, LoadAs
    <2>2. CacheInv'
      BY <1>0, <1>1, <2>1, CacheNext DEF Quiet, Step
    <2>3. /\ \A i \in Block : Latest(i)' = Latest(i)
          /\ \A i \in Block : device'[i] \in {device[i], Latest(i)}
          /\ CleanSlotsMatch'
      BY <1>0, <1>1, StepLatest
    <2>4. Kept'
      BY <1>0, <1>1, <2>3, KeptStays
    <2> QED BY <2>2, <2>3, <2>4
  <1>2. CASE \/ BeginCall(t) \/ EndCall(t) \/ StopInodes \/ InodesStopped
    <2>1. /\ UNCHANGED << image, written, fate >> /\ blocks_off' = blocks_off
          /\ Quiet(t) \/ Quiet(User)
      BY <1>2 DEF BeginCall, EndCall, StopInodes, InodesStopped, below, history, Quiet
    <2> QED BY <1>0, <1>1, <2>1
  <1>3. CASE Call(t)
    <2>1. CASE /\ \/ FindFrame(t) \/ EvictFrame(t) \/ LoadInode(t) \/ RetryInode(t)
                  \/ ReadInode(t) \/ AccessFrameLock(t) \/ ReleaseGuard(t)
                  \/ UnpinInode(t) \/ FlushInode(t) \/ FlushAll(t)
               /\ UNCHANGED below
      <3>1. UNCHANGED << image, written, fate >> /\ blocks_off' = blocks_off
        BY <2>1 DEF below
      <3>2. \/ Quiet(t) \/ EvictVictim(t) \/ FlushFrame(t) \/ SweepFrame(t)
            \/ \E v \in Yields(req[t].blk) : LoadAs(t, v)
        BY <2>1 DEF FindFrame, EvictFrame, LoadInode, RetryInode, ReadInode,
           AccessFrameLock, ReleaseGuard, UnpinInode, FlushInode, FlushAll, Quiet
      <3> QED BY <1>0, <1>1, <3>1, <3>2
    <2>2. CASE /\ WriteInode(t) \/ ChangeInode(t)
               /\ UNCHANGED << image, stage, blocks_off >>
      BY <2>2, WriteKeeps
    <2>3. CASE RefuseInode(t) \/ FlushMissing(t)
      <3>1. UNCHANGED << vars, image, blocks_off, written, fate >>
        BY <2>3 DEF RefuseInode, FlushMissing, Abort, history
      <3> QED BY <1>0, <3>1, OutsideStep
    <2> QED BY <1>3, <2>1, <2>2, <2>3 DEF Call
  <1> QED BY <1>2, <1>3

LEMMA NextInode == InodeInv /\ [InodeNext]_allVars => InodeInv'
  <1> SUFFICES ASSUME InodeInv, [InodeNext]_allVars PROVE InodeInv'
    OBVIOUS
  <1>0. /\ CacheInv /\ StopOrder /\ TypeOK
        /\ User \in Thread /\ Flusher \in Thread
        /\ image \in [Block -> Data] /\ written \in [Block -> Data]
        /\ fate \in [Block -> Fates]
    BY InodePoolAssumption DEF InodeInv, CacheInv
  <1>1. CASE UNCHANGED allVars
    <2>1. UNCHANGED vars /\ UNCHANGED below
      BY <1>1 DEF allVars, below
    <2>2. StopOrder'
      BY <1>0, <2>1 DEF vars, below, StopOrder, Stopping, NeedsWriteBack
    <2> QED BY <1>0, <2>1, <2>2, OutsideStep DEF InodeInv, below
  <1>2. ASSUME NEW t \in Thread, BeginCall(t) \/ Call(t) \/ EndCall(t)
        PROVE  InodeInv'
    <2>1. /\ CacheInv' /\ Kept' /\ CleanSlotsMatch'
          /\ image' = image /\ blocks_off' = blocks_off
          /\ written' \in [Block -> Data] /\ fate' \in [Block -> Fates]
      BY <1>2, CallStep
    <2>2. stage \in {"running", "stopping"} /\ ~blocks_off
      BY <1>0, <1>2 DEF BeginCall, Call, EndCall, StopOrder
    <2>3. stage' = stage \/ stage' = "aborted"
      BY <1>2 DEF BeginCall, Call, EndCall, below, RefuseInode, FlushMissing, Abort
    <2>4. stage = "stopping" => Call(t)
      BY <1>2 DEF BeginCall, EndCall
    <2>5. stage' = "stopping" => Stopping'
      BY <1>0, <2>2, <2>3, <2>4, StoppingGoesOn DEF StopOrder
    <2>6. StopOrder'
      BY <2>1, <2>2, <2>3, <2>5 DEF StopOrder
    <2> QED BY <1>0, <2>1, <2>6 DEF InodeInv
  <1>3. CASE StopInodes
    <2>1. /\ CacheInv' /\ Kept' /\ CleanSlotsMatch'
          /\ image' = image /\ blocks_off' = blocks_off
          /\ written' \in [Block -> Data] /\ fate' \in [Block -> Fates]
      BY <1>0, <1>3, CallStep
    <2>2. stage' = "stopping" /\ ~blocks_off
      BY <1>0, <1>3 DEF StopInodes, StopOrder
    <2>3. StopOrder'
      BY <1>0, <1>3, <2>1, <2>2, StopBegins DEF StopOrder
    <2> QED BY <1>0, <2>1, <2>3 DEF InodeInv
  <1>4. CASE InodesStopped
    <2>1. /\ CacheInv' /\ Kept' /\ CleanSlotsMatch'
          /\ image' = image /\ blocks_off' = blocks_off
          /\ written' \in [Block -> Data] /\ fate' \in [Block -> Fates]
      BY <1>0, <1>4, CallStep
    <2>2. stage' = "stopped" /\ stage = "stopping" /\ ~blocks_off
      BY <1>0, <1>4 DEF InodesStopped, StopOrder
    <2>3. frames' = frames /\ pc[User] = "done"
      BY <1>4 DEF InodesStopped, Return, cache
    <2>4. \A f \in Frame : ~NeedsWriteBack(f)'
      BY <1>0, <2>2, <2>3 DEF StopOrder, Stopping, NeedsWriteBack
    <2>5. StopOrder'
      BY <2>1, <2>2, <2>4 DEF StopOrder
    <2> QED BY <1>0, <2>1, <2>5 DEF InodeInv
  <1>5. ASSUME NEW i \in Block, BlockWriteBack(TableBlock(i))
        PROVE  InodeInv'
    <2>1. /\ UNCHANGED vars /\ UNCHANGED << stage, blocks_off, written >>
          /\ ~blocks_off
      BY <1>0, <1>5 DEF BlockWriteBack, StopOrder
    <2>2. StopOrder'
      BY <1>0, <2>1 DEF vars, StopOrder, Stopping, NeedsWriteBack
    <2>3. PICK I : I = {j \in Block : TableBlock(j) = TableBlock(i)}
      OBVIOUS
    <2>4. /\ image' = [j \in Block |-> IF j \in I THEN device[j] ELSE image[j]]
          /\ fate' = Reached(I)
      BY <1>5, <2>3 DEF BlockWriteBack
    <2>5. Kept' /\ image' \in [Block -> Data] /\ fate' \in [Block -> Fates]
      BY <2>1, <2>4, WriteBackKeeps
    <2> QED BY <1>0, <2>1, <2>2, <2>5, OutsideStep DEF InodeInv
  <1>6. CASE StopBlocks
    <2>1. /\ UNCHANGED vars /\ UNCHANGED << stage, written >>
          /\ stage = "stopped" /\ image' = device /\ fate' = Reached(Block)
      BY <1>6 DEF StopBlocks, BlocksMayStop
    <2>2. StopOrder'
      BY <1>0, <2>1 DEF vars, StopOrder, NeedsWriteBack
    <2>3. image' = [i \in Block |-> IF i \in Block THEN device[i] ELSE image[i]]
      BY <1>0, <2>1 DEF TypeOK
    <2>4. Kept' /\ image' \in [Block -> Data] /\ fate' \in [Block -> Fates]
      BY <2>1, <2>3, WriteBackKeeps
    <2> QED BY <1>0, <2>1, <2>2, <2>4, OutsideStep DEF InodeInv
  <1>7. CASE Restart
    BY <1>7, RestartInode
  <1> QED BY <1>1, <1>2, <1>3, <1>4, <1>5, <1>6, <1>7 DEF InodeNext

\* The invariant of the inode pool holds in every reachable state.
THEOREM InodeInvariance == InodeSpec => []InodeInv
  <1>1. InodeInit => InodeInv
    BY InitInode
  <1>2. InodeInv /\ [InodeNext]_allVars => InodeInv'
    BY NextInode
  <1> QED BY <1>1, <1>2, PTL DEF InodeSpec

\* The last write of an inode stays in a dirty frame or in the table, and once
\* in the file there: no load of garbage, eviction, flush or abort takes it away
\* unless a guard's holder changes garbage or the abort comes before the file.
THEOREM LastWritesAreKept == InodeSpec => []LastWriteIsKept
  <1>1. InodeInv => LastWriteIsKept
    BY DEF InodeInv, Kept
  <1> QED BY <1>1, InodeInvariance, PTL

\* An inode in the first slot of its block, once cached, reads as last written
\* unless an abort has taken that, and no change through a guard mixes anything
\* else into it.
THEOREM FirstSlotsAreRead == InodeSpec => []FirstSlotsReadBack
  <1>1. InodeInv => FirstSlotsReadBack
    BY FirstSlotFrame
       DEF FirstSlotsReadBack, InodeInv, Kept, FirstSlotsUnmixed
  <1> QED BY <1>1, InodeInvariance, PTL

-------------------------------------------------------------------------------
\* A clean stop.  After the block pool's flush nothing that could be saved is not.
AllSaved == stage = "stopped" /\ blocks_off
                => \A i \in Block : fate[i] # "unsaved"

LEMMA NextSaved == InodeInv /\ AllSaved /\ [InodeNext]_allVars => AllSaved'
  <1> SUFFICES ASSUME InodeInv, AllSaved, [InodeNext]_allVars PROVE AllSaved'
    OBVIOUS
  <1>0. StopOrder /\ LastWriteIsKept /\ TypeOK /\ FrameInv
    BY DEF InodeInv, Kept, CacheInv, FrameInv
  <1>1. CASE UNCHANGED allVars
    BY <1>1 DEF allVars, AllSaved
  <1>2. CASE StopBlocks
    <2>1. stage = "stopped" /\ fate' = Reached(Block)
      BY <1>2 DEF StopBlocks, BlocksMayStop
    <2>2. ASSUME NEW i \in Block, fate'[i] = "unsaved" PROVE FALSE
      <3>1. fate[i] = "unsaved" /\ device[i] # written[i]
        BY <2>1, <2>2 DEF Reached
      <3>2. ~Dirty(i)
        BY <1>0, <2>1, DirtyFrame DEF StopOrder, NeedsWriteBack
      <3> QED BY <1>0, <3>1, <3>2 DEF LastWriteIsKept, Sound
    <2> QED BY <2>2 DEF AllSaved
  <1>3. CASE Restart
    BY <1>3 DEF Restart, AllSaved
  <1>4. CASE \E i \in Block : BlockWriteBack(TableBlock(i))
    BY <1>4 DEF BlockWriteBack, AllSaved
  <1>5. CASE \/ \E t \in Thread : BeginCall(t) \/ Call(t) \/ EndCall(t)
             \/ StopInodes \/ InodesStopped
    <2>1. blocks_off' = blocks_off /\ stage \in {"running", "stopping"}
      BY <1>5, CallStep
         DEF BeginCall, Call, EndCall, StopInodes, InodesStopped
    <2> QED BY <1>0, <2>1 DEF AllSaved, StopOrder
  <1> QED BY <1>1, <1>2, <1>3, <1>4, <1>5 DEF InodeNext

\* Once both pools have been stopped, in the order of the callers, the file has
\* the last write of every inode that no misread or earlier abort has spoiled.
THEOREM StopIsDurable == InodeSpec => []StoppedIsDurable
  <1>1. InodeInit => AllSaved
    BY DEF InodeInit, AllSaved
  <1>2. InodeInv /\ AllSaved => StoppedIsDurable
    BY DEF InodeInv, Kept, LastWriteIsKept, AllSaved, StoppedIsDurable, Sound
  <1> QED BY <1>1, <1>2, NextSaved, InodeInvariance, PTL DEF InodeSpec
=============================================================================
