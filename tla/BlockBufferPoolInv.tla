--------------------------- MODULE BlockBufferPoolInv -------------------------
(***************************************************************************)
(* The inductive invariants of BlockBufferPool.  CacheInv is what must be  *)
(* added to TypeOK, MapExact and VictimStaysInvalid for every step to      *)
(* preserve them, the inode pool's included; IInv adds what is behind      *)
(* CleanFramesMatchDevice and FlushDurable, which that pool does not keep; *)
(* PinInv adds what keeps pinned blocks in and ref_count exact.            *)
(***************************************************************************)
EXTENDS BlockBufferPool

\* A lock is held exactly by the thread that stands in its section.
LocksHeld ==
    /\ \A t \in Thread : map_writer = t <=> pc[t] \in {"evict", "load"}
    /\ \A t \in Thread : t \in map_readers <=> pc[t] = "unpin_frame"
    /\ map_writer # NoThread => map_readers = {}
    /\ \A f \in Frame, t \in Thread :
         frame_locks[f] = t <=> pc[t] = "guard" /\ idx[t] = f

\* A thread stands only where its request leads it.
RequestFits(t) ==
    /\ pc[t] = "idle" => idx[t] = 0
    /\ pc[t] \in {"find", "find_locked", "evict", "load", "frame"}
         => req[t] \in Request(ReadOps \cup WriteOps)
    /\ pc[t] = "guard" => req[t] \in Request({"access"})
    /\ pc[t] \in {"unpin", "unpin_frame"}
         => req[t] \in Request({"unpin"}) /\ pins[t][req[t].blk] > 0
    /\ pc[t] \in {"flush", "flush_frame"} => req[t] \in Request({"flush_block"})
    /\ pc[t] = "sweep" => req[t] \in Request({"flush_all"})

\* A valid frame holds a block and a value of it.
FramesLoaded ==
    \A f \in Frame :
        frames[f].valid => frames[f].block_id \in Block /\ frames[f].block \in Data

\* The miss that find_frame saw under the exclusive lock still stands when the
\* victim is found.
MissStands ==
    \A t \in Thread :
        pc[t] \in {"evict", "load"} => frame_map[req[t].blk] = NoFrame

\* The frame under a guard stays the guard's.
GuardedFrameStays ==
    \A t \in Thread : pc[t] = "guard" => Holds(idx[t], req[t].blk)

\* What a flush still owes is dirty in a frame it has yet to come to.
OwedIsAhead(t, b) ==
    /\ frame_map[b] # NoFrame
    /\ NeedsWriteBack(frame_map[b])
    /\ \/ pc[t] = "flush" /\ req[t].blk = b
       \/ pc[t] = "flush_frame" /\ req[t].blk = b /\ idx[t] = frame_map[b]
       \/ pc[t] = "sweep" /\ idx[t] <= frame_map[b]

\* What holds of the frames, the map, the locks and the threads whatever value
\* a read of the device yields.
CacheInv ==
    /\ TypeOK
    /\ LocksHeld
    /\ \A t \in Thread : RequestFits(t)
    /\ FramesLoaded
    /\ MapExact
    /\ MissStands
    /\ VictimStaysInvalid
    /\ GuardedFrameStays

IInv ==
    /\ CacheInv
    /\ CleanFramesMatchDevice
    /\ \A t \in Thread : \A b \in owed[t] : OwedIsAhead(t, b)

\* What must be added for the counts of the pins.  An unpin has the frame it
\* looked up under its eyes: the map cannot change while it is in its section.
UnpinAtFrame ==
    \A t \in Thread : pc[t] = "unpin_frame" => idx[t] = frame_map[req[t].blk]

DemandBounded ==
    /\ IsFiniteSet(Pinned(Block)) /\ IsFiniteSet(Callers)
    /\ Demand <= MaxDemand

PinInv == DemandBounded /\ UnpinAtFrame /\ PinnedIsResident /\ RefCountExact
===============================================================================
