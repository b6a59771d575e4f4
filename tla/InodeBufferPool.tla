--------------------------- MODULE InodeBufferPool ---------------------------
(***************************************************************************)
(* LCInodeBufferPool (include/lc_inode_buffer.h) over the block pool.  Its *)
(* frames, map, locks and clock sweep are those of the block pool, so it   *)
(* extends that module: a "block" is an inode, device the inode table as   *)
(* the block pool holds it, and image what of the table is in the file.    *)
(* Every inode has a slot of its own in the table (InodeSlots in           *)
(* InodeManager_proofs), so the table is a function of inodes.             *)
(*                                                                         *)
(* What differs from the block pool is what happens below a frame: a read  *)
(* that finds the right bytes only in the first slot of a block, two pools *)
(* to stop, one after the other, and a new process that starts from the    *)
(* image.  A guard's holder changes the inode it finds in the frame, which *)
(* need not be the one that was written.  One thread, User, calls the pool *)
(* and stops it; Flusher is the pool's background thread.                  *)
(***************************************************************************)
EXTENDS BlockBufferPool

CONSTANTS
    User, Flusher,   \* the two threads
    InodesPerBlock,  \* LC_INODES_PRE_BLOCK, 16
    Cleared,         \* an inode as inode_clear leaves it
    Updates          \* what the holders of a guard do to the inode they find

ASSUME InodePoolAssumption ==
    /\ Thread = {User, Flusher} /\ User # Flusher
    /\ InodesPerBlock \in Nat \ {0} /\ Block \subseteq Nat
    /\ Cleared \in Data
    /\ Updates \subseteq [Data -> Data]

VARIABLES
    image,       \* the inode table in the image file
    stage,       \* of the inode pool: running, stopping, stopped; or aborted
    blocks_off,  \* the block pool has been stopped
    written,     \* each inode as its writers meant to leave it (history)
    fate         \* of the last write of each inode (history)

allVars == << vars, image, stage, blocks_off, written, fate >>
below == << image, stage, blocks_off, written, fate >>
history == << written, fate >>

\* The last write is in the file, or not yet; it changed an inode that was not
\* the one last written; or the process ended before it was in the file.
Fates == {"saved", "unsaved", "mixed", "lost"}

Slot(i) == i % InodesPerBlock
TableBlock(i) == i \div InodesPerBlock

\* A new image (lc_initialize_inodes), of which nothing is cached.
InodeInit == /\ Init
             /\ device = [i \in Block |-> Cleared]
             /\ image = device
             /\ stage = "running"
             /\ blocks_off = FALSE
             /\ written = device
             /\ fate = [i \in Block |-> "saved"]

-----------------------------------------------------------------------------
Abort == stage' = "aborted" /\ UNCHANGED << vars, image, blocks_off, history >>

FindFrame(t) == FindShared(t) \/ FindExclusive(t)
EvictFrame(t) == EvictVictim(t) \/ EvictSkip(t)

\* What LCBlockBufferPool::read_block copies for an inode: it adds the byte
\* offset to a pointer to blocks, so only offset 0 leads to the inode.  (Slip:
\* no offset does.)
YieldsNothing(i) == Data
Yields(i) == IF Slot(i) = 0 THEN {device[i]} ELSE Data

\* Its assertion size < DEFAULT_BLOCK_SIZE - offset, false for the last slot.
Fits(i) == Slot(i) + 1 < InodesPerBlock

LoadInode(t) == /\ pc[t] = "load" /\ Fits(req[t].blk)
                /\ \E v \in Yields(req[t].blk) : LoadAs(t, v)

\* The assertion fails, or what lies at the wrong address is nobody's.
RefuseInode(t) == /\ pc[t] = "load" /\ FrameFree(idx[t])
                  /\ ~Fits(req[t].blk) \/ Slot(req[t].blk) # 0
                  /\ Abort

RetryInode(t) == Retry(t)
ReadInode(t) == Read(t) \/ Pin(t)
AccessFrameLock(t) == Access(t)
ReleaseGuard(t) == GuardRelease(t)
UnpinInode(t) == UnpinLookup(t) \/ UnpinFrame(t)

\* write_inode replaces the inode, whatever became of the one before.
WriteInode(t) == /\ Write(t)
                 /\ written' = [written EXCEPT ![req[t].blk] = req[t].val]
                 /\ fate' = [fate EXCEPT ![req[t].blk] = "unsaved"]

\* A change through a guard, of whatever the frame holds, and mark_dirty.
ChangeInode(t) ==
    LET i == req[t].blk
        found == frames[idx[t]].block IN
    /\ \E u \in Updates : /\ GuardWriteAs(t, u[found])
                          /\ written' = [written EXCEPT ![i] = u[@]]
    /\ fate' = [fate EXCEPT ![i] = IF @ \in {"mixed", "lost"} THEN @
                                   ELSE IF found = written[i] THEN "unsaved"
                                   ELSE "mixed"]

\* flush_inode: the inode must still be cached.
FlushInode(t) ==
    \/ pc[t] = "flush" /\ frame_map[req[t].blk] # NoFrame /\ FlushLookup(t)
    \/ FlushFrame(t)
FlushMissing(t) == /\ pc[t] = "flush" /\ map_writer = NoThread
                   /\ frame_map[req[t].blk] = NoFrame
                   /\ Abort

FlushAll(t) == SweepFrame(t)

\* One step of a call; the steps that write or abort change more than the pool.
Call(t) ==
    /\ stage \in {"running", "stopping"}
    /\ \/ /\ \/ FindFrame(t) \/ EvictFrame(t) \/ LoadInode(t) \/ RetryInode(t)
             \/ ReadInode(t) \/ AccessFrameLock(t) \/ ReleaseGuard(t)
             \/ UnpinInode(t) \/ FlushInode(t) \/ FlushAll(t)
          /\ UNCHANGED below
       \/ /\ WriteInode(t) \/ ChangeInode(t)
          /\ UNCHANGED << image, stage, blocks_off >>
       \/ RefuseInode(t)
       \/ FlushMissing(t)

\* The user calls anything; background_flush_loop only flush_all.
BeginCall(t) == /\ stage = "running"
                /\ Begin(t)
                /\ t = Flusher => req'[t].op = "flush_all"
                /\ UNCHANGED below

EndCall(t) == stage = "running" /\ Return(t) /\ UNCHANGED below

-----------------------------------------------------------------------------
\* stop: the background thread is joined, then everything is flushed.
Joined == pc[Flusher] = "idle"

StopInodes == /\ stage = "running" /\ Joined
              /\ Begin(User) /\ req'[User].op = "flush_all"
              /\ stage' = "stopping"
              /\ UNCHANGED << image, blocks_off, history >>

InodesStopped == /\ stage = "stopping" /\ Return(User)
                 /\ stage' = "stopped"
                 /\ UNCHANGED << image, blocks_off, history >>

\* The inodes of I as the table has them are in the file.
Reached(I) == [i \in Block |->
                 IF i \in I /\ fate[i] = "unsaved" /\ device[i] = written[i]
                 THEN "saved" ELSE fate[i]]

\* The block pool writes a block of the table back: its own background thread
\* or an eviction, whenever it is used.
BlockWriteBack(b) ==
    /\ stage # "aborted" /\ ~(stage = "stopped" /\ blocks_off)
    /\ image' = [i \in Block |-> IF TableBlock(i) = b THEN device[i]
                                                     ELSE image[i]]
    /\ fate' = Reached({i \in Block : TableBlock(i) = b})
    /\ UNCHANGED << vars, stage, blocks_off, written >>

\* The order in which the callers stop the pools.  (Slip: the other one.)
BlocksFirst == stage = "running" /\ pc[User] = "idle"
BlocksMayStop == stage = "stopped"

\* LCBlockBufferPool::stop flushes every block.
StopBlocks == /\ BlocksMayStop /\ ~blocks_off
              /\ blocks_off' = TRUE
              /\ image' = device
              /\ fate' = Reached(Block)
              /\ UNCHANGED << vars, stage, written >>

\* A new process on the same image: after both stops, or after an abort, which
\* takes with it what is not in the image.
Restart == /\ stage = "aborted" \/ (stage = "stopped" /\ blocks_off)
           /\ fate' = IF stage = "aborted"
                      THEN [i \in Block |-> IF fate[i] = "saved" THEN "saved"
                                                                 ELSE "lost"]
                      ELSE fate
           /\ frames' = [f \in Frame |->
                            [valid |-> FALSE, dirty |-> FALSE, ref_count |-> 0,
                             usage_count |-> 0, block_id |-> NoBlock,
                             block |-> NoData]]
           /\ frame_map' = [i \in Block |-> NoFrame]
           /\ clock_hand' = 0
           /\ device' = image
           /\ map_writer' = NoThread /\ map_readers' = {}
           /\ frame_locks' = [f \in Frame |-> NoThread]
           /\ pc' = [t \in Thread |-> "idle"]
           /\ req' = [t \in Thread |-> NoReq]
           /\ idx' = [t \in Thread |-> 0]
           /\ pins' = [t \in Thread |-> [i \in Block |-> 0]]
           /\ owed' = [t \in Thread |-> {}]
           /\ stage' = "running"
           /\ blocks_off' = FALSE
           /\ UNCHANGED << image, written >>

InodeNext ==
    \/ \E t \in Thread : BeginCall(t) \/ Call(t) \/ EndCall(t)
    \/ StopInodes
    \/ InodesStopped
    \/ \E i \in Block : BlockWriteBack(TableBlock(i))
    \/ StopBlocks
    \/ Restart

InodeSpec == InodeInit /\ [][InodeNext]_allVars

-----------------------------------------------------------------------------
Dirty(i) == /\ frame_map[i] # NoFrame
            /\ NeedsWriteBack(frame_map[i]) /\ frames[frame_map[i]].block_id = i

\* The last write of the inode is to be found.
Sound(i) == fate[i] \in {"saved", "unsaved"}

\* The last write of an inode is in a dirty frame or else in the table, and once
\* it has been in the file it is there still, after an abort too: what read_block
\* yields for the other slots of a block is written back over it only if a guard's
\* holder has changed it (evict_frame, find_frame, flush_inode, mark_dirty).
LastWriteIsKept ==
    \A i \in Block :
        /\ Sound(i) => IF Dirty(i) THEN frames[frame_map[i]].block = written[i]
                                   ELSE device[i] = written[i]
        /\ fate[i] = "saved" => image[i] = written[i]

\* The inodes that read_block can find, those in the first slot of their block,
\* read as last written, through evictions and restarts, unless an abort has
\* taken the last write; so their changes through guards mix in nothing else.
FirstSlotsReadBack ==
    \A i \in Block : Slot(i) = 0 =>
        /\ fate[i] # "mixed"
        /\ Sound(i) /\ frame_map[i] # NoFrame /\ Holds(frame_map[i], i)
              => frames[frame_map[i]].block = written[i]

\* When both pools have been stopped the file has the last write of every inode
\* that had it until then: the inode pool's last flush_all comes after its
\* background thread and before the block pool's.
StoppedIsDurable ==
    stage = "stopped" /\ blocks_off
        => \A i \in Block : Sound(i) => fate[i] = "saved" /\ image[i] = written[i]
=============================================================================
