---------------------------- MODULE BlockManager -----------------------------
(***************************************************************************)
(* LCBlockManager (include/lc_block_manager.h): the block bitmap, and      *)
(* reads and writes of allocated blocks.  Its storage is the block buffer  *)
(* pool, used as BlockStore promises: what happens under one guard of      *)
(* access_frame_lock, or in one read_block or write_block, is one step.    *)
(* Everything else interleaves; free_block and the checks of read_block    *)
(* and write_block take two such steps.                                    *)
(*                                                                         *)
(* Callers use a block only between the alloc_block that gave it to them   *)
(* and their free_block.                                                   *)
(***************************************************************************)
EXTENDS Integers, FiniteSets

CONSTANTS
    Thread,        \* the threads that call the manager
    TotalBlocks,   \* super_block_->total_blocks
    BitsPerBlock,  \* LC_BITS_PER_BLOCK, 32768
    DataStart,     \* super_block_->data_start
    Value,         \* what callers write into a block
    Zero,          \* a cleared block
    MaxHeld,       \* bound: blocks a thread holds at a time
    NoBlock        \* the block of a thread that is in no call

Block == 0 .. TotalBlocks - 1
DataBlock == DataStart .. TotalBlocks - 1

(* lc_initialize_super_block: the block bitmap starts at block 1, the inode *)
(* bitmap follows it.  The last block of the bitmap has bits to spare.     *)
BitmapStart == 1
BitmapBlocks == (TotalBlocks + BitsPerBlock - 1) \div BitsPerBlock
InodeBitmapStart == BitmapStart + BitmapBlocks
Bit == 0 .. BitmapBlocks * BitsPerBlock - 1

ASSUME GeometryAssumption ==
    /\ TotalBlocks \in Nat /\ BitsPerBlock \in Nat \ {0}
    /\ DataStart \in Nat /\ InodeBitmapStart < DataStart
    /\ DataStart < TotalBlocks
ASSUME ValueAssumption == Zero \notin Value
ASSUME MaxHeldAssumption == MaxHeld \in Nat
ASSUME NoBlockAssumption == NoBlock \notin Block

(* lc_cal_bitmap_index: the block of the bitmap that holds the bit of b.   *)
BitmapBlockOf(b) == BitmapStart + b \div BitsPerBlock

VARIABLES
    allocated,  \* the bits that are set in the bitmap
    content,    \* the content of each block
    pc,         \* where each thread stands
    blk,        \* the block its call is about
    scan,       \* bitmap_block_index of its alloc_block
    held,       \* the blocks it holds
    written     \* what the holder of a block last wrote into it (history)

vars == << allocated, content, pc, blk, scan, held, written >>

PC == {"idle", "scan", "check read", "read", "check write", "write",
       "clear", "unset", "aborted"}

(* lc_initialize_block_bitmap sets the bits below data_start, and no other; *)
(* lc_clear_image clears every block.                                      *)
Init == /\ allocated = 0 .. DataStart - 1
        /\ content = [b \in Block |-> Zero]
        /\ pc = [t \in Thread |-> "idle"]
        /\ blk = [t \in Thread |-> NoBlock]
        /\ scan = [t \in Thread |-> BitmapStart]
        /\ held = [t \in Thread |-> {}]
        /\ written = [b \in Block |-> Zero]

-----------------------------------------------------------------------------
At(t, place) == pc[t] = place
Goto(t, place) == pc' = [pc EXCEPT ![t] = place]

Return(t) == Goto(t, "idle") /\ blk' = [blk EXCEPT ![t] = NoBlock]

(* LC_ASSERT(cond) ends the program when cond is false.                    *)
LcAssert(t, cond, place) == Goto(t, IF cond THEN place ELSE "aborted")

-----------------------------------------------------------------------------
(* The bitmap block with the bit of data_start.                            *)
FirstScanned == BitmapBlockOf(DataStart)

(* block_bitmap_size_, the number of blocks of the bitmap, is the bound of *)
(* the loop over their ids.  (Slip: the true end of the bitmap.)           *)
ScanToEnd(k) == k < InodeBitmapStart
Scanned(k) == k < BitmapBlocks

(* The data bits of block k of the bitmap that are not set.                *)
FreeBits(k) == { x \in Bit \ allocated : x >= DataStart /\ BitmapBlockOf(x) = k }

BeginAlloc(t) == /\ At(t, "idle")
                 /\ Cardinality(held[t]) < MaxHeld
                 /\ Goto(t, "scan")
                 /\ scan' = [scan EXCEPT ![t] = FirstScanned]
                 /\ UNCHANGED << allocated, content, blk, held, written >>

(* A bitmap block with a free bit, under its guard: the caller gets the    *)
(* lowest one, if the assertion on its number lets it.                     *)
AllocBit(t) ==
    /\ At(t, "scan")
    /\ Scanned(scan[t])
    /\ \E b \in FreeBits(scan[t]) :
         /\ \A x \in FreeBits(scan[t]) : b <= x
         /\ allocated' = allocated \cup {b}
         /\ LcAssert(t, b < TotalBlocks, "idle")
         /\ held' = [held EXCEPT ![t] = @ \cup ({b} \cap Block)]
         /\ written' = [x \in Block |-> IF x = b THEN Zero ELSE written[x]]
    /\ scan' = [scan EXCEPT ![t] = BitmapStart]
    /\ UNCHANGED << content, blk >>

SkipFull(t) == /\ At(t, "scan")
               /\ Scanned(scan[t])
               /\ FreeBits(scan[t]) = {}
               /\ scan' = [scan EXCEPT ![t] = @ + 1]
               /\ UNCHANGED << allocated, content, pc, blk, held, written >>

(* "No free block found": LC_BLOCK_ILLEGAL_ID. *)
FindNone(t) == /\ At(t, "scan")
               /\ ~Scanned(scan[t])
               /\ Goto(t, "idle")
               /\ scan' = [scan EXCEPT ![t] = BitmapStart]
               /\ UNCHANGED << allocated, content, blk, held, written >>

-----------------------------------------------------------------------------
(* read_block and write_block of a block that is held.                     *)
BeginAccess(t, place) ==
    /\ At(t, "idle")
    /\ \E b \in held[t] : blk' = [blk EXCEPT ![t] = b]
    /\ Goto(t, place)
    /\ UNCHANGED << allocated, content, scan, held, written >>

(* The DEBUG check, under the guard of the bitmap block.                   *)
Check(t, place, next) ==
    /\ At(t, place)
    /\ LcAssert(t, blk[t] \in allocated, next)
    /\ UNCHANGED << allocated, content, blk, scan, held, written >>

Read(t) == /\ At(t, "read")
           /\ Return(t)
           /\ UNCHANGED << allocated, content, scan, held, written >>

Write(t) == /\ At(t, "write")
            /\ \E v \in Value :
                 /\ content' = [content EXCEPT ![blk[t]] = v]
                 /\ written' = [written EXCEPT ![blk[t]] = v]
            /\ Return(t)
            /\ UNCHANGED << allocated, scan, held >>

-----------------------------------------------------------------------------
(* free_block: the data first, then the bit.  (Slip: the other way round.) *)
FreeOrderSwapped == << "unset", "clear" >>
FreeOrder == << "clear", "unset" >>

AfterFreeStep(t, place) ==
    IF place = FreeOrder[1] THEN Goto(t, FreeOrder[2]) /\ UNCHANGED blk
                            ELSE Return(t)

BeginFree(t) == /\ At(t, "idle")
                /\ \E b \in held[t] :
                     /\ blk' = [blk EXCEPT ![t] = b]
                     /\ held' = [held EXCEPT ![t] = @ \ {b}]
                /\ Goto(t, FreeOrder[1])
                /\ UNCHANGED << allocated, content, scan, written >>

Clear(t) == /\ At(t, "clear")
            /\ content' = [content EXCEPT ![blk[t]] = Zero]
            /\ AfterFreeStep(t, "clear")
            /\ UNCHANGED << allocated, scan, held, written >>

(* bmp[byte] &= ~(1 << bit).  (Slip: the ~ is missing.) *)
WithOnly(b) ==
    { x \in allocated : x = b \/ BitmapBlockOf(x) # BitmapBlockOf(b) }
Without(b) == allocated \ {b}

Unset(t) == /\ At(t, "unset")
            /\ allocated' = Without(blk[t])
            /\ IF blk[t] \in allocated
               THEN AfterFreeStep(t, "unset")
               ELSE Goto(t, "aborted") /\ UNCHANGED blk
            /\ UNCHANGED << content, scan, held, written >>

-----------------------------------------------------------------------------
Next == \E t \in Thread :
    \/ BeginAlloc(t)
    \/ AllocBit(t)
    \/ SkipFull(t)
    \/ FindNone(t)
    \/ BeginAccess(t, "check read")
    \/ Check(t, "check read", "read")
    \/ Read(t)
    \/ BeginAccess(t, "check write")
    \/ Check(t, "check write", "write")
    \/ Write(t)
    \/ BeginFree(t)
    \/ Clear(t)
    \/ Unset(t)

Spec == Init /\ [][Next]_vars

-----------------------------------------------------------------------------
TypeOK == /\ allocated \subseteq Bit
          /\ content \in [Block -> Value \cup {Zero}]
          /\ pc \in [Thread -> PC]
          /\ blk \in [Thread -> Block \cup {NoBlock}]
          /\ scan \in [Thread -> BitmapStart .. InodeBitmapStart]
          /\ held \in [Thread -> SUBSET DataBlock]
          /\ written \in [Block -> Value \cup {Zero}]

(* t holds b, or is giving it back. *)
Owns(t, b) == b \in held[t] \/ (blk[t] = b /\ pc[t] \in {"clear", "unset"})

(* The bitmap is the ownership: no block is given to two callers, none is  *)
(* set without an owner (lost) or owned without being set (given twice     *)
(* next), whatever alloc_block and free_block calls overlap.               *)
BitmapIsOwnership ==
    \A b \in DataBlock :
        /\ \A t, u \in Thread : Owns(t, b) /\ Owns(u, b) => t = u
        /\ b \in allocated <=> \E t \in Thread : Owns(t, b)

(* A caller finds in its block what it wrote there, or zeros: the clearing *)
(* of a block by its last owner never reaches the next one's data.         *)
HolderSeesOwnData ==
    \A t \in Thread : \A b \in held[t] : content[b] = written[b]

(* No assertion of the manager fails: every access is to an allocated      *)
(* block, every freed bit was set, and no block number is out of bounds.   *)
NeverAborts == \A t \in Thread : ~At(t, "aborted")

(* "No free block found" (line 176): alloc_block answers so only when      *)
(* every data block is allocated.                                          *)
AllocExhaustive ==
    [][\A t \in Thread : FindNone(t) => DataBlock \subseteq allocated]_vars
=============================================================================
