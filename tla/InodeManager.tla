----------------------------- MODULE InodeManager -----------------------------
(***************************************************************************)
(* LCInodeManager (include/lc_inode_manager.h), without its directories:   *)
(* inode numbers, link counts and the blocks of files.  It works on the    *)
(* block manager as BlockManager shows it (alloc_block gives a block nobody *)
(* owns, free_block clears it) and on the inode pool as InodeBufferPool    *)
(* shows it: its guard (access_frame_lock) makes what is done under it one *)
(* step, unless the code calls the block manager several times meanwhile,  *)
(* and an inode that is read from the table again is the one that was      *)
(* written only in the first slot of its block (Yields, Reload, Restart).  *)
(*                                                                         *)
(* The model is of both builds.  With assertions (asserts) read_file_block *)
(* and write_file_block stop at every block there is, since the block pool *)
(* wants a size below that of a block, and so does the last inode of a     *)
(* block of the table; without them file blocks are read and written.  The *)
(* model ends (ended) where an assertion fails, and where a build without  *)
(* them does the harm the assertion is there for.                          *)
(*                                                                         *)
(* The repository has no caller yet.  The model's callers free an inode    *)
(* once for each link and use no inode they have freed; what else they     *)
(* keep to are the constants Serialised to ReloadsUsed.                    *)
(***************************************************************************)
EXTENDS FileMap, FiniteSets

CONSTANTS
    Thread,      \* the threads that call the manager
    InodeCount,  \* inode_cache_info_.inode_count
    Block,       \* the data blocks, numbers above 0
    Value,       \* what callers write into a block
    Zero,        \* a block of zeros
    Illegal,     \* LC_BLOCK_ILLEGAL_ID
    MaxLinks,    \* bound: links a caller gives an inode
    PerBlock,    \* LC_INODES_PRE_BLOCK, 16
    Misreads,    \* what a read of another slot than the first may find
    NoThread,    \* the holder of a free guard
    Serialised,  \* one thread at a time allocates or frees inodes
    SaveFirst,   \* the inode bitmap is saved before a process ends
    BlankFirst,  \* a new inode gets empty pointers before it is used
    AllocatesFull,  \* alloc_inode is called when no inode is free
    ReloadsUsed     \* inodes in use are evicted, or kept for a new process,
                    \* that are not the first of their block

Inode == 0 .. InodeCount - 1
Ptr == 0 .. DirectPtrs - 1
FileBlock == 0 .. PtrsPerBlock   \* up to the first block of level 1
SuperBlockId == 0
InodeRecord == [links : Nat, ptr : [Ptr -> Nat]]

ASSUME ManagerAssumption ==
    /\ InodeCount \in Nat \ {0} /\ Block \subseteq Nat \ {SuperBlockId}
    /\ Illegal \in Nat \ (Block \cup {SuperBlockId}) /\ Zero \notin Value
    /\ MaxLinks \in Nat \ {0} /\ NoThread \notin Thread
    /\ PerBlock \in Nat \ {0, 1}
    /\ Misreads # {} /\ Misreads \subseteq InodeRecord
    /\ Serialised \in BOOLEAN /\ SaveFirst \in BOOLEAN /\ BlankFirst \in BOOLEAN
    /\ AllocatesFull \in BOOLEAN /\ ReloadsUsed \in BOOLEAN

VARIABLES
    bitmap,     \* inode_bitmap_, as the set of inodes whose bit is set
    hint,       \* inode_last_hint_
    saved,      \* the inode bitmap in the image
    inode,      \* link_count and direct block_ptr, in its frame or, where it
                \* has none, in the table; the other block_ptr stay Illegal
    guard,      \* the thread that holds the inode's frame
    allocated,  \* the data blocks whose bit is set
    content,    \* of the data blocks
    pc, ino,    \* where each thread stands, and its inode
    due,        \* frees the callers have not begun (history)
    wrote,      \* what they last wrote into each file block (history)
    asserts,    \* the build has assertions
    ended       \* why the model goes no further, or "no"

vars == << bitmap, hint, saved, inode, guard, allocated, content, pc, ino,
           due, wrote, asserts, ended >>
disk == << allocated, content >>
build == << asserts, ended >>

Cleared(n) == [links |-> n, ptr |-> [k \in Ptr |-> Illegal]]

\* The first of S that a loop comes to, if there is one.
Lowest(S) == {x \in S : \A y \in S : x <= y}

\* init_last_hint
FirstHint(set) == IF Inode \subseteq set THEN 0
                  ELSE CHOOSE i \in Lowest(Inode \ set) : TRUE

Init == /\ bitmap = {} /\ saved = {}
        /\ hint = FirstHint({})
        /\ inode = [i \in Inode |-> Cleared(0)]
        /\ guard = [i \in Inode |-> NoThread]
        /\ allocated = {}
        /\ content = [b \in Block |-> Zero]
        /\ pc = [t \in Thread |-> "idle"]
        /\ ino = [t \in Thread |-> 0]
        /\ due = [i \in Inode |-> 0]
        /\ wrote = [i \in Inode |-> [n \in FileBlock |-> Zero]]
        /\ asserts \in BOOLEAN
        /\ ended = "no"

-------------------------------------------------------------------------------
At(t, place) == ended = "no" /\ pc[t] = place
Goto(t, place) == pc' = [pc EXCEPT ![t] = place]

Stop(why) == /\ ended' = why
             /\ UNCHANGED << bitmap, hint, saved, inode, guard, disk, pc, ino,
                             due, wrote, asserts >>

\* What a read of inode i from the table finds, and whether a build with
\* assertions reads it at all (LCBlockBufferPool::read_block).
Slot(i) == i % PerBlock
Yields(i) == IF Slot(i) = 0 THEN {inode[i]} ELSE Misreads
Fits(i) == Slot(i) + 1 < PerBlock

MayChange(t) == Serialised => \A u \in Thread \ {t} : pc[u] = "idle"

\* alloc_inode: find_free_inode, from the hint and then from 0.  (Slip: the hint
\* is taken for a free inode.)
HintTrusted == IF hint < InodeCount THEN {hint} ELSE Inode \ bitmap
Candidates == LET up == {i \in Inode \ bitmap : i >= hint}
              IN  IF up # {} THEN up ELSE Inode \ bitmap

\* Where none is free a build with assertions stops; without them the caller gets
\* inode 0, whoever has it.
FindInode(t) ==
    /\ At(t, "idle") /\ MayChange(t)
    /\ IF Candidates = {} /\ asserts
       THEN Stop("no free inode")
       ELSE /\ IF Candidates = {}
               THEN /\ AllocatesFull
                    /\ ino' = [ino EXCEPT ![t] = 0]
                    /\ UNCHANGED hint
               ELSE \E i \in Lowest(Candidates) : /\ ino' = [ino EXCEPT ![t] = i]
                                                  /\ hint' = i + 1
            /\ Goto(t, "found")
            /\ UNCHANGED << bitmap, saved, inode, guard, disk, due, wrote,
                            build >>

SetBit(t) == /\ At(t, "found")
             /\ bitmap' = bitmap \cup {ino[t]}
             /\ Goto(t, "set")
             /\ UNCHANGED << hint, saved, inode, guard, disk, ino, due, wrote,
                             build >>

\* write_inode of the new inode, whose pointers are 0, which is not "no block".
WriteNew(t) ==
    /\ At(t, "set") /\ guard[ino[t]] = NoThread
    /\ IF asserts /\ ~Fits(ino[t])
       THEN Stop("last inode of a block")
       ELSE /\ inode' = [inode EXCEPT ![ino[t]] =
                            [links |-> 1, ptr |-> [k \in Ptr |-> SuperBlockId]]]
            /\ Goto(t, "new")
            /\ UNCHANGED << bitmap, hint, saved, guard, disk, ino, due, wrote,
                            build >>

\* The caller takes the inode as alloc_inode has left it, or writes an
\* inode_clear'ed one with its links (write_inode) before it uses it.
TakeInode(t) ==
    /\ At(t, "new") /\ guard[ino[t]] = NoThread
    /\ \E n \in 1 .. MaxLinks, blank \in {TRUE, BlankFirst} :
         /\ blank \/ n = 1
         /\ inode' = IF blank THEN [inode EXCEPT ![ino[t]] = Cleared(n)]
                              ELSE inode
         /\ due' = [due EXCEPT ![ino[t]] = n]
    /\ wrote' = [wrote EXCEPT ![ino[t]] = [n \in FileBlock |-> Zero]]
    /\ Goto(t, "idle")
    /\ UNCHANGED << bitmap, hint, saved, guard, disk, ino, build >>

-------------------------------------------------------------------------------
\* A caller may use inode i and gets its guard.
Usable(t, i) == At(t, "idle") /\ due[i] > 0 /\ guard[i] = NoThread

\* get_block_id: block n has a pointer, but to a block that is no file's.
Stray(i, n) == inode[i].ptr[n] \notin allocated \cup {Illegal}

\* What block n holds: zeros where read_file_block finds no pointer.
ReadAt(i, n) ==
    IF n \in Ptr /\ inode[i].ptr[n] # Illegal THEN content[inode[i].ptr[n]]
                                             ELSE Zero

\* read_file_block changes nothing.  A read of a block there is asks the block
\* pool for a whole block, which it asserts nobody does.
ReadFileBlock(t, i, n) ==
    /\ Usable(t, i)
    /\ IF n \in Ptr /\ Stray(i, n) THEN Stop("block not allocated")
       ELSE IF n \in Ptr /\ inode[i].ptr[n] # Illegal /\ asserts
            THEN Stop("whole block")
       ELSE UNCHANGED vars

\* write_file_block on block n with a direct pointer: get_block_id allocates,
\* then a build with assertions stops, for a write of a whole block too.
\* (Slip: a pointer that was there is replaced.)
TargetsNew(i, n) == Lowest(Block \ allocated)
Targets(i, n) == IF inode[i].ptr[n] # Illegal THEN {inode[i].ptr[n]}
                                             ELSE TargetsNew(i, n)

WriteFileBlock(t, i, n) ==
    /\ Usable(t, i)
    /\ BlockPath(n) = << n >>
    /\ \E b \in Targets(i, n) :
         IF Stray(i, n) THEN Stop("block not allocated")
         ELSE /\ allocated' = allocated \cup {b}
              /\ inode' = [inode EXCEPT ![i].ptr[n] = b]
              /\ IF asserts
                 THEN ended' = "whole block" /\ UNCHANGED << content, wrote >>
                 ELSE /\ \E v \in Value :
                           /\ content' = [content EXCEPT ![b] = v]
                           /\ wrote' = [wrote EXCEPT ![i][n] = v]
                      /\ UNCHANGED ended
              /\ UNCHANGED << bitmap, hint, saved, guard, pc, ino, due,
                              asserts >>

\* Without a block to be had, a build without assertions returns at once.
WriteFullDisk(t, i, n) ==
    /\ Usable(t, i)
    /\ BlockPath(n) = << n >>
    /\ Targets(i, n) = {}
    /\ IF asserts THEN Stop("disk full") ELSE UNCHANGED vars

\* The same for a block without a path.  One with a longer path gets a new
\* pointer block, whose entries are 0, and the write goes to block 0.
WriteBeyondDirect(t, i, n) ==
    /\ Usable(t, i)
    /\ BlockPath(n) # << n >>
    /\ IF BlockPath(n) # << >> \/ asserts THEN Stop("block not mapped")
                                        ELSE UNCHANGED vars

-------------------------------------------------------------------------------
\* free_inode
BeginFree(t, i) ==
    /\ At(t, "idle") /\ MayChange(t) /\ due[i] > 0
    /\ IF i \in bitmap \/ ~asserts
       THEN /\ ino' = [ino EXCEPT ![t] = i]
            /\ due' = [due EXCEPT ![i] = @ - 1]
            /\ Goto(t, "freeing")
            /\ UNCHANGED << bitmap, hint, saved, inode, guard, disk, wrote,
                            build >>
       ELSE Stop("inode not allocated")

\* (Slip: the inode goes with its first link.)
NoOtherLink(i) == TRUE
IsLastLink(i) == inode[i].links <= 1

DropLink(t) ==
    /\ At(t, "freeing") /\ guard[ino[t]] = NoThread /\ ~IsLastLink(ino[t])
    /\ inode' = [inode EXCEPT ![ino[t]].links = @ - 1]
    /\ Goto(t, "idle")
    /\ UNCHANGED << bitmap, hint, saved, guard, disk, ino, due, wrote, build >>

DropLastLink(t) ==
    /\ At(t, "freeing") /\ guard[ino[t]] = NoThread /\ IsLastLink(ino[t])
    /\ guard' = [guard EXCEPT ![ino[t]] = t]
    /\ Goto(t, "truncating")
    /\ UNCHANGED << bitmap, hint, saved, inode, disk, ino, due, wrote, build >>

\* truncate_inode, one turn of its loop.  (Slip: the last pointer is left.)
Mapped(i) == {k \in Ptr : inode[i].ptr[k] # Illegal}
ToFreeButLast(i) == Mapped(i) \ {DirectPtrs - 1}
ToFree(i) == Mapped(i)

FreePtr(t) ==
    /\ At(t, "truncating")
    /\ \E k \in Lowest(ToFree(ino[t])) :
         LET b == inode[ino[t]].ptr[k]
         IN  IF b \in allocated
             THEN /\ allocated' = allocated \ {b}
                  /\ content' = [content EXCEPT ![b] = Zero]
                  /\ inode' = [inode EXCEPT ![ino[t]].ptr[k] = Illegal]
                  /\ UNCHANGED << bitmap, hint, saved, guard, pc, ino, due,
                                  wrote, build >>
             ELSE Stop("block not allocated")

ClearBit(t) ==
    /\ At(t, "truncating") /\ ToFree(ino[t]) = {}
    /\ bitmap' = bitmap \ {ino[t]}
    /\ guard' = [guard EXCEPT ![ino[t]] = NoThread]
    /\ Goto(t, "idle")
    /\ UNCHANGED << hint, saved, inode, disk, ino, due, wrote, build >>

-------------------------------------------------------------------------------
InAlloc(t) == pc[t] \in {"found", "set", "new"}
InFree(t) == pc[t] \in {"freeing", "truncating"}
Freeing(i) == {t \in Thread : InFree(t) /\ ino[t] = i}
InUse(i) == due[i] > 0 \/ Freeing(i) # {}

\* The inode pool evicts the frame of inode i; the next access reads the inode
\* from the table again.  With assertions no last inode of a block has a frame.
Reload(i) ==
    /\ ended = "no" /\ guard[i] = NoThread
    /\ asserts => Fits(i)
    /\ Slot(i) = 0 \/ ~InUse(i) \/ ReloadsUsed
    /\ \E v \in Yields(i) : inode' = [inode EXCEPT ![i] = v]
    /\ UNCHANGED << bitmap, hint, saved, guard, disk, pc, ino, due, wrote,
                    build >>

Quiet == ended = "no" /\ \A t \in Thread : pc[t] = "idle"

WriteInodeBitmap ==
    /\ Quiet
    /\ saved' = bitmap
    /\ UNCHANGED << bitmap, hint, inode, guard, disk, pc, ino, due, wrote,
                    build >>

\* A process has stopped its pools (StoppedIsDurable in InodeBufferPool), and
\* another one, of either build, starts on the image: the constructor's
\* read_inode_bitmap and init_last_hint; the inodes are read from the table, the
\* last of a block by a build without assertions only.
Restart ==
    /\ Quiet
    /\ SaveFirst => saved = bitmap
    /\ \A i \in Inode : Slot(i) = 0 \/ ~InUse(i) \/ ReloadsUsed
    /\ bitmap' = saved
    /\ hint' = FirstHint(saved)
    /\ inode' \in [Inode -> UNION {Yields(i) : i \in Inode}]
    /\ \A i \in Inode : inode'[i] \in Yields(i)
    /\ asserts' \in BOOLEAN
    /\ asserts' => \A i \in Inode : InUse(i) => Fits(i)
    /\ UNCHANGED << saved, guard, disk, pc, ino, due, wrote, ended >>

Next ==
    \/ \E t \in Thread :
         \/ FindInode(t) \/ SetBit(t) \/ WriteNew(t)
         \/ TakeInode(t)
         \/ \E i \in Inode, n \in FileBlock :
              \/ ReadFileBlock(t, i, n) \/ WriteFileBlock(t, i, n)
              \/ WriteFullDisk(t, i, n) \/ WriteBeyondDirect(t, i, n)
         \/ \E i \in Inode : BeginFree(t, i)
         \/ DropLink(t) \/ DropLastLink(t) \/ FreePtr(t) \/ ClearBit(t)
    \/ \E i \in Inode : Reload(i)
    \/ WriteInodeBitmap
    \/ Restart

Spec == Init /\ [][Next]_vars

-------------------------------------------------------------------------------
\* An inode's bit is set exactly while somebody has the inode, and the inode is
\* new to whom it is given: not in use, not being freed, not given to another
\* thread (find_free_inode, its hint, free_inode, restarts).
InodeOwnedOnce ==
    /\ \A i \in Inode : i \in bitmap <=>
          \/ due[i] > 0 \/ Freeing(i) # {}
          \/ \E t \in Thread : pc[t] \in {"set", "new"} /\ ino[t] = i
    /\ \A t \in Thread : InAlloc(t) =>
          /\ due[ino[t]] = 0 /\ Freeing(ino[t]) = {}
          /\ \A u \in Thread \ {t} : InAlloc(u) => ino[u] # ino[t]

\* A link is dropped by every free and by nothing else: link_count is what the
\* callers have still to free, so that neither is an inode truncated under a
\* user nor does one stay for ever.
LinksExact ==
    \A i \in Inode : due[i] > 0 =>
        inode[i].links = due[i] + Cardinality(Freeing(i))

\* The pointers of the inodes in use and the block bitmap agree: no block
\* belongs to two files or two places of one, no allocated block is lost, none
\* in use is free (get_block_id, truncate_inode).
BlocksOwnedOnce ==
    /\ \A i, j \in Inode : InUse(i) /\ InUse(j) =>
          \A k \in Mapped(i), m \in Mapped(j) :
              inode[i].ptr[k] = inode[j].ptr[m] => i = j /\ k = m
    /\ allocated = UNION { {inode[i].ptr[k] : k \in Mapped(i)} :
                              i \in {j \in Inode : InUse(j)} }

\* A block with a direct pointer holds what was last written into it, or zeros
\* if nothing was: nothing of the file that had the inode or the block before
\* shines through (get_block_id, write_file_block, truncate_inode).
ReadsBack ==
    \A i \in Inode, n \in Ptr : due[i] > 0 => ReadAt(i, n) = wrote[i][n]

\* No file operation reads, writes or frees a block whose bit is not set, and
\* free_inode meets no clear bit of the inode bitmap: among the reasons for the
\* model to end there is none that the bitmaps are at odds with the inodes.
NoStrayAccess ==
    ended \notin {"inode not allocated", "block not allocated"}
=============================================================================
