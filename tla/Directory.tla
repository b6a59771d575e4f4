------------------------------ MODULE Directory ------------------------------
(***************************************************************************)
(* The directories of LCInodeManager (include/lc_inode_manager.h): the     *)
(* entries of one directory and its inode.  Every operation holds the      *)
(* guard of the directory's frame from its first read to its last write,   *)
(* so it is one step; between two of them the frame may be evicted, with   *)
(* what was changed in it and not marked dirty, and the inode is read      *)
(* again: as it was only if it is the first of its block of the inode      *)
(* table (FirstSlotsReadBack in InodeBufferPool).                          *)
(*                                                                         *)
(* The model is of a build without assertions: with them add_dir_entry     *)
(* stops on its first line.  The directory's inode starts with empty       *)
(* pointers; its blocks are its own (BlocksOwnedOnce in InodeManager), so  *)
(* a block is named by its pointer's index.                                *)
(*                                                                         *)
(* The repository has no caller yet.  The model's callers add a name only  *)
(* once; where they keep directories, and what else they refrain from, are *)
(* the last constants below.                                               *)
(***************************************************************************)
EXTENDS Naturals

CONSTANTS
    Name,             \* names, of legal lengths
    Child,            \* inode numbers
    NoInode,          \* LC_INODE_ILLEGAL_ID, and lookup's LC_BLOCK_ILLEGAL_ID
    DirectPtrs,       \* LC_DIRECT_PTRS; the file blocks behind are not mapped
    EntriesPerBlock,  \* LC_DIRECTORY_ENTRIES_PER_BLOCK
    FirstSlot,        \* the directory's inode is the first of its block
    AddsToFull,       \* callers use add_dir_entry when no entry is empty
    RemovesBehind     \* callers remove what has an empty entry before it

Ptr == 0 .. DirectPtrs - 1
Slot == 1 .. EntriesPerBlock
NoEntry == [ino |-> NoInode]
EmptyBlock == [s \in Slot |-> NoEntry]

ASSUME DirectoryAssumption ==
    /\ Name # {} /\ NoInode \notin Child
    /\ DirectPtrs \in Nat \ {0} /\ EntriesPerBlock \in Nat \ {0}
    /\ FirstSlot \in BOOLEAN
    /\ AddsToFull \in BOOLEAN /\ RemovesBehind \in BOOLEAN

VARIABLES
    inode,    \* in its frame: blocks, and which pointers there are
    dirty,    \* the frame's
    stored,   \* the inode as last written back
    entries,  \* of the block under each pointer
    listed,   \* what each name was last added for (history)
    lost      \* what was written outside the data blocks, if anything

vars == << inode, dirty, stored, entries, listed, lost >>

Init == /\ inode = [blocks |-> 0, mapped |-> {}]
        /\ dirty = FALSE
        /\ stored = inode
        /\ entries = [k \in Ptr |-> EmptyBlock]
        /\ listed = [n \in Name |-> NoInode]
        /\ lost = {}

-----------------------------------------------------------------------------
\* The entries that the loops over blocks and entries visit, and the one of S
\* that they come to first, if there is one.
Places == {k \in inode.mapped : k < inode.blocks} \X Slot
At(p) == entries[p[1]][p[2]]
First(S) == {p \in S : \A q \in S :
                p[1] < q[1] \/ (p[1] = q[1] /\ p[2] <= q[2])}

Holes == {p \in Places : At(p).ino = NoInode}
BeforeHole(p) == \A h \in Holes : h[1] = p[1] => p[2] < h[2]
Named(n) == {p \in Places : At(p).ino # NoInode /\ At(p).name = n}

\* lookup: any entry of the name.  (Slip: it stops at an empty entry, as
\* remove_dir_entry does.)
FoundToHole(n) == {p \in Named(n) : BeforeHole(p)}
Found(n) == Named(n)

Lookup(n) == IF Found(n) = {} THEN NoInode
             ELSE At(CHOOSE p \in First(Found(n)) : TRUE).ino

\* remove_dir_entry leaves a block at its first empty entry.
Removable(n) == {p \in Named(n) : BeforeHole(p)}

\* add_dir_entry into the first empty entry.
Fill(n, c) ==
    /\ \E p \in First(Holes) :
         entries' = [entries EXCEPT ![p[1]][p[2]] = [name |-> n, ino |-> c]]
    /\ UNCHANGED inode

\* add_dir_entry into a new block, the one at index blocks, which get_block_id
\* counts a first time.
Grow(n, c) ==
    LET k == inode.blocks IN
    /\ Holes = {} /\ k \in Ptr
    /\ inode' = [blocks |-> k + 2, mapped |-> inode.mapped \cup {k}]
    /\ entries' = [entries EXCEPT ![k] =
                      [EmptyBlock EXCEPT ![1] = [name |-> n, ino |-> c]]]

\* add_dir_entry without a block: the disk is full or there is no pointer.  The
\* entry is written to block LC_BLOCK_ILLEGAL_ID; what a process does after that
\* is not modelled.
Miss == /\ Holes = {}
        /\ inode' = [inode EXCEPT !.blocks =
                        @ + IF inode.blocks \in Ptr THEN 2 ELSE 1]
        /\ UNCHANGED entries

AddEntry(n, c, losing) ==
    /\ \/ (Fill(n, c) \/ Grow(n, c)) /\ lost' = lost \cup losing
       \/ Miss /\ lost' = lost \cup losing \cup {"entry"}
    /\ listed' = [listed EXCEPT ![n] = c]
    /\ UNCHANGED stored

Running == "entry" \notin lost

\* The public add_dir_entry, which marks nothing.
AddDirEntry(n, c) == /\ Running /\ listed[n] = NoInode
                     /\ AddsToFull \/ Holes # {}
                     /\ AddEntry(n, c, {})
                     /\ UNCHANGED dirty

\* What create_directory leaves of the frame.  (Slip: it marks nothing either.)
Unmarked == dirty
Marked == TRUE

\* create_directory, after alloc_inode.  The pointers of the new inode are 0, so
\* its own two entries, "." and "..", go to block 0.
CreateDirectory(n, c) == /\ Running /\ Lookup(n) = NoInode
                         /\ AddEntry(n, c, {"superblock"})
                         /\ dirty' = Marked

\* It throws, and the inode it has allocated stays allocated.
CreateExisting(n) == /\ Running /\ Lookup(n) # NoInode
                     /\ lost' = lost \cup {"inode"}
                     /\ UNCHANGED << inode, dirty, stored, entries, listed >>

\* remove_dir_entry.
RemoveDirEntry(n) ==
    /\ Running
    /\ RemovesBehind \/ Removable(n) = Named(n)
    /\ \/ Removable(n) = {} /\ UNCHANGED entries
       \/ \E p \in First(Removable(n)) :
            entries' = [entries EXCEPT ![p[1]][p[2]] = NoEntry]
    /\ listed' = [listed EXCEPT ![n] = NoInode]
    /\ UNCHANGED << inode, dirty, stored, lost >>

\* What a read of any other inode than the first of a block makes of its pointers
\* (they may also name blocks that are not the directory's).
Misreads == [blocks : 0 .. DirectPtrs, mapped : SUBSET Ptr]

\* The inode pool evicts the frame and loads it again, or is stopped and a new
\* process starts.
Evict == /\ Running
         /\ dirty' = FALSE
         /\ stored' = IF dirty THEN inode ELSE stored
         /\ inode' \in IF FirstSlot THEN {stored'} ELSE Misreads
         /\ UNCHANGED << entries, listed, lost >>

Next == \/ \E n \in Name, c \in Child : AddDirEntry(n, c) \/ CreateDirectory(n, c)
        \/ \E n \in Name : CreateExisting(n) \/ RemoveDirEntry(n)
        \/ Evict

Spec == Init /\ [][Next]_vars

-----------------------------------------------------------------------------
\* lookup finds every name that was added and not removed since, with the inode
\* it was added for, and no other: wherever the entries before it have been
\* removed, and although the frame of the inode, a first one, is evicted and read
\* again between the calls (lookup, add_dir_entry, create_directory).
EntriesFound == Running => \A n \in Name : Lookup(n) = listed[n]

\* No name has two entries, in any two blocks of the directory: what one
\* create_directory adds behind empty entries the next one must find, after an
\* eviction too (lookup, create_directory, for a directory in a first slot).
NamesUnique == \A n \in Name : \A p, q \in Named(n) : p = q
=============================================================================
