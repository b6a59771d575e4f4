-------------------------- MODULE MCInodeBufferPool --------------------------
(* A small instance of InodeBufferPool for TLC.                            *)
EXTENDS InodeBufferPool

(* Block 0 of the table with its first, a middle and the last slot, and    *)
(* the first slot of block 1.                                              *)
Inodes == 0 .. 3
UserOps == {"read", "pin", "unpin", "write", "access", "flush_block", "flush_all"}

(* A change keeps inodes that differ apart, as that of a field does.       *)
Swap == {[d \in Data |-> CHOOSE e \in Data : e # d]}

(* Data has two values, which every action treats alike, each inode for    *)
(* itself: so a value counts by whether it is the one meant, or, where that *)
(* is nowhere to be found and what is meant no longer counts, the table's. *)
Meant(i) == IF Sound(i) THEN written[i] ELSE device[i]
IsMeant(values) == [i \in Block |-> values[i] = Meant(i)]

(* A frame that is empty, one that is not.                                 *)
Seen(f) == IF frames[f].valid
           THEN [frames[f] EXCEPT !.block = @ = Meant(frames[f].block_id)]
           ELSE [block_id |-> frames[f].block_id]

(* A call: nothing of it counts once it has ended.                         *)
Pending(t) == CASE pc[t] = "done" -> << >>
                [] req[t].op = "access" -> << req[t].blk, idx[t] >>
                [] req[t].op = "write" -> << req[t].val = Meant(req[t].blk),
                                             req[t].blk, idx[t] >>
                [] OTHER -> << req[t], idx[t] >>

(* States that behave alike are one: nothing reads owed in this run nor,   *)
(* after an abort, anything but the image and the history.                 *)
View ==
    IF stage = "aborted"
    THEN << [i \in Block |-> Sound(i) /\ image[i] = written[i]],
            [i \in Block |-> IF fate[i] = "saved" THEN "saved" ELSE "lost"] >>
    ELSE << [f \in Frame |-> Seen(f)], frame_map, clock_hand, locks, pc, pins,
            stage, blocks_off, fate, IsMeant(device), IsMeant(image),
            [t \in Thread |-> Pending(t)] >>
=============================================================================
