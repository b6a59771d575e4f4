---------------------------- MODULE MCInodeManager ----------------------------
(* A small instance of InodeManager for TLC.                               *)
EXTENDS InodeManager, TLC

Blocks == 1 .. 3
Symmetry == Permutations(Thread)

(* A misread inode names a block of somebody else and counts other links.  *)
Misread == {[links |-> 3, ptr |-> [k \in Ptr |-> 1]]}
=============================================================================
