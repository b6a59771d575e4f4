--------------------------- MODULE MCBlockManager ----------------------------
(* Instances of BlockManager for TLC.  Thirteen blocks at three bits to a   *)
(* bitmap block: five bitmap blocks, the first one scanned mostly below     *)
(* DataStart, the last one with two bits beyond the image.                  *)
EXTENDS BlockManagerInv, TLC

Symmetry == Permutations(Thread)
=============================================================================
