------------------------------- MODULE FileMap -------------------------------
(***************************************************************************)
(* Where LCInodeManager (include/lc_inode_manager.h) looks for block n of  *)
(* a file: the path of get_block_id and get_indirect_block_id from the     *)
(* inode through its pointer blocks.                                       *)
(***************************************************************************)
EXTENDS Integers, Sequences

CONSTANTS
    DirectPtrs,    \* LC_DIRECT_PTRS, 12
    PtrsPerBlock,  \* LC_PTRS_PRE_BLOCK, 1024
    Width          \* 2^32: file_blk is a uint32_t

ASSUME FileMapAssumption ==
    /\ DirectPtrs \in Nat /\ PtrsPerBlock \in Nat \ {0}
    /\ DirectPtrs <= PtrsPerBlock
    /\ Width \in Nat /\ 8 * PtrsPerBlock < Width

\* get_indirect_block_id at each level: the indices from the pointer block
\* at that level down.
Path1(n) == << n >>
Path2(n) == << n \div PtrsPerBlock >> \o Path1(n % PtrsPerBlock)
Path3(n) ==
    LET index == n \div (PtrsPerBlock * PtrsPerBlock)
    IN  << index >> \o Path2((index \div PtrsPerBlock) % PtrsPerBlock)

\* The loop of get_block_id: what is left of n in its i-th turn.
Left(n, i) == (n - i * PtrsPerBlock) % Width

\* The turn that takes n: the first after which less than PtrsPerBlock is left.
Takes(n, i) == /\ Left(n, i) < PtrsPerBlock
               /\ \A j \in 1 .. i - 1 : Left(n, j) >= PtrsPerBlock

\* The path of block n, from its pointer in the inode; empty if it has none
\* (LC_BLOCK_ILLEGAL_ID).
BlockPath(n) ==
    CASE n < DirectPtrs -> << n >>
      [] Takes(n, 1)    -> << DirectPtrs >> \o Path1(Left(n, 1))
      [] Takes(n, 2)    -> << DirectPtrs + 1 >> \o Path2(Left(n, 2))
      [] Takes(n, 3)    -> << DirectPtrs + 2 >> \o Path3(Left(n, 3))
      [] OTHER          -> << >>
=============================================================================
