--------------------------- MODULE MCBlockBufferPool --------------------------
(***************************************************************************)
(* Small instances of BlockBufferPool for TLC.                             *)
(***************************************************************************)
EXTENDS BlockBufferPoolInv, TLC

\* The operations of each run.
DataOps == {"read", "write", "access", "flush_block", "flush_all"}
LiveOps == {"pin", "unpin", "access"}

\* Threads, blocks and values are interchangeable: no definition tells one
\* from another.
Symmetry == Permutations(Thread) \cup Permutations(Block)
                                 \cup Permutations(Data)
===============================================================================
