----------------------------- MODULE BlockRequests ----------------------------
(***************************************************************************)
(* The calls a thread can make on the block buffer pool: the vocabulary    *)
(* shared by what the pool promises (BlockStore) and by how it works       *)
(* (BlockBufferPool).                                                      *)
(*                                                                         *)
(*   read         read_block(id, LCBlock &) and read_block(id, data, size) *)
(*   pin          read_block(id), which returns the block by value and     *)
(*                leaves it pinned until unpin_block(id)                   *)
(*   write        write_block, of the whole block or of a part of it: the  *)
(*                new value of the block is val either way                 *)
(*   access       access_frame_lock, the guard it returns and its release  *)
(*   unpin, flush_block, flush_all    the functions of those names         *)
(***************************************************************************)
CONSTANTS
    Block,    \* the blocks of the image
    Data,     \* the values a block can hold
    NoBlock,  \* LC_BLOCK_ILLEGAL_ID, and the argument of a call without one
    NoData    \* the value of a call that has none, or has none yet

ASSUME NoBlockAssumption == NoBlock \notin Block
ASSUME NoDataAssumption == NoData \notin Data

ReadOps  == {"read", "pin"}
WriteOps == {"write", "access"}
FlushOps == {"flush_block", "flush_all"}
AllOps   == ReadOps \cup WriteOps \cup FlushOps \cup {"unpin"}

NoReq == [op |-> "none", blk |-> NoBlock, val |-> NoData]

\* The requests whose operation is in ops.
Request(ops) ==
         [op : ops \cap {"read", "pin", "unpin", "flush_block"},
          blk : Block, val : {NoData}]
    \cup [op : ops \cap WriteOps, blk : Block, val : Data]
    \cup [op : ops \cap {"flush_all"}, blk : {NoBlock}, val : {NoData}]

\* The blocks a request is to make durable before it returns.
Scope(r) == CASE r.op = "flush_block" -> {r.blk}
              [] r.op = "flush_all"   -> Block
              [] OTHER                -> {}
===============================================================================
