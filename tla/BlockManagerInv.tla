--------------------------- MODULE BlockManagerInv ---------------------------
(***************************************************************************)
(* The inductive invariant behind the three safety properties of           *)
(* BlockManager.  They need two facts more: what each call may rely on     *)
(* about the block it is at, and that a block nobody owns is clear, which  *)
(* is what the order of free_block's two steps is for.                     *)
(***************************************************************************)
EXTENDS BlockManager

(* An access is to a block the caller holds; a block that is being given   *)
(* back is no longer held.                                                 *)
CallsFit ==
    \A t \in Thread :
        /\ pc[t] \in {"check read", "read", "check write", "write"}
               => blk[t] \in held[t]
        /\ pc[t] \in {"clear", "unset"} => blk[t] \in DataBlock \ held[t]

(* A block is clear before its bit is, and stays so until it is given out. *)
FreeIsClear ==
    /\ \A b \in DataBlock \ allocated : content[b] = Zero
    /\ \A t \in Thread : At(t, "unset") => content[blk[t]] = Zero

IInv == /\ TypeOK
        /\ CallsFit
        /\ FreeIsClear
        /\ BitmapIsOwnership
        /\ HolderSeesOwnData
        /\ NeverAborts
=============================================================================
