------------------------------ MODULE BlockStore ------------------------------
(***************************************************************************)
(* What the block buffer pool of include/lc_block_buffer.h promises to the *)
(* threads that call it: one array of blocks, as if no frame, map or       *)
(* eviction existed.  Every call takes effect at one instant between its   *)
(* invocation and its return, the disk only ever receives the current      *)
(* content of a block, and a flush returns once everything that had not    *)
(* reached the disk when it was called has reached it.                     *)
(***************************************************************************)
EXTENDS BlockRequests

CONSTANT Thread  \* the threads that use the store

VARIABLES
    content,  \* content[b]: what a read of b returns
    disk,     \* disk[b]: what would be left of b if the program died now
    phase,    \* phase[t]: where t stands in its call
    req,      \* req[t]: the call of t, its argument and its result
    owed      \* owed[t]: blocks t's flush has yet to see on the disk

vars == << content, disk, phase, req, owed >>

Init ==
    /\ content \in [Block -> Data]
    /\ disk = content
    /\ phase = [t \in Thread |-> "idle"]
    /\ req = [t \in Thread |-> NoReq]
    /\ owed = [t \in Thread |-> {}]

Invoke(t, r) ==
    /\ phase[t] = "idle"
    /\ phase' = [phase EXCEPT ![t] = "pending"]
    /\ req' = [req EXCEPT ![t] = r]
    /\ owed' = [owed EXCEPT ![t] = {b \in Scope(r) : content[b] # disk[b]}]
    /\ UNCHANGED << content, disk >>

\* A read returns the content the block has at this instant.
Read(t) ==
    /\ phase[t] = "pending"
    /\ req[t].op \in ReadOps
    /\ req' = [req EXCEPT ![t].val = content[req[t].blk]]
    /\ phase' = [phase EXCEPT ![t] = "done"]
    /\ UNCHANGED << content, disk, owed >>

Write(t) ==
    /\ phase[t] = "pending"
    /\ req[t].op = "write"
    /\ content' = [content EXCEPT ![req[t].blk] = req[t].val]
    /\ phase' = [phase EXCEPT ![t] = "done"]
    /\ UNCHANGED << disk, req, owed >>

\* The holder of an access guard may write through it before it lets go.
WriteThrough(t) ==
    /\ phase[t] = "pending"
    /\ req[t].op = "access"
    /\ content' = [content EXCEPT ![req[t].blk] = req[t].val]
    /\ UNCHANGED << disk, phase, req, owed >>

\* The end of a call with no effect of its own on the content.
Finish(t) ==
    /\ phase[t] = "pending"
    /\ req[t].op \in FlushOps \cup {"access", "unpin"}
    /\ owed[t] = {}
    /\ phase' = [phase EXCEPT ![t] = "done"]
    /\ UNCHANGED << content, disk, req, owed >>

Return(t) ==
    /\ phase[t] = "done"
    /\ phase' = [phase EXCEPT ![t] = "idle"]
    /\ req' = [req EXCEPT ![t] = NoReq]
    /\ UNCHANGED << content, disk, owed >>

\* At any time the store may bring one block of the disk up to date.
WriteBack(b) ==
    /\ disk' = [disk EXCEPT ![b] = content[b]]
    /\ owed' = [t \in Thread |-> owed[t] \ {b}]
    /\ UNCHANGED << content, req >>

Persist(b) == WriteBack(b) /\ UNCHANGED phase

\* A write-back that is also the last step of t's flush.
PersistAndFinish(t, b) ==
    /\ phase[t] = "pending"
    /\ req[t].op \in FlushOps
    /\ owed[t] \subseteq {b}
    /\ WriteBack(b)
    /\ phase' = [phase EXCEPT ![t] = "done"]

Next ==
    \/ \E t \in Thread :
         \/ \E r \in Request(AllOps) : Invoke(t, r)
         \/ Read(t)
         \/ Write(t)
         \/ WriteThrough(t)
         \/ Finish(t)
         \/ Return(t)
         \/ \E b \in Block : PersistAndFinish(t, b)
    \/ \E b \in Block : Persist(b)

Spec == Init /\ [][Next]_vars
===============================================================================
