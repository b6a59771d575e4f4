------------------------------ MODULE MPMCQueue ------------------------------
(***************************************************************************)
(* LCMPMCQueue (include/lc_mpmc_queue.h): a ring of cells, each with a     *)
(* sequence number that says whose turn it is.  A producer claims position *)
(* p with a compare-and-swap on enqueue_index_, fills the cell of p and    *)
(* stores p + 1 in it, which lets the consumer that claims p on            *)
(* dequeue_index_ empty the cell and hand it to the next lap.              *)
(*                                                                         *)
(* enqueue and dequeue are mirror images, so a thread is on a side, "tail" *)
(* or "head", and each action below is the same line of both functions.    *)
(* One action per access to shared memory: a thread may stall between any  *)
(* two.  Positions are size_t, which 64 bits keep from wrapping; they are  *)
(* natural numbers here.                                                   *)
(***************************************************************************)
EXTENDS Integers, Sequences

CONSTANTS
    Thread,    \* the threads that call the queue, as producers and consumers
    Item,      \* what they enqueue
    Size,      \* buffer_size, buffer_mask_ + 1
    MaxIndex,  \* bound: no enqueue begins once this many have claimed
    NoItem,    \* what a moved-from or never filled cell holds
    Runner     \* the one thread FairSpec promises processor time

(* The constructor asserts a power of two, at least 2; only that makes     *)
(* pos & buffer_mask_ the remainder that CellOf takes.                     *)
ASSUME SizeAssumption == /\ Size \in Nat /\ Size >= 2
                         /\ \E k \in 1 .. Size : Size = 2 ^ k
ASSUME MaxIndexAssumption == MaxIndex \in Nat
ASSUME NoItemAssumption == NoItem \notin Item
ASSUME RunnerAssumption == Runner \in Thread

Cell == 0 .. Size - 1
CellOf(p) == p % Size

Side == {"tail", "head"}

VARIABLES
    sequence,  \* cell.sequence
    data,      \* cell.data
    index,     \* enqueue_index_ is index["tail"], dequeue_index_ index["head"]
    pc,        \* where each thread stands
    side,      \* the call it is in: "tail" for enqueue, "head" for dequeue
    pos,       \* its local pos
    item       \* the item it is enqueueing, or has dequeued

vars == << sequence, data, index, pc, side, pos, item >>

PC == {"idle", "load", "check", "claim", "move", "hand over"}

Init == /\ sequence = [c \in Cell |-> c]
        /\ data = [c \in Cell |-> NoItem]
        /\ index = [s \in Side |-> 0]
        /\ pc = [t \in Thread |-> "idle"]
        /\ side = [t \in Thread |-> "tail"]
        /\ pos = [t \in Thread |-> 0]
        /\ item = [t \in Thread |-> NoItem]

-----------------------------------------------------------------------------
At(t, place) == pc[t] = place
Goto(t, place) == pc' = [pc EXCEPT ![t] = place]

Return(t) == /\ Goto(t, "idle")
             /\ pos' = [pos EXCEPT ![t] = 0]
             /\ item' = [item EXCEPT ![t] = NoItem]

(* The sequence number that makes it t's turn: pos for an enqueue, pos + 1 *)
(* for a dequeue.                                                          *)
Turn(t) == IF side[t] = "tail" THEN pos[t] ELSE pos[t] + 1

Diff(t) == sequence[CellOf(pos[t])] - Turn(t)

(* The sequence number that hands the cell over: to the consumer of this   *)
(* lap, or to the producer of the next one.  (Slip: one short.)            *)
NextTurnOneShort(t) ==
    IF side[t] = "tail" THEN pos[t] + 1 ELSE pos[t] + Size - 1
NextTurn(t) == IF side[t] = "tail" THEN pos[t] + 1 ELSE pos[t] + Size

-----------------------------------------------------------------------------
Call(t) == /\ At(t, "idle")
           /\ \/ /\ index["tail"] < MaxIndex
                 /\ side' = [side EXCEPT ![t] = "tail"]
                 /\ \E x \in Item : item' = [item EXCEPT ![t] = x]
              \/ /\ side' = [side EXCEPT ![t] = "head"]
                 /\ UNCHANGED item
           /\ Goto(t, "load")
           /\ UNCHANGED << sequence, data, index, pos >>

Load(t) == /\ At(t, "load")
           /\ pos' = [pos EXCEPT ![t] = index[side[t]]]
           /\ Goto(t, "check")
           /\ UNCHANGED << sequence, data, index, side, item >>

(* It is t's turn. *)
Ready(t) == /\ At(t, "check")
            /\ Diff(t) = 0
            /\ Goto(t, "claim")
            /\ UNCHANGED << sequence, data, index, side, pos, item >>

(* The cell is not ready: return false, "full" or "empty".  (Slip: look    *)
(* again instead.)                                                         *)
WaitForCell(t) == /\ At(t, "check")
                  /\ Diff(t) < 0
                  /\ Goto(t, "load")
                  /\ UNCHANGED << sequence, data, index, side, pos, item >>
GiveUp(t) == /\ At(t, "check")
             /\ Diff(t) < 0
             /\ Return(t)
             /\ UNCHANGED << sequence, data, index, side >>

(* Others have passed this position: look again. *)
Overtaken(t) == /\ At(t, "check")
                /\ Diff(t) > 0
                /\ Goto(t, "load")
                /\ UNCHANGED << sequence, data, index, side, pos, item >>

(* The compare of the compare-and-swap.  (Slip: a plain store.) *)
ClaimAnyway(t) == TRUE
ClaimIsMine(t) == index[side[t]] = pos[t]

Claim(t) == /\ At(t, "claim")
            /\ ClaimIsMine(t)
            /\ index' = [index EXCEPT ![side[t]] = pos[t] + 1]
            /\ Goto(t, "move")
            /\ UNCHANGED << sequence, data, side, pos, item >>

(* compare_exchange_weak leaves the index it saw in pos, and may fail even *)
(* when that is the one it expected.                                       *)
FailClaim(t) == /\ At(t, "claim")
                /\ pos' = [pos EXCEPT ![t] = index[side[t]]]
                /\ Goto(t, "check")
                /\ UNCHANGED << sequence, data, index, side, item >>

(* Fill the cell, or take from it: a move leaves the cell without value.   *)
Move(t) == /\ At(t, "move")
           /\ LET c == CellOf(pos[t]) IN
                IF side[t] = "tail"
                THEN /\ data' = [data EXCEPT ![c] = item[t]]
                     /\ UNCHANGED item
                ELSE /\ item' = [item EXCEPT ![t] = data[c]]
                     /\ data' = [data EXCEPT ![c] = NoItem]
           /\ Goto(t, "hand over")
           /\ UNCHANGED << sequence, index, side, pos >>

HandOver(t) == /\ At(t, "hand over")
               /\ sequence' = [sequence EXCEPT ![CellOf(pos[t])] = NextTurn(t)]
               /\ Return(t)
               /\ UNCHANGED << data, index, side >>

-----------------------------------------------------------------------------
(* What a thread does next on its own; the scheduler cannot keep a running *)
(* thread from it.                                                         *)
Proceed(t) == \/ Load(t)
              \/ Ready(t)
              \/ GiveUp(t)
              \/ Overtaken(t)
              \/ Claim(t)
              \/ ~ClaimIsMine(t) /\ FailClaim(t)
              \/ Move(t)
              \/ HandOver(t)

Next == \E t \in Thread : Call(t) \/ Proceed(t) \/ FailClaim(t)

Spec == Init /\ [][Next]_vars

(* Runner is scheduled and its compare-and-swap does not fail for ever on  *)
(* the value it expects.  Every other thread may stop anywhere.            *)
FairSpec == Spec /\ WF_vars(Proceed(Runner)) /\ SF_vars(Claim(Runner))

-----------------------------------------------------------------------------
TypeOK == /\ sequence \in [Cell -> Nat]
          /\ data \in [Cell -> Item \cup {NoItem}]
          /\ index \in [Side -> Nat]
          /\ pc \in [Thread -> PC]
          /\ side \in [Thread -> Side]
          /\ pos \in [Thread -> Nat]
          /\ item \in [Thread -> Item \cup {NoItem}]

(* t has claimed its position and not handed the cell over. *)
OwnsCell(t) == pc[t] \in {"move", "hand over"}

(* cell.data is an ordinary object: two threads between their claim and    *)
(* their hand-over are never on the same cell, however long one of them    *)
(* slept before its compare-and-swap.                                      *)
CellHasOneOwner ==
    \A t, u \in Thread :
        OwnsCell(t) /\ OwnsCell(u) /\ t # u => CellOf(pos[t]) # CellOf(pos[u])

(* The queue is a FIFO: an item is in it from the claim of its position    *)
(* on, though its producer may not have written it yet.                    *)
Fills(t, p) == side[t] = "tail" /\ At(t, "move") /\ pos[t] = p

ItemAt(p) == IF \E t \in Thread : Fills(t, p)
             THEN item[CHOOSE t \in Thread : Fills(t, p)]
             ELSE data[CellOf(p)]

Queue == [i \in 1 .. index["tail"] - index["head"] |->
             ItemAt(index["head"] + i - 1)]

Phase(t) == IF At(t, "idle") THEN "idle"
            ELSE IF side[t] = "tail"
                 THEN IF OwnsCell(t) THEN "put" ELSE "putting"
                 ELSE IF OwnsCell(t) THEN "got" ELSE "getting"

Carried(t) == IF side[t] = "head" /\ At(t, "move") THEN data[CellOf(pos[t])]
                                                   ELSE item[t]

Fifo == INSTANCE FifoQueue WITH
    Capacity <- Size,
    queue    <- Queue,
    phase    <- [t \in Thread |-> Phase(t)],
    carried  <- [t \in Thread |-> Carried(t)]

(* Every call takes effect at its compare-and-swap, in the order of the    *)
(* positions; the item a consumer gets is the one claimed for that         *)
(* position; and a call answers false only when the queue is full or       *)
(* empty, or another call is between its claim and its end.                *)
ImplementsFifo == Fifo!Spec

(* A thread never waits for another: Runner's call returns wherever the    *)
(* other threads stop, even between a claim and its hand-over.             *)
FinishesAlone == ~At(Runner, "idle") ~> At(Runner, "idle")
=============================================================================
