------------------------------ MODULE FifoQueue ------------------------------
(***************************************************************************)
(* What LCMPMCQueue promises its callers: one bounded first-in first-out   *)
(* queue.  Each call takes effect in one instant between its begin and its *)
(* end.  "Full" and "empty" are answers the queue may also give while      *)
(* another call that has taken effect has not ended: that much, and no     *)
(* more, is the price of never waiting for another thread.                 *)
(***************************************************************************)
EXTENDS Naturals, Sequences

CONSTANTS
    Thread,    \* the threads that call the queue
    Item,      \* what they put into it
    Capacity,  \* the number of cells
    NoItem     \* no item: what an idle thread carries

VARIABLES
    queue,   \* the items in the queue, oldest first
    phase,   \* where each thread's call stands
    carried  \* the item each thread is putting in, or has got out

vars == << queue, phase, carried >>

Init == /\ queue = << >>
        /\ phase = [t \in Thread |-> "idle"]
        /\ carried = [t \in Thread |-> NoItem]

Become(t, p, x) == /\ phase' = [phase EXCEPT ![t] = p]
                   /\ carried' = [carried EXCEPT ![t] = x]

(* x is the first to come out of q. *)
Oldest(x, q) == q # << >> /\ Head(q) = x

Begin(t) == /\ phase[t] = "idle"
            /\ \/ \E x \in Item : Become(t, "putting", x)
               \/ Become(t, "getting", NoItem)
            /\ UNCHANGED queue

Put(t) == /\ phase[t] = "putting"
          /\ Len(queue) < Capacity
          /\ queue' = Append(queue, carried[t])
          /\ Become(t, "put", carried[t])

Get(t) == /\ phase[t] = "getting"
          /\ queue # << >>
          /\ queue' = Tail(queue)
          /\ Become(t, "got", Head(queue))

(* "Full": every cell is taken, or being emptied by a call not yet ended.  *)
AnswerFull(t) == /\ phase[t] = "putting"
                 /\ \/ Len(queue) = Capacity
                    \/ \E u \in Thread : phase[u] = "got"
                 /\ Become(t, "idle", NoItem)
                 /\ UNCHANGED queue

(* "Empty": nothing is there, or the call that put the oldest item there   *)
(* has not ended.                                                          *)
AnswerEmpty(t) == /\ phase[t] = "getting"
                  /\ \/ queue = << >>
                     \/ \E u \in Thread :
                           phase[u] = "put" /\ Oldest(carried[u], queue)
                  /\ Become(t, "idle", NoItem)
                  /\ UNCHANGED queue

End(t) == /\ phase[t] \in {"put", "got"}
          /\ Become(t, "idle", NoItem)
          /\ UNCHANGED queue

Next == \E t \in Thread : \/ Begin(t)
                          \/ Put(t)
                          \/ Get(t)
                          \/ AnswerFull(t)
                          \/ AnswerEmpty(t)
                          \/ End(t)

Spec == Init /\ [][Next]_vars
=============================================================================
