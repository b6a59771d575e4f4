----------------------------- MODULE TaskService -----------------------------
(***************************************************************************)
(* What the thread pool of include/lc_thread_pool.h promises to those who  *)
(* submit tasks: an accepted task is run once, or dropped if it was        *)
(* cancelled; nothing is accepted once a shutdown has begun; and when the  *)
(* shutdown has returned, no accepted task is still to be run or running.  *)
(***************************************************************************)
CONSTANT Task

VARIABLES
    state,  \* state[x]: "new", "waiting", "running" or "ended"
    door    \* "open", "closing" (a shutdown has begun) or "closed"

vars == << state, door >>

Init == /\ state = [x \in Task |-> "new"]
        /\ door = "open"

Move(x, from, to) == /\ state[x] = from
                     /\ state' = [state EXCEPT ![x] = to]
                     /\ UNCHANGED door

Accept(x) == door = "open" /\ Move(x, "new", "waiting")
Start(x) == Move(x, "waiting", "running")
Drop(x) == Move(x, "waiting", "ended")
End(x) == Move(x, "running", "ended")

BeginClose == /\ door = "open"
              /\ door' = "closing"
              /\ UNCHANGED state

EndClose == /\ door = "closing"
            /\ \A x \in Task : state[x] \in {"new", "ended"}
            /\ door' = "closed"
            /\ UNCHANGED state

Next == \/ \E x \in Task : Accept(x) \/ Start(x) \/ Drop(x) \/ End(x)
        \/ BeginClose
        \/ EndClose

Spec == Init /\ [][Next]_vars
=============================================================================
