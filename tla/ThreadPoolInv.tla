---------------------------- MODULE ThreadPoolInv ----------------------------
(***************************************************************************)
(* The inductive invariant behind TaskService: each accepted task is in    *)
(* one place, size_ counts those that wait, and a shutdown that has seen   *)
(* size_ at 0 holds the tasks back for good, join by join.                 *)
(***************************************************************************)
EXTENDS ThreadPool

(* mutex_ is held from a task's entry to its count, by one client. *)
MutexIsHeld == /\ owner = { c \in Client : call[c].at = "count" }
               /\ \A c, d \in owner : c = d

(* A shutdown sets stop_ while no task is half in. *)
StopIsSet == /\ stop <=> close.at # "idle"
             /\ stop => MutexFree

(* A worker has a task from its dequeue to the task's end. *)
WorkersHoldTasks ==
    \A w \in Worker : task[w] # NoTask <=> pc[w] \in {"uncount", "run"}

(* A task is in one place: once in a queue, or with one worker, or ended,  *)
(* or with one client that still tries to submit it.                       *)
QueuedOnce ==
    \A p, q \in Priority :
        \A i \in 1 .. Len(queue[p]), j \in 1 .. Len(queue[q]) :
            queue[p][i] = queue[q][j] => p = q /\ i = j

TakenOnce ==
    /\ \A w, v \in Worker : task[w] # NoTask /\ task[w] = task[v] => w = v
    /\ \A w \in Worker : task[w] \notin ended /\ ~InQueue(task[w])
    /\ \A x \in ended : ~InQueue(x)

Offers(c) == call[c].at \in {"check", "submit"}

OfferedOnce ==
    /\ \A c \in Client : Offers(c) => /\ call[c].task \in Task
                                       /\ Stage(call[c].task) = "new"
    /\ \A c, d \in Client :
          Offers(c) /\ Offers(d) /\ call[c].task = call[d].task => c = d

OnePlace == WorkersHoldTasks /\ QueuedOnce /\ TakenOnce /\ OfferedOnce

(* size_ is the number of the tasks that wait, in a queue or with a worker *)
(* that has not counted it out, but for one that is not counted yet.       *)
Waiting == { x \in Task : Stage(x) = "waiting" }

SizeCounts == /\ IsFiniteSet(Waiting)
              /\ size = Cardinality(Waiting) - Cardinality(owner)

(* A joined thread has ended, and the watchdog replaces only such.         *)
JoinedHaveEnded ==
    /\ \A w \in Worker : ~joinable[w] => pc[w] = "exited"
    /\ dog.at = "restart" => ~joinable[dog.w]

(* Behind the drain nothing waits; behind its join a worker runs nothing.  *)
ShutdownInv ==
    /\ close.at \notin {"idle", "drain"} => Waiting = {}
    /\ \A w \in Worker :
          \/ close.at \in {"join", "joining"} /\ w < close.w
          \/ close.at \in {"join watchdog", "returned"}
          => pc[w] # "run"

IInv == /\ TypeOK /\ MutexIsHeld /\ StopIsSet /\ OnePlace /\ SizeCounts
        /\ JoinedHaveEnded /\ ShutdownInv
=============================================================================
