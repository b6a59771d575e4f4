----------------------------- MODULE ThreadPool ------------------------------
(***************************************************************************)
(* LCThreadPool (include/lc_thread_pool.h): submit and wait_and_submit,    *)
(* the workers with their weighted round robin, the watchdog that replaces *)
(* workers whose heartbeat is late, and shutdown.                          *)
(*                                                                         *)
(* The task queue is taken at the contract of PriorityQueue and FifoQueue: *)
(* an item can be taken as soon as it is in, size_ follows one step late,  *)
(* and dequeue may answer false while size_ is 0 or the producer of the    *)
(* oldest item is not done; its look at size_ and its taking an item, two  *)
(* steps there, are one here.  Every wait of the code has a time-out and   *)
(* looks again at what it waits for, so a notification changes only how    *)
(* soon a thread goes on, and is no action.  The model begins when the     *)
(* constructor has ended.                                                  *)
(***************************************************************************)
EXTENDS Integers, Sequences, FiniteSets

CONSTANTS
    Client,         \* the threads that submit tasks
    Worker,         \* the indices of threads_
    Task,           \* the contexts that are submitted, each at most once
    NumPriorities,  \* NUM_PRIORITIES
    PriorityOf,     \* metadata.priority: [Task -> Priority]
    Weight,         \* LCPriorityWeights: [Priority -> weight]
    Capacity,       \* the size of each priority's queue
    MaxThrows,      \* bound: tasks that end with an exception
    NoTask          \* what a thread without a task has

Priority == 0 .. NumPriorities - 1

ASSUME NumPrioritiesAssumption == NumPriorities \in Nat \ {0}
ASSUME WorkerAssumption == /\ IsFiniteSet(Worker) /\ Worker # {}
                           /\ Worker = 1 .. Cardinality(Worker)
ASSUME WeightAssumption == Weight \in [Priority -> Nat \ {0}]
ASSUME PriorityOfAssumption == PriorityOf \in [Task -> Priority]
ASSUME CapacityAssumption == Capacity \in Nat \ {0}
ASSUME MaxThrowsAssumption == MaxThrows \in Nat
ASSUME NoTaskAssumption == NoTask \notin Task

VARIABLES
    queue,     \* task_queue_: the tasks of each priority, oldest first
    size,      \* its size_
    stop,      \* stop_
    call,      \* per client: where it stands, and its task
    owner,     \* mutex_ is held by a client inside submit_task's enqueue
    pc,        \* where each worker stands
    task,      \* its context
    weights,   \* its scheduler's weights_
    cursor,    \* its scheduler's current_index_
    attempt,   \* the loop variable of try_schedule, 0 outside it
    late,      \* its heartbeat is older than the watchdog's time-out
    cancel,    \* cancel_tokens_
    joinable,  \* threads_[w].joinable()
    dog,       \* where the watchdog stands, and the index it is at
    close,     \* where the thread in shutdown stands, and its index
    ended,     \* the tasks that have been run or dropped (history)
    throws     \* how many of them threw

queueVars == << queue, size >>
scanVars == << weights, cursor, attempt >>
workerVars == << pc, task, scanVars, late, throws >>
threadVars == << cancel, joinable >>
vars == << queueVars, stop, call, owner, workerVars, threadVars, dog, close,
           ended >>

Idle == [at |-> "idle", task |-> NoTask]
Watch(place, w) == [at |-> place, w |-> w]

Init == /\ queue = [p \in Priority |-> << >>]
        /\ size = 0
        /\ stop = FALSE
        /\ call = [c \in Client |-> Idle]
        /\ owner = {}
        /\ pc = [w \in Worker |-> "top"]
        /\ task = [w \in Worker |-> NoTask]
        /\ weights = [w \in Worker |-> Weight]
        /\ cursor = [w \in Worker |-> 0]
        /\ attempt = [w \in Worker |-> 0]
        /\ late = [w \in Worker |-> FALSE]
        /\ cancel = [w \in Worker |-> FALSE]
        /\ joinable = [w \in Worker |-> TRUE]
        /\ dog = Watch("loop", 1)
        /\ close = Watch("idle", 1)
        /\ ended = {}
        /\ throws = 0

Goto(w, place) == pc' = [pc EXCEPT ![w] = place]

MutexFree == owner = {}

-----------------------------------------------------------------------------
(* wait_and_submit_task: try again until the task is in or the pool is     *)
(* stopped.                                                                *)
Submitted(x) == \/ x \in ended
                \/ \E w \in Worker : task[w] = x
                \/ \E c \in Client : call[c].task = x
                \/ \E p \in Priority : \E i \in 1 .. Len(queue[p]) : queue[p][i] = x

CallSubmit(c) ==
    /\ call[c].at = "idle"
    /\ \E x \in Task :
         /\ ~Submitted(x)
         /\ call' = [call EXCEPT ![c] = [at |-> "check", task |-> x]]
    /\ UNCHANGED << queueVars, stop, owner, workerVars, threadVars, dog, close, ended >>

CheckStopped(c) ==
    /\ call[c].at = "check"
    /\ call' = IF stop THEN [call EXCEPT ![c] = Idle]
                       ELSE [call EXCEPT ![c].at = "submit"]
    /\ UNCHANGED << queueVars, stop, owner, workerVars, threadVars, dog, close, ended >>

(* submit_task, under mutex_: stopped, or the queue is full ...            *)
Full(p) == \/ Len(queue[p]) = Capacity
           \/ \E w \in Worker : pc[w] = "uncount" /\ cursor[w] = p

(* (Slip: stop_ is not looked at again under the mutex.) *)
OpenAnyway == TRUE
Open == ~stop

SubmitFails(c) ==
    /\ call[c].at = "submit"
    /\ MutexFree
    /\ ~Open \/ Full(PriorityOf[call[c].task])
    /\ call' = [call EXCEPT ![c].at = "check"]
    /\ UNCHANGED << queueVars, stop, owner, workerVars, threadVars, dog, close, ended >>

(* ... or the task goes in, and is then counted. *)
SubmitPuts(c) ==
    LET p == PriorityOf[call[c].task] IN
    /\ call[c].at = "submit"
    /\ MutexFree
    /\ Open
    /\ Len(queue[p]) < Capacity
    /\ queue' = [queue EXCEPT ![p] = Append(@, call[c].task)]
    /\ owner' = {c}
    /\ call' = [call EXCEPT ![c].at = "count"]
    /\ UNCHANGED << size, stop, workerVars, threadVars, dog, close, ended >>

SubmitCounts(c) ==
    /\ call[c].at = "count"
    /\ size' = size + 1
    /\ owner' = {}
    /\ call' = [call EXCEPT ![c] = Idle]
    /\ UNCHANGED << queue, stop, workerVars, threadVars, dog, close, ended >>

-----------------------------------------------------------------------------
(* worker_pool: the cancel token, then the wait, which takes mutex_.       *)
Top(w) ==
    /\ pc[w] = "top"
    /\ Goto(w, IF cancel[w] THEN "exited" ELSE "wait")
    /\ UNCHANGED << queueVars, stop, call, owner, task, scanVars, late, throws,
                    threadVars, dog, close, ended >>

Wait(w) ==
    /\ pc[w] = "wait"
    /\ MutexFree
    /\ Goto(w, "scan")
    /\ UNCHANGED << queueVars, stop, call, owner, task, scanVars, late, throws,
                    threadVars, dog, close, ended >>

(* try_schedule, one turn of its loop: a task is taken ...                 *)
TakeTask(w) ==
    LET p == cursor[w] IN
    /\ pc[w] = "scan"
    /\ weights[w][p] > 0
    /\ size # 0
    /\ queue[p] # << >>
    /\ queue' = [queue EXCEPT ![p] = Tail(@)]
    /\ task' = [task EXCEPT ![w] = Head(queue[p])]
    /\ weights' = [weights EXCEPT ![w][p] = @ - 1]
    /\ attempt' = [attempt EXCEPT ![w] = 0]
    /\ Goto(w, "uncount")
    /\ UNCHANGED << size, stop, call, owner, cursor, late, throws,
                    threadVars, dog, close, ended >>

(* ... or the priority has no weight left, or no task to give.  After the  *)
(* last turn there are new weights, if every weight is used up.            *)
Fresh(p) == \E c \in Client : call[c].at = "count" /\ queue[p] # << >>
                                 /\ Head(queue[p]) = call[c].task

Refilled(ws) == IF \A p \in Priority : ws[p] = 0 THEN Weight ELSE ws

NothingFor(w) == LET p == cursor[w] IN
                 weights[w][p] = 0 \/ size = 0 \/ queue[p] = << >> \/ Fresh(p)

Advance(w, place) ==
    /\ pc[w] = "scan"
    /\ NothingFor(w)
    /\ cursor' = [cursor EXCEPT ![w] = (@ + 1) % NumPriorities]
    /\ Goto(w, place)
    /\ UNCHANGED << queueVars, stop, call, owner, task, late, throws,
                    threadVars, dog, close, ended >>

TryNext(w) ==
    /\ attempt[w] + 1 < NumPriorities
    /\ Advance(w, "scan")
    /\ attempt' = [attempt EXCEPT ![w] = @ + 1]
    /\ UNCHANGED weights

GiveUp(w) ==
    /\ attempt[w] + 1 = NumPriorities
    /\ Advance(w, "test")
    /\ attempt' = [attempt EXCEPT ![w] = 0]
    /\ weights' = [weights EXCEPT ![w] = Refilled(@)]

(* The end of dequeue, the heartbeat, and the task's own cancel token, which *)
(* is its owner's and may be set at any time: the task is run or dropped.  *)
Uncount(w) == /\ pc[w] = "uncount"
              /\ size' = size - 1
              /\ late' = [late EXCEPT ![w] = FALSE]
              /\ UNCHANGED << queue, stop, call, owner, scanVars, throws,
                              threadVars, dog, close >>

Run(w) == /\ Uncount(w)
          /\ Goto(w, "run")
          /\ UNCHANGED << task, ended >>

Leave(w, place) == /\ Goto(w, place)
                   /\ task' = [task EXCEPT ![w] = NoTask]
                   /\ ended' = ended \cup {task[w]}

Drop(w) == Uncount(w) /\ Leave(w, "top")

EndRun(w, place) == /\ pc[w] = "run"
                    /\ Leave(w, place)
                    /\ UNCHANGED << queueVars, stop, call, owner, scanVars, late,
                                    threadVars, dog, close >>

Finish(w) == EndRun(w, "top") /\ UNCHANGED throws

(* An exception leaves worker_pool and ends in safe_launch_function.       *)
Throw(w) == /\ throws < MaxThrows
            /\ throws' = throws + 1
            /\ EndRun(w, "exited")

(* stop_ && task_queue_.is_empty().  (Slip: stop_ alone.) *)
StopSeen == stop
MayLeave == stop /\ size = 0

Test(w) ==
    /\ pc[w] = "test"
    /\ Goto(w, IF MayLeave THEN "exited" ELSE "top")
    /\ UNCHANGED << queueVars, stop, call, owner, task, scanVars, late, throws,
                    threadVars, dog, close, ended >>

(* Time passes: a worker is late that found no task, is in a long task or  *)
(* has ended.  (A turn of the loop takes milliseconds and the time-out is  *)
(* ten seconds: none is late before it has looked for a task once.)        *)
GrowsLate(w) ==
    /\ pc[w] \in {"test", "run", "exited"}
    /\ ~late[w]
    /\ late' = [late EXCEPT ![w] = TRUE]
    /\ UNCHANGED << queueVars, stop, call, owner, pc, task, scanVars, throws,
                    threadVars, dog, close, ended >>

-----------------------------------------------------------------------------
(* (Slip: one index too many.) *)
PastLastWorker(w) == w > Cardinality(Worker)
LastWorker(w) == w = Cardinality(Worker)
NextWorker(w, place, done) ==
    IF LastWorker(w) THEN Watch(done, 1) ELSE Watch(place, w + 1)

(* watchdog_loop: wait, then look at every heartbeat, stopped or not.      *)
(* (Slip: it leaves when the shutdown is over.) *)
ShutdownOver == close.at = "returned"
DogMayLeave == stop

DogLoop ==
    /\ dog.at = "loop"
    /\ dog' = Watch(IF DogMayLeave THEN "exited" ELSE "look", 1)
    /\ UNCHANGED << queueVars, stop, call, owner, workerVars, threadVars, close, ended >>

DogPasses ==
    /\ dog.at = "look"
    /\ ~late[dog.w]
    /\ dog' = NextWorker(dog.w, "look", "loop")
    /\ UNCHANGED << queueVars, stop, call, owner, workerVars, threadVars, close, ended >>

(* A late worker is told to leave and waited for.  The second of two       *)
(* concurrent joins of one thread fails, with an exception that ends the   *)
(* watchdog.                                                               *)
InShutdownJoin(w) == close = Watch("joining", w)
InWatchdogJoin(w) == dog = Watch("joining", w)

DogCancels ==
    /\ dog.at = "look"
    /\ late[dog.w]
    /\ cancel' = [cancel EXCEPT ![dog.w] = TRUE]
    /\ dog' = IF ~joinable[dog.w] THEN [dog EXCEPT !.at = "restart"]
              ELSE IF InShutdownJoin(dog.w) THEN Watch("exited", 1)
              ELSE [dog EXCEPT !.at = "joining"]
    /\ UNCHANGED << queueVars, stop, call, owner, workerVars, joinable, close, ended >>

DogJoins ==
    /\ dog.at = "joining"
    /\ pc[dog.w] = "exited"
    /\ joinable' = [joinable EXCEPT ![dog.w] = FALSE]
    /\ dog' = [dog EXCEPT !.at = "restart"]
    /\ UNCHANGED << queueVars, stop, call, owner, workerVars, cancel, close, ended >>

(* (Slip: the token stays set.) *)
StillCancelled(w) == cancel
Uncancelled(w) == [cancel EXCEPT ![w] = FALSE]

DogRestarts ==
    LET w == dog.w IN
    /\ dog.at = "restart"
    /\ cancel' = Uncancelled(w)
    /\ late' = [late EXCEPT ![w] = FALSE]
    /\ joinable' = [joinable EXCEPT ![w] = TRUE]
    /\ Goto(w, "top")
    /\ weights' = [weights EXCEPT ![w] = Weight]
    /\ cursor' = [cursor EXCEPT ![w] = 0]
    /\ attempt' = [attempt EXCEPT ![w] = 0]
    /\ dog' = NextWorker(w, "look", "loop")
    /\ UNCHANGED << queueVars, stop, call, owner, task, throws, close, ended >>

-----------------------------------------------------------------------------
(* shutdown: close the door, wait for the queue, join.                     *)
BeginShutdown ==
    /\ close.at = "idle"
    /\ MutexFree
    /\ stop' = TRUE
    /\ close' = Watch("drain", 1)
    /\ UNCHANGED << queueVars, call, owner, workerVars, threadVars, dog, ended >>

Drained == size = 0

EndDrain ==
    /\ close.at = "drain"
    /\ Drained
    /\ close' = Watch("join", 1)
    /\ UNCHANGED << queueVars, stop, call, owner, workerVars, threadVars, dog, ended >>

BeginJoin ==
    LET w == close.w IN
    /\ close.at = "join"
    /\ close' = IF ~joinable[w] THEN NextWorker(w, "join", "join watchdog")
                ELSE IF InWatchdogJoin(w) THEN Watch("failed", 1)
                ELSE Watch("joining", w)
    /\ UNCHANGED << queueVars, stop, call, owner, workerVars, threadVars, dog, ended >>

EndJoin ==
    LET w == close.w IN
    /\ close.at = "joining"
    /\ pc[w] = "exited"
    /\ joinable' = [joinable EXCEPT ![w] = FALSE]
    /\ close' = NextWorker(w, "join", "join watchdog")
    /\ UNCHANGED << queueVars, stop, call, owner, workerVars, cancel, dog, ended >>

JoinWatchdog ==
    /\ close.at = "join watchdog"
    /\ dog.at = "exited"
    /\ close' = Watch("returned", 1)
    /\ UNCHANGED << queueVars, stop, call, owner, workerVars, threadVars, dog, ended >>

-----------------------------------------------------------------------------
Submit(c) == CheckStopped(c) \/ SubmitFails(c) \/ SubmitPuts(c) \/ SubmitCounts(c)

Work(w) == \/ Top(w)
           \/ Wait(w)
           \/ TakeTask(w)
           \/ TryNext(w)
           \/ GiveUp(w)
           \/ Run(w)
           \/ Drop(w)
           \/ Finish(w)
           \/ Throw(w)
           \/ Test(w)

Watchdog == DogLoop \/ DogPasses \/ DogCancels \/ DogJoins \/ DogRestarts

Shutdown == EndDrain \/ BeginJoin \/ EndJoin \/ JoinWatchdog

Next == \/ \E c \in Client : CallSubmit(c) \/ Submit(c)
        \/ \E w \in Worker : Work(w) \/ GrowsLate(w)
        \/ Watchdog
        \/ BeginShutdown
        \/ Shutdown

Spec == Init /\ [][Next]_vars

(* Every thread runs, every task ends, and a worker that does nothing      *)
(* grows late.  The size_ a worker sees is not wrong for ever.             *)
FairSpec == /\ Spec
            /\ \A c \in Client : WF_vars(Submit(c))
            /\ \A w \in Worker : /\ WF_vars(Work(w))
                                 /\ WF_vars(GrowsLate(w))
            /\ WF_vars(Watchdog)
            /\ WF_vars(Shutdown)

-----------------------------------------------------------------------------
WorkerPC == {"top", "wait", "scan", "uncount", "run", "test", "exited"}

TypeOK ==
    /\ queue \in [Priority -> Seq(Task)]
    /\ size \in Int
    /\ stop \in BOOLEAN
    /\ call \in [Client -> [at : {"idle", "check", "submit", "count"},
                            task : Task \cup {NoTask}]]
    /\ owner \subseteq Client
    /\ pc \in [Worker -> WorkerPC]
    /\ task \in [Worker -> Task \cup {NoTask}]
    /\ weights \in [Worker -> [Priority -> Nat]]
    /\ \A w \in Worker, p \in Priority : weights[w][p] <= Weight[p]
    /\ cursor \in [Worker -> Priority]
    /\ attempt \in [Worker -> 0 .. NumPriorities - 1]
    /\ late \in [Worker -> BOOLEAN]
    /\ cancel \in [Worker -> BOOLEAN]
    /\ joinable \in [Worker -> BOOLEAN]
    /\ dog \in [at : {"loop", "look", "joining", "restart", "exited"}, w : Worker]
    /\ close \in [at : {"idle", "drain", "join", "joining", "join watchdog",
                        "returned", "failed"}, w : Worker]
    /\ ended \subseteq Task
    /\ throws \in 0 .. MaxThrows

(* Where a task stands, in terms of TaskService. *)
InQueue(x) == \E p \in Priority : \E i \in 1 .. Len(queue[p]) : queue[p][i] = x

Stage(x) == IF x \in ended THEN "ended"
            ELSE IF \E w \in Worker : task[w] = x /\ pc[w] = "run" THEN "running"
            ELSE IF (\E w \in Worker : task[w] = x) \/ InQueue(x) THEN "waiting"
            ELSE "new"

Door == IF close.at = "idle" THEN "open"
        ELSE IF close.at = "returned" THEN "closed" ELSE "closing"

Service == INSTANCE TaskService WITH
    state <- [x \in Task |-> Stage(x)],
    door  <- Door

(* Accepted tasks are run once or dropped, none is accepted once shutdown  *)
(* has begun, and none is left or running when it returns: whatever the    *)
(* workers, the watchdog and late submissions do meanwhile.                *)
ImplementsService == Service!Spec

(* An accepted task does not wait for ever ("Notify one thread to wake up  *)
(* and process the task", line 266).                                       *)
AcceptedTasksEnd == \A x \in Task : Stage(x) = "waiting" ~> Stage(x) = "ended"

(* shutdown ends: it returns, or fails on a thread the watchdog is joining.*)
ShutdownEnds == stop ~> close.at \in {"returned", "failed"}

(* While the pool runs, a worker that an exception or the watchdog ended   *)
(* looks for tasks again.                                                  *)
WorkersComeBack ==
    \A w \in Worker : pc[w] = "exited" ~> pc[w] = "scan" \/ stop

(* "Wait for all threads to finish" (line 304): after shutdown no thread   *)
(* is left, or std::thread's destructor would end the program.             *)
AllThreadsFinished ==
    close.at = "returned" => \A w \in Worker : ~joinable[w]
=============================================================================
