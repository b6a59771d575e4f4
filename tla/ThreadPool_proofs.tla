-------------------------- MODULE ThreadPool_proofs --------------------------
(***************************************************************************)
(* ThreadPool implements TaskService, for any clients, workers, tasks,     *)
(* priorities, weights and capacities.  The first part follows a task      *)
(* through the queues; the second is the inductive invariant, action by    *)
(* action; the third the refinement.                                       *)
(***************************************************************************)
EXTENDS ThreadPoolInv, FiniteSetTheorems, TLAPS

LEMMA WorkerRange == /\ Cardinality(Worker) \in Nat
                     /\ Worker = 1 .. Cardinality(Worker)
                     /\ 1 \in Worker
<1>1. Cardinality(Worker) \in Nat
  BY WorkerAssumption, FS_CardinalityType
<1>2. Cardinality(Worker) # 0
  BY WorkerAssumption, FS_EmptySet
<1>. QED
  BY <1>1, <1>2, WorkerAssumption

LEMMA NextPriority ==
    /\ 0 \in Priority /\ NumPriorities \in Nat
    /\ \A p \in Priority : (p + 1) % NumPriorities \in Priority
  BY NumPrioritiesAssumption DEF Priority

(* Behind a worker that is not the last there is another. *)
LEMMA NextIsWorker == \A w \in Worker : ~LastWorker(w) => w + 1 \in Worker
  BY WorkerRange DEF LastWorker

(* TypeOK in parts, each the concern of some of the actions. *)
TaskType ==
    /\ queue \in [Priority -> Seq(Task)]
    /\ size \in Int
    /\ call \in [Client -> [at : {"idle", "check", "submit", "count"},
                            task : Task \cup {NoTask}]]
    /\ owner \subseteq Client
    /\ ended \subseteq Task

WorkerType ==
    /\ pc \in [Worker -> WorkerPC]
    /\ task \in [Worker -> Task \cup {NoTask}]
    /\ weights \in [Worker -> [Priority -> Nat]]
    /\ \A w \in Worker, p \in Priority : weights[w][p] <= Weight[p]
    /\ cursor \in [Worker -> Priority]
    /\ attempt \in [Worker -> 0 .. NumPriorities - 1]
    /\ late \in [Worker -> BOOLEAN]
    /\ throws \in 0 .. MaxThrows

ThreadType ==
    /\ cancel \in [Worker -> BOOLEAN]
    /\ joinable \in [Worker -> BOOLEAN]
    /\ dog \in [at : {"loop", "look", "joining", "restart", "exited"}, w : Worker]
    /\ close \in [at : {"idle", "drain", "join", "joining", "join watchdog",
                        "returned", "failed"}, w : Worker]

StopType == stop \in BOOLEAN

LEMMA TypeParts ==
    TypeOK <=> TaskType /\ WorkerType /\ ThreadType /\ StopType
  BY DEF StopType, TypeOK, TaskType, WorkerType, ThreadType

LEMMA TypePartsNext ==
    TypeOK' <=> TaskType' /\ WorkerType' /\ ThreadType' /\ StopType'
  BY TypeParts, PTL

LEMMA InitType == Init => TypeOK
<1>. SUFFICES ASSUME Init PROVE TypeOK
  OBVIOUS
<1>1. WorkerType
  BY NextPriority, WeightAssumption, MaxThrowsAssumption, NumPrioritiesAssumption
     DEF Init, WorkerType, WorkerPC, Priority
<1>2. ThreadType
  BY WorkerRange DEF Init, Watch, ThreadType
<1>3. TaskType
  BY DEF Init, Idle, TaskType
<1>4. StopType
  BY DEF Init, StopType
<1>. QED
  BY <1>1, <1>2, <1>3, <1>4, TypeParts

(* What a task's entry and its leaving do to a queue. *)
LEMMA Appended ==
    ASSUME NEW s \in Seq(Task), NEW x \in Task
    PROVE  /\ Append(s, x) \in Seq(Task) /\ Len(Append(s, x)) = Len(s) + 1
           /\ \A i \in 1 .. Len(s) : Append(s, x)[i] = s[i]
           /\ Append(s, x)[Len(s) + 1] = x
  OBVIOUS

LEMMA Shortened ==
    ASSUME NEW s \in Seq(Task), s # << >>
    PROVE  /\ Tail(s) \in Seq(Task) /\ Len(Tail(s)) = Len(s) - 1
           /\ Len(s) \in Nat /\ 1 \in 1 .. Len(s)
           /\ \A i \in 1 .. Len(s) - 1 : Tail(s)[i] = s[i + 1]
           /\ Head(s) = s[1] /\ Head(s) \in Task
  OBVIOUS

LEMMA SubmitType ==
    ASSUME TypeOK, OfferedOnce, NEW c \in Client, CallSubmit(c) \/ Submit(c)
    PROVE  TypeOK'
<1>0. TaskType /\ WorkerType /\ ThreadType /\ StopType
  BY TypeParts
<1>1. UNCHANGED << workerVars, threadVars, dog, close, stop >>
  BY DEF CallSubmit, Submit, CheckStopped, SubmitFails, SubmitPuts, SubmitCounts
<1>2. WorkerType' /\ ThreadType' /\ StopType'
  BY <1>0, <1>1 DEF WorkerType, ThreadType, StopType, workerVars, scanVars, threadVars
<1>. SUFFICES TaskType'
  BY <1>2, TypePartsNext
<1>3. CASE CallSubmit(c)
  BY <1>0, <1>3 DEF TaskType, CallSubmit, queueVars
<1>4. CASE CheckStopped(c)
  BY <1>0, <1>4 DEF TaskType, CheckStopped, Idle, queueVars
<1>5. CASE SubmitFails(c)
  BY <1>0, <1>5 DEF TaskType, SubmitFails, queueVars
<1>6. CASE SubmitPuts(c)
  <2>. DEFINE x == call[c].task
              p == PriorityOf[x]
  <2>1. x \in Task
    BY <1>6 DEF SubmitPuts, OfferedOnce, Offers
  <2>2. p \in Priority /\ queue[p] \in Seq(Task)
    BY <1>0, <2>1, PriorityOfAssumption DEF TaskType
  <2>3. Append(queue[p], x) \in Seq(Task)
    BY <2>1, <2>2, Appended
  <2>4. queue' \in [Priority -> Seq(Task)]
    BY <1>0, <1>6, <2>2, <2>3 DEF TaskType, SubmitPuts
  <2>5. owner' \subseteq Client /\ UNCHANGED << size, ended >>
        /\ call' \in [Client -> [at : {"idle", "check", "submit", "count"},
                                 task : Task \cup {NoTask}]]
    BY <1>0, <1>6 DEF TaskType, SubmitPuts
  <2>. QED
    BY <1>0, <2>4, <2>5 DEF TaskType
<1>7. CASE SubmitCounts(c)
  BY <1>0, <1>7 DEF TaskType, SubmitCounts, Idle
<1>. QED
  BY <1>3, <1>4, <1>5, <1>6, <1>7 DEF Submit

LEMMA WorkType ==
    ASSUME TypeOK, WorkersHoldTasks, NEW w \in Worker, Work(w) \/ GrowsLate(w)
    PROVE  TypeOK'
<1>0. TaskType /\ WorkerType /\ ThreadType /\ StopType
  BY TypeParts
<1>1. UNCHANGED << stop, call, owner, threadVars, dog, close >>
  BY DEF Work, GrowsLate, Top, Wait, TakeTask, TryNext, GiveUp, Advance, Run,
         Drop, Uncount, Finish, Throw, EndRun, Test
<1>2. ThreadType' /\ StopType'
  BY <1>0, <1>1 DEF ThreadType, StopType, threadVars
<1>. SUFFICES TaskType' /\ WorkerType'
  BY <1>2, TypePartsNext
<1>3. cursor[w] \in Priority /\ weights[w] \in [Priority -> Nat]
  BY <1>0 DEF WorkerType
<1>4. CASE Top(w) \/ Wait(w) \/ Test(w) \/ GrowsLate(w)
  <2>1. UNCHANGED << queueVars, ended >> /\ UNCHANGED << task, scanVars, throws >>
        /\ pc' \in [Worker -> WorkerPC] /\ late' \in [Worker -> BOOLEAN]
    BY <1>0, <1>4 DEF Top, Wait, Test, GrowsLate, Goto, WorkerType, WorkerPC
  <2>2. TaskType'
    BY <1>0, <1>1, <2>1 DEF TaskType, queueVars
  <2>3. WorkerType'
    BY <1>0, <2>1 DEF WorkerType, scanVars
  <2>. QED
    BY <2>2, <2>3
<1>5. CASE TakeTask(w)
  <2>. DEFINE p == cursor[w]
  <2>1. /\ queue[p] \in Seq(Task) /\ queue[p] # << >> /\ weights[w][p] > 0
        /\ queue' = [queue EXCEPT ![p] = Tail(@)]
        /\ task' = [task EXCEPT ![w] = Head(queue[p])]
        /\ weights' = [weights EXCEPT ![w][p] = @ - 1]
        /\ attempt' = [attempt EXCEPT ![w] = 0]
        /\ pc' = [pc EXCEPT ![w] = "uncount"]
        /\ UNCHANGED << size, cursor, late, throws, ended >>
    BY <1>0, <1>3, <1>5 DEF TakeTask, Goto, TaskType
  <2>2. Tail(queue[p]) \in Seq(Task) /\ Head(queue[p]) \in Task
    BY <2>1, Shortened
  <2>3. TaskType'
    BY <1>0, <1>1, <2>1, <2>2 DEF TaskType
  <2>4. weights' = [weights EXCEPT ![w] = [weights[w] EXCEPT ![p] = weights[w][p] - 1]]
    BY <1>0, <1>3, <2>1 DEF WorkerType
  <2>5. [weights[w] EXCEPT ![p] = weights[w][p] - 1] \in [Priority -> Nat]
    BY <1>3, <2>1
  <2>6. \A q \in Priority : [weights[w] EXCEPT ![p] = weights[w][p] - 1][q] <= Weight[q]
    BY <1>0, <1>3, <2>1, WeightAssumption DEF WorkerType
  <2>7. /\ weights' \in [Worker -> [Priority -> Nat]]
        /\ \A v \in Worker, q \in Priority : weights'[v][q] <= Weight[q]
    BY <1>0, <2>4, <2>5, <2>6 DEF WorkerType
  <2>8. WorkerType'
    BY <1>0, <2>1, <2>2, <2>7, NumPrioritiesAssumption DEF WorkerType, WorkerPC
  <2>. QED
    BY <2>3, <2>8
<1>6. CASE TryNext(w)
  <2>1. TaskType'
    BY <1>0, <1>1, <1>6 DEF TaskType, TryNext, Advance, queueVars
  <2>2. attempt[w] + 1 \in 0 .. NumPriorities - 1
    BY <1>0, <1>6, NumPrioritiesAssumption DEF TryNext, WorkerType
  <2>3. (cursor[w] + 1) % NumPriorities \in Priority
    BY <1>3, NextPriority
  <2>4. WorkerType'
    BY <1>0, <1>6, <2>2, <2>3 DEF TryNext, Advance, Goto, WorkerType, WorkerPC
  <2>. QED
    BY <2>1, <2>4
<1>7. CASE GiveUp(w)
  <2>1. TaskType'
    BY <1>0, <1>1, <1>7 DEF TaskType, GiveUp, Advance, queueVars
  <2>2. (cursor[w] + 1) % NumPriorities \in Priority
    BY <1>3, NextPriority
  <2>3. /\ Refilled(weights[w]) \in [Priority -> Nat]
        /\ \A p \in Priority : Refilled(weights[w])[p] <= Weight[p]
    BY <1>0, <1>3, WeightAssumption DEF Refilled, WorkerType
  <2>4. WorkerType'
    BY <1>0, <1>7, <2>2, <2>3, NumPrioritiesAssumption
       DEF GiveUp, Advance, Goto, WorkerType, WorkerPC
  <2>. QED
    BY <2>1, <2>4
<1>8. CASE Run(w)
  <2>1. TaskType'
    BY <1>0, <1>1, <1>8 DEF TaskType, Run, Uncount
  <2>2. WorkerType'
    BY <1>0, <1>8 DEF Run, Uncount, Goto, WorkerType, WorkerPC, scanVars
  <2>. QED
    BY <2>1, <2>2
<1>9. CASE Drop(w)
  <2>1. task[w] \in Task
    BY <1>0, <1>9 DEF WorkersHoldTasks, Drop, Uncount, WorkerType
  <2>2. TaskType'
    BY <1>0, <1>1, <1>9, <2>1 DEF TaskType, Drop, Uncount, Leave
  <2>3. WorkerType'
    BY <1>0, <1>9 DEF Drop, Uncount, Leave, Goto, WorkerType, WorkerPC, scanVars
  <2>. QED
    BY <2>2, <2>3
<1>10. CASE Finish(w) \/ Throw(w)
  <2>1. task[w] \in Task
    BY <1>0, <1>10 DEF WorkersHoldTasks, Finish, Throw, EndRun, WorkerType
  <2>2. TaskType'
    BY <1>0, <1>1, <1>10, <2>1 DEF TaskType, Finish, Throw, EndRun, Leave, queueVars
  <2>3. throws' \in 0 .. MaxThrows
    BY <1>0, <1>10, MaxThrowsAssumption DEF Finish, Throw, WorkerType
  <2>4. WorkerType'
    BY <1>0, <1>10, <2>3
       DEF Finish, Throw, EndRun, Leave, Goto, WorkerType, WorkerPC, scanVars
  <2>. QED
    BY <2>2, <2>4
<1>. QED
  BY <1>4, <1>5, <1>6, <1>7, <1>8, <1>9, <1>10 DEF Work

LEMMA WatchType ==
    ASSUME TypeOK, Watchdog \/ BeginShutdown \/ Shutdown
    PROVE  TypeOK'
<1>0. TaskType /\ WorkerType /\ ThreadType /\ StopType
  BY TypeParts
<1>1. UNCHANGED << queueVars, call, owner, ended, throws, task >>
  BY DEF Watchdog, DogLoop, DogPasses, DogCancels, DogJoins, DogRestarts,
         BeginShutdown, Shutdown, EndDrain, BeginJoin, EndJoin, JoinWatchdog,
         workerVars
<1>2. TaskType'
  BY <1>0, <1>1 DEF TaskType, queueVars
<1>. SUFFICES WorkerType' /\ ThreadType' /\ StopType'
  BY <1>2, TypePartsNext
<1>3. dog.w \in Worker /\ close.w \in Worker
  BY <1>0 DEF ThreadType
<1>4. CASE DogRestarts
  <2>1. StopType'
    BY <1>0, <1>4 DEF DogRestarts, StopType
  <2>2. WorkerType'
    BY <1>0, <1>1, <1>3, <1>4, NextPriority, NumPrioritiesAssumption, WeightAssumption
       DEF DogRestarts, Goto, WorkerType, WorkerPC
  <2>3. dog' \in [at : {"loop", "look", "joining", "restart", "exited"}, w : Worker]
    BY <1>3, <1>4, NextIsWorker, WorkerRange DEF DogRestarts, NextWorker, Watch
  <2>4. ThreadType'
    BY <1>0, <1>4, <2>3 DEF DogRestarts, Uncancelled, ThreadType
  <2>. QED
    BY <2>1, <2>2, <2>4
<1>5. CASE DogLoop \/ DogPasses \/ DogCancels \/ DogJoins
  <2>1. StopType'
    BY <1>0, <1>5 DEF DogLoop, DogPasses, DogCancels, DogJoins, StopType
  <2>2. WorkerType'
    BY <1>0, <1>5 DEF DogLoop, DogPasses, DogCancels, DogJoins, WorkerType,
                      workerVars, scanVars
  <2>3. dog' \in [at : {"loop", "look", "joining", "restart", "exited"}, w : Worker]
    <3>1. CASE DogLoop
      BY <3>1, WorkerRange DEF DogLoop, Watch
    <3>2. CASE DogPasses
      BY <1>3, <3>2, NextIsWorker, WorkerRange DEF DogPasses, NextWorker, Watch
    <3>3. CASE DogCancels
      BY <1>0, <1>3, <3>3, WorkerRange DEF DogCancels, Watch, ThreadType
    <3>4. CASE DogJoins
      BY <1>0, <1>3, <3>4 DEF DogJoins, ThreadType
    <3>. QED
      BY <1>5, <3>1, <3>2, <3>3, <3>4
  <2>4. cancel' \in [Worker -> BOOLEAN] /\ joinable' \in [Worker -> BOOLEAN]
    BY <1>0, <1>3, <1>5 DEF DogLoop, DogPasses, DogCancels, DogJoins, ThreadType, threadVars
  <2>5. close' = close
    BY <1>5 DEF DogLoop, DogPasses, DogCancels, DogJoins
  <2>6. ThreadType'
    BY <1>0, <2>3, <2>4, <2>5 DEF ThreadType
  <2>. QED
    BY <2>1, <2>2, <2>6
<1>6. CASE BeginShutdown \/ Shutdown
  <2>1. StopType'
    BY <1>0, <1>6 DEF BeginShutdown, Shutdown, EndDrain, BeginJoin, EndJoin,
                      JoinWatchdog, StopType
  <2>2. WorkerType'
    BY <1>0, <1>6 DEF BeginShutdown, Shutdown, EndDrain, BeginJoin, EndJoin,
                      JoinWatchdog, WorkerType, workerVars, scanVars
  <2>3. close' \in [at : {"idle", "drain", "join", "joining", "join watchdog",
                         "returned", "failed"}, w : Worker]
    <3>1. CASE BeginShutdown
      BY <3>1, WorkerRange DEF BeginShutdown, Watch
    <3>2. CASE EndDrain
      BY <3>2, WorkerRange DEF EndDrain, Watch
    <3>3. CASE BeginJoin
      <4>1. CASE close' = NextWorker(close.w, "join", "join watchdog")
        BY <1>3, <4>1, NextIsWorker, WorkerRange DEF NextWorker, Watch
      <4>2. CASE close' = Watch("failed", 1)
        BY <4>2, WorkerRange DEF Watch
      <4>3. CASE close' = Watch("joining", close.w)
        BY <1>3, <4>3 DEF Watch
      <4>. QED
        BY <3>3, <4>1, <4>2, <4>3 DEF BeginJoin
    <3>4. CASE EndJoin
      BY <1>3, <3>4, NextIsWorker, WorkerRange DEF EndJoin, NextWorker, Watch
    <3>5. CASE JoinWatchdog
      BY <3>5, WorkerRange DEF JoinWatchdog, Watch
    <3>. QED
      BY <1>6, <3>1, <3>2, <3>3, <3>4, <3>5 DEF Shutdown
  <2>4. dog' = dog
    BY <1>6 DEF BeginShutdown, Shutdown, EndDrain, BeginJoin, EndJoin, JoinWatchdog
  <2>5. cancel' \in [Worker -> BOOLEAN] /\ joinable' \in [Worker -> BOOLEAN]
    BY <1>0, <1>3, <1>6 DEF BeginShutdown, Shutdown, EndDrain, BeginJoin, EndJoin,
                            JoinWatchdog, ThreadType, threadVars
  <2>6. ThreadType'
    BY <1>0, <2>3, <2>4, <2>5 DEF ThreadType
  <2>. QED
    BY <2>1, <2>2, <2>6
<1>. QED
  BY <1>4, <1>5, <1>6 DEF Watchdog

LEMMA TypeNext == ASSUME TypeOK, WorkersHoldTasks, OfferedOnce, Next PROVE TypeOK'
  BY SubmitType, WorkType, WatchType DEF Next

-----------------------------------------------------------------------------
(* A task's way: into a queue, out of it, with a worker, ended. *)
LEMMA PutMoves ==
    ASSUME TypeOK, OnePlace, NEW c \in Client, SubmitPuts(c),
           NEW x \in Task, x = call[c].task
    PROVE  /\ \A y : InQueue(y)' <=> InQueue(y) \/ y = x
           /\ QueuedOnce'
<1>. DEFINE p == PriorityOf[x]
<1>1. Stage(x) = "new"
  BY DEF OnePlace, OfferedOnce, Offers, SubmitPuts
<1>2. ~InQueue(x)
  BY <1>1 DEF Stage
<1>3. /\ queue \in [Priority -> Seq(Task)] /\ p \in Priority
      /\ queue' = [queue EXCEPT ![p] = Append(queue[p], x)]
  BY PriorityOfAssumption DEF TypeOK, SubmitPuts
<1>. DEFINE n == Len(queue[p])
            s == queue'[p]
<1>4. /\ n \in Nat /\ Len(s) = n + 1 /\ s[n + 1] = x
      /\ \A i \in 1 .. n : s[i] = queue[p][i]
      /\ \A q \in Priority : q # p => queue'[q] = queue[q]
  <2>1. queue[p] \in Seq(Task) /\ s = Append(queue[p], x)
    BY <1>3
  <2>. HIDE DEF s
  <2>2. n \in Nat /\ Len(s) = n + 1 /\ s[n + 1] = x /\ \A i \in 1 .. n : s[i] = queue[p][i]
    BY <2>1, Appended
  <2>. QED
    BY <1>3, <2>2
<1>. HIDE DEF p, n, s
<1>. DEFINE Old(q, i) == q \in Priority /\ i \in 1 .. Len(queue[q])
            New(q, i) == q \in Priority /\ i \in 1 .. Len(queue'[q])
<1>5. \A q, i : New(q, i) <=> Old(q, i) \/ (q = p /\ i = n + 1)
  BY <1>3, <1>4 DEF n, s
<1>6. \A q, i : Old(q, i) => queue'[q][i] = queue[q][i] /\ queue[q][i] # x
  BY <1>2, <1>3, <1>4 DEF InQueue, n, s
<1>7. queue'[p][n + 1] = x /\ New(p, n + 1)
  BY <1>3, <1>4, <1>5 DEF s
<1>8. ASSUME NEW y PROVE InQueue(y)' <=> InQueue(y) \/ y = x
  <2>1. InQueue(y) <=> \E q, i : Old(q, i) /\ queue[q][i] = y
    BY DEF InQueue
  <2>2. InQueue(y)' <=> \E q, i : New(q, i) /\ queue'[q][i] = y
    BY DEF InQueue
  <2>. HIDE DEF Old, New
  <2>. QED
    BY <1>5, <1>6, <1>7, <2>1, <2>2
<1>9. QueuedOnce'
  <2>1. \A q, r, i, j : Old(q, i) /\ Old(r, j) /\ queue[q][i] = queue[r][j]
                          => q = r /\ i = j
    BY DEF OnePlace, QueuedOnce
  <2>2. \A q, r, i, j : New(q, i) /\ New(r, j) /\ queue'[q][i] = queue'[r][j]
                          => q = r /\ i = j
    <3>. HIDE DEF Old, New
    <3>. QED
      BY <1>5, <1>6, <1>7, <2>1
  <2>. QED
    BY <2>2 DEF QueuedOnce
<1>. QED
  BY <1>8, <1>9

LEMMA TakeMoves ==
    ASSUME TypeOK, OnePlace, NEW w \in Worker, TakeTask(w),
           NEW x, x = Head(queue[cursor[w]])
    PROVE  /\ x \in Task /\ InQueue(x)
           /\ \A y : InQueue(y)' <=> InQueue(y) /\ y # x
           /\ QueuedOnce'
<1>. DEFINE p == cursor[w]
            n == Len(queue[p])
<1>1. /\ queue \in [Priority -> Seq(Task)] /\ p \in Priority
      /\ queue[p] # << >> /\ queue' = [queue EXCEPT ![p] = Tail(queue[p])]
  BY DEF TypeOK, TakeTask
<1>2. /\ n \in Nat /\ n >= 1 /\ Len(queue'[p]) = n - 1
      /\ x = queue[p][1] /\ x \in Task
      /\ \A i \in 1 .. n - 1 : queue'[p][i] = queue[p][i + 1]
      /\ \A q \in Priority : q # p => queue'[q] = queue[q]
  <2>1. queue[p] \in Seq(Task) /\ queue'[p] = Tail(queue[p])
    BY <1>1
  <2>. QED
    BY <1>1, <2>1, Shortened
<1>. HIDE DEF p, n
<1>. DEFINE Old(q, i) == q \in Priority /\ i \in 1 .. Len(queue[q])
            New(q, i) == q \in Priority /\ i \in 1 .. Len(queue'[q])
            At(q, i) == IF q = p THEN i + 1 ELSE i
<1>3. \A q, i : New(q, i) => /\ Old(q, At(q, i)) /\ queue'[q][i] = queue[q][At(q, i)]
                             /\ ~(q = p /\ At(q, i) = 1)
  BY <1>1, <1>2 DEF n
<1>4. \A q, i : Old(q, i) /\ ~(q = p /\ i = 1) =>
          \E j : New(q, j) /\ At(q, j) = i
  <2>. SUFFICES ASSUME NEW q, NEW i, Old(q, i), ~(q = p /\ i = 1)
                PROVE  \E j : New(q, j) /\ At(q, j) = i
    OBVIOUS
  <2>1. CASE q = p
    <3>1. i \in 1 .. n /\ i # 1
      BY <2>1 DEF n
    <3>2. i - 1 \in 1 .. n - 1 /\ (i - 1) + 1 = i
      BY <1>2, <3>1
    <3>. WITNESS i - 1
    <3>. QED
      BY <1>1, <1>2, <2>1, <3>2
  <2>2. CASE q # p
    <3>. WITNESS i
    <3>. QED
      BY <1>2, <2>2
  <2>. QED
    BY <2>1, <2>2
<1>5. Old(p, 1) /\ queue[p][1] = x
  BY <1>1, <1>2 DEF n
<1>6. \A q, r, i, j : Old(q, i) /\ Old(r, j) /\ queue[q][i] = queue[r][j]
                        => q = r /\ i = j
  BY DEF OnePlace, QueuedOnce
<1>7. \A q, i, j : New(q, i) /\ New(q, j) /\ At(q, i) = At(q, j) => i = j
  OBVIOUS
<1>8. ASSUME NEW y PROVE InQueue(y)' <=> InQueue(y) /\ y # x
  <2>1. InQueue(y) <=> \E q, i : Old(q, i) /\ queue[q][i] = y
    BY DEF InQueue
  <2>2. InQueue(y)' <=> \E q, i : New(q, i) /\ queue'[q][i] = y
    BY DEF InQueue
  <2>. HIDE DEF Old, New, At
  <2>3. InQueue(y)' => InQueue(y) /\ y # x
    BY <1>3, <1>5, <1>6, <2>1, <2>2
  <2>4. InQueue(y) /\ y # x => InQueue(y)'
    BY <1>3, <1>4, <1>5, <2>1, <2>2
  <2>. QED
    BY <2>3, <2>4
<1>9. QueuedOnce'
  <2>1. \A q, r, i, j : New(q, i) /\ New(r, j) /\ queue'[q][i] = queue'[r][j]
                          => q = r /\ i = j
    <3>. HIDE DEF Old, New, At
    <3>. QED
      BY <1>3, <1>6, <1>7
  <2>. QED
    BY <2>1 DEF QueuedOnce
<1>10. InQueue(x)
  BY <1>5 DEF InQueue
<1>. QED
  BY <1>2, <1>8, <1>9, <1>10

(* Task x comes to stage s, and no other task moves. *)
Becomes(x, s) == \A y \in Task : Stage(y)' = IF y = x THEN s ELSE Stage(y)

AllStay == \A y \in Task : Stage(y)' = Stage(y)

Carries(w) == pc[w] \in {"uncount", "run"}

(* What a worker carries waits, or runs. *)
LEMMA CarriedStage ==
    ASSUME TypeOK, OnePlace, NEW w \in Worker, Carries(w)
    PROVE  /\ task[w] \in Task /\ task[w] \notin ended /\ ~InQueue(task[w])
           /\ \A v \in Worker : task[v] = task[w] => v = w
           /\ Stage(task[w]) = IF pc[w] = "run" THEN "running" ELSE "waiting"
<1>1. task[w] # NoTask /\ task[w] \in Task
  BY DEF OnePlace, WorkersHoldTasks, Carries, TypeOK
<1>2. \A v \in Worker : task[v] = task[w] => v = w
  BY <1>1 DEF OnePlace, TakenOnce
<1>3. task[w] \notin ended /\ ~InQueue(task[w])
  BY DEF OnePlace, TakenOnce
<1>. QED
  BY <1>1, <1>2, <1>3 DEF Stage

(* A step that moves no task, and no worker that carries one. *)
LEMMA StillStages ==
    ASSUME OnePlace, UNCHANGED << queue, task, ended >>,
           \A w \in Worker : \/ pc'[w] = pc[w]
                             \/ ~Carries(w) /\ ~Carries(w)'
    PROVE  AllStay /\ WorkersHoldTasks' /\ QueuedOnce' /\ TakenOnce'
<1>1. \A y : InQueue(y)' <=> InQueue(y)
  BY DEF InQueue
<1>2. \A w \in Worker : (pc'[w] = "run" <=> pc[w] = "run") /\ (Carries(w)' <=> Carries(w))
  BY DEF Carries
<1>3. AllStay
  BY <1>1, <1>2 DEF AllStay, Stage
<1>4. WorkersHoldTasks'
  BY <1>2 DEF OnePlace, WorkersHoldTasks, Carries
<1>5. QueuedOnce'
  BY DEF OnePlace, QueuedOnce
<1>6. TakenOnce'
  BY <1>1 DEF OnePlace, TakenOnce
<1>. QED
  BY <1>3, <1>4, <1>5, <1>6

LEMMA PutStages ==
    ASSUME TypeOK, OnePlace, NEW c \in Client, SubmitPuts(c),
           NEW x, x = call[c].task
    PROVE  /\ x \in Task /\ Stage(x) = "new" /\ Becomes(x, "waiting")
           /\ WorkersHoldTasks' /\ QueuedOnce' /\ TakenOnce'
<1>1. x \in Task /\ Stage(x) = "new"
  BY DEF OnePlace, OfferedOnce, Offers, SubmitPuts
<1>2. x \notin ended /\ \A w \in Worker : task[w] # x
  BY <1>1 DEF Stage
<1>3. (\A y : InQueue(y)' <=> InQueue(y) \/ y = x) /\ QueuedOnce'
  BY <1>1, PutMoves
<1>4. UNCHANGED << task, pc, ended >>
  BY DEF SubmitPuts, workerVars
<1>5. Becomes(x, "waiting")
  BY <1>1, <1>2, <1>3, <1>4 DEF Becomes, Stage
<1>6. WorkersHoldTasks'
  BY <1>4 DEF OnePlace, WorkersHoldTasks
<1>7. TakenOnce'
  BY <1>2, <1>3, <1>4 DEF OnePlace, TakenOnce
<1>. QED
  BY <1>1, <1>3, <1>5, <1>6, <1>7

LEMMA TakeStages ==
    ASSUME TypeOK, OnePlace, NEW w \in Worker, TakeTask(w)
    PROVE  AllStay /\ WorkersHoldTasks' /\ QueuedOnce' /\ TakenOnce'
<1>. PICK x : x = Head(queue[cursor[w]])
  OBVIOUS
<1>1. /\ x \in Task /\ InQueue(x) /\ QueuedOnce'
      /\ \A y : InQueue(y)' <=> InQueue(y) /\ y # x
  BY TakeMoves
<1>2. x \notin ended /\ \A v \in Worker : task[v] # x
  BY <1>1 DEF OnePlace, TakenOnce
<1>3. /\ pc \in [Worker -> WorkerPC] /\ task \in [Worker -> Task \cup {NoTask}]
      /\ pc[w] = "scan" /\ pc' = [pc EXCEPT ![w] = "uncount"]
      /\ task' = [task EXCEPT ![w] = x] /\ ended' = ended
  BY DEF TypeOK, TakeTask, Goto
<1>4. task[w] = NoTask /\ x # NoTask
  BY <1>1, <1>3, NoTaskAssumption DEF OnePlace, WorkersHoldTasks
<1>5. \A y \in Task : (\E v \in Worker : task'[v] = y)
                        <=> (\E v \in Worker : task[v] = y) \/ y = x
  BY <1>3, <1>4, NoTaskAssumption
<1>6. \A y \in Task : (\E v \in Worker : task'[v] = y /\ pc'[v] = "run")
                        <=> (\E v \in Worker : task[v] = y /\ pc[v] = "run")
  BY <1>2, <1>3, <1>4
<1>7. ASSUME NEW y \in Task PROVE Stage(y)' = Stage(y)
  <2>1. CASE y = x
    BY <1>1, <1>2, <1>3, <1>5, <1>6, <2>1 DEF Stage
  <2>2. CASE y # x
    BY <1>1, <1>3, <1>5, <1>6, <2>2 DEF Stage
  <2>. QED
    BY <2>1, <2>2
<1>8. WorkersHoldTasks'
  BY <1>3, <1>4 DEF OnePlace, WorkersHoldTasks
<1>9. TakenOnce'
  <2>1. \A v, u \in Worker : task'[v] # NoTask /\ task'[v] = task'[u] => v = u
    BY <1>2, <1>3 DEF OnePlace, TakenOnce
  <2>2. \A v \in Worker : task'[v] \notin ended /\ ~InQueue(task[v])'
    <3>. SUFFICES ASSUME NEW v \in Worker
                  PROVE  task'[v] \notin ended /\ ~InQueue(task[v])'
      OBVIOUS
    <3>1. \A y : y = task'[v] => y \notin ended /\ ~InQueue(y)'
      BY <1>1, <1>2, <1>3 DEF OnePlace, TakenOnce
    <3>. QED
      BY <3>1
  <2>. QED
    BY <1>1, <1>3, <2>1, <2>2 DEF OnePlace, TakenOnce
<1>. QED
  BY <1>1, <1>7, <1>8, <1>9 DEF AllStay

LEMMA RunStages ==
    ASSUME TypeOK, OnePlace, NEW w \in Worker, Run(w)
    PROVE  /\ task[w] \in Task /\ Stage(task[w]) = "waiting"
           /\ \A x : x = task[w] => Becomes(x, "running")
           /\ WorkersHoldTasks' /\ QueuedOnce' /\ TakenOnce'
<1>1. /\ pc \in [Worker -> WorkerPC] /\ pc[w] = "uncount"
      /\ pc' = [pc EXCEPT ![w] = "run"] /\ UNCHANGED << queue, task, ended >>
  BY DEF TypeOK, Run, Uncount, Goto
<1>2. /\ task[w] \in Task /\ task[w] \notin ended
      /\ \A v \in Worker : task[v] = task[w] => v = w
      /\ Stage(task[w]) = "waiting"
  BY <1>1, CarriedStage DEF Carries
<1>3. \A y : InQueue(y)' <=> InQueue(y)
  BY <1>1 DEF InQueue
<1>4. \A y : (\E v \in Worker : task[v] = y /\ pc'[v] = "run")
                <=> (\E v \in Worker : task[v] = y /\ pc[v] = "run") \/ y = task[w]
  BY <1>1
<1>5. \A x : x = task[w] => Becomes(x, "running")
  BY <1>1, <1>2, <1>3, <1>4 DEF Becomes, Stage
<1>6. WorkersHoldTasks'
  BY <1>1 DEF OnePlace, WorkersHoldTasks
<1>7. QueuedOnce'
  BY <1>1 DEF OnePlace, QueuedOnce
<1>8. TakenOnce'
  BY <1>1, <1>3 DEF OnePlace, TakenOnce
<1>. QED
  BY <1>2, <1>5, <1>6, <1>7, <1>8

(* Dropped, done or thrown: the task has ended. *)
LEMMA LeaveStages ==
    ASSUME TypeOK, OnePlace, NEW w \in Worker, NEW place, Leave(w, place),
           Carries(w), place \in {"top", "exited"}, queue' = queue
    PROVE  /\ task[w] \in Task /\ \A x : x = task[w] => Becomes(x, "ended")
           /\ WorkersHoldTasks' /\ QueuedOnce' /\ TakenOnce'
<1>1. /\ pc \in [Worker -> WorkerPC] /\ task \in [Worker -> Task \cup {NoTask}]
      /\ pc' = [pc EXCEPT ![w] = place] /\ task' = [task EXCEPT ![w] = NoTask]
      /\ ended' = ended \cup {task[w]}
  BY DEF TypeOK, Leave, Goto
<1>2. /\ task[w] \in Task /\ ~InQueue(task[w]) /\ task[w] \notin ended
      /\ \A v \in Worker : task[v] = task[w] => v = w
  BY CarriedStage
<1>3. \A y : InQueue(y)' <=> InQueue(y)
  BY DEF InQueue
<1>4. \A y \in Task : y # task[w] =>
          /\ (\E v \in Worker : task'[v] = y) <=> (\E v \in Worker : task[v] = y)
          /\ (\E v \in Worker : task'[v] = y /\ pc'[v] = "run")
                <=> (\E v \in Worker : task[v] = y /\ pc[v] = "run")
  BY <1>1, NoTaskAssumption
<1>5. ASSUME NEW x, x = task[w] PROVE Becomes(x, "ended")
  BY <1>1, <1>2, <1>3, <1>4, <1>5 DEF Becomes, Stage
<1>6. WorkersHoldTasks'
  BY <1>1 DEF OnePlace, WorkersHoldTasks
<1>7. QueuedOnce'
  BY DEF OnePlace, QueuedOnce
<1>8. TakenOnce'
  <2>1. \A v \in Worker : task'[v] = IF v = w THEN NoTask ELSE task[v]
    BY <1>1
  <2>2. ~InQueue(NoTask) /\ NoTask \notin ended
    <3>1. ASSUME NEW q \in Priority, NEW i \in 1 .. Len(queue[q])
          PROVE  queue[q][i] \in Task
      <4>1. queue[q] \in Seq(Task)
        BY DEF TypeOK
      <4>. QED
        BY <4>1
    <3>. QED
      BY <3>1, NoTaskAssumption DEF InQueue, TypeOK
  <2>3. \A y : y = NoTask => ~InQueue(y)'
    BY <1>3, <2>2
  <2>4. ASSUME NEW v \in Worker
        PROVE  task'[v] \notin ended' /\ ~InQueue(task[v])'
    <3>1. \A y : y = task'[v] => ~InQueue(y)'
      BY <1>3, <2>1, <2>3 DEF OnePlace, TakenOnce
    <3>2. task'[v] \notin ended'
      BY <1>1, <1>2, <2>1, <2>2, NoTaskAssumption DEF OnePlace, TakenOnce
    <3>. QED
      BY <3>1, <3>2
  <2>5. \A v, u \in Worker : task'[v] # NoTask /\ task'[v] = task'[u] => v = u
    BY <2>1 DEF OnePlace, TakenOnce
  <2>6. \A x \in ended' : ~InQueue(x)'
    BY <1>1, <1>2, <1>3 DEF OnePlace, TakenOnce
  <2>. QED
    BY <2>4, <2>5, <2>6 DEF TakenOnce
<1>. QED
  BY <1>2, <1>5, <1>6, <1>7, <1>8

LEMMA WaitingIs ==
    /\ AllStay => Waiting' = Waiting
    /\ \A x \in Task : Becomes(x, "waiting") => Waiting' = Waiting \cup {x}
    /\ \A x \in Task : Becomes(x, "running") \/ Becomes(x, "ended")
                        => Waiting' = Waiting \ {x}
<1>1. ASSUME AllStay PROVE Waiting' = Waiting
  BY <1>1 DEF AllStay, Waiting
<1>2. ASSUME NEW x \in Task, Becomes(x, "waiting") PROVE Waiting' = Waiting \cup {x}
  BY <1>2 DEF Becomes, Waiting
<1>3. ASSUME NEW x \in Task, Becomes(x, "running") \/ Becomes(x, "ended")
      PROVE  Waiting' = Waiting \ {x}
  BY <1>3 DEF Becomes, Waiting
<1>. QED
  BY <1>1, <1>2, <1>3

(* Whoever still offers a task offered it before, and it is still new. *)
LEMMA OffersStay ==
    ASSUME OfferedOnce,
           \A c \in Client : Offers(c)' =>
               /\ Offers(c) /\ call'[c].task = call[c].task
               /\ \A x \in Task : x = call[c].task /\ Stage(x) = "new"
                     => Stage(x)' = "new"
    PROVE  OfferedOnce'
<1>1. ASSUME NEW c \in Client, Offers(c)'
      PROVE  call'[c].task \in Task /\ Stage(call[c].task)' = "new"
  <2>1. /\ call'[c].task = call[c].task /\ call[c].task \in Task
        /\ Stage(call[c].task) = "new"
    BY <1>1 DEF OfferedOnce
  <2>2. \A x \in Task : x = call'[c].task => Stage(x)' = "new"
    BY <1>1, <2>1
  <2>. QED
    BY <2>1, <2>2
<1>2. \A c, d \in Client :
          Offers(c)' /\ Offers(d)' /\ call'[c].task = call'[d].task => c = d
  BY DEF OfferedOnce
<1>. QED
  BY <1>1, <1>2 DEF OfferedOnce

(* The steps that leave every task, and so size_, where it is. *)
LEMMA StillCounts ==
    ASSUME SizeCounts, AllStay, UNCHANGED << size, owner >> PROVE SizeCounts'
  BY WaitingIs DEF SizeCounts

LEMMA StillOffers ==
    ASSUME OfferedOnce, AllStay, call' = call PROVE OfferedOnce'
  BY OffersStay DEF Offers, AllStay

(* The steps of a client that do not enter a queue. *)
LEMMA ClientInv ==
    ASSUME IInv, NEW c \in Client,
           CallSubmit(c) \/ CheckStopped(c) \/ SubmitFails(c) \/ SubmitCounts(c)
    PROVE  IInv' /\ AllStay /\ UNCHANGED close
<1>0. TypeOK'
  BY SubmitType DEF IInv, OnePlace, Submit
<1>1. /\ UNCHANGED << queue, stop, workerVars, threadVars, dog, close, ended >>
      /\ UNCHANGED << pc, task, joinable >>
  BY DEF CallSubmit, CheckStopped, SubmitFails, SubmitCounts, queueVars, workerVars,
         threadVars
<1>2. AllStay /\ WorkersHoldTasks' /\ QueuedOnce' /\ TakenOnce'
  BY <1>1, StillStages DEF IInv
<1>3. call \in [Client -> [at : {"idle", "check", "submit", "count"},
                          task : Task \cup {NoTask}]]
  BY DEF IInv, TypeOK
<1>4. OfferedOnce'
  <2>1. CASE CallSubmit(c)
    <3>1. PICK x \in Task :
             /\ ~Submitted(x)
             /\ call' = [call EXCEPT ![c] = [at |-> "check", task |-> x]]
      BY <2>1 DEF CallSubmit
    <3>2. Stage(x) = "new" /\ \A d \in Client : call[d].task # x
      BY <3>1 DEF Submitted, Stage, InQueue
    <3>3. /\ call'[c].task = x
          /\ \A d \in Client \ {c} : call'[d] = call[d]
      BY <1>3, <3>1
    <3>4. ASSUME NEW d \in Client, Offers(d)'
          PROVE  call'[d].task \in Task /\ Stage(call[d].task)' = "new"
      <4>1. \A y \in Task : y = call'[d].task => Stage(y)' = "new"
        BY <1>2, <3>2, <3>3, <3>4 DEF AllStay, IInv, OnePlace, OfferedOnce, Offers
      <4>2. call'[d].task \in Task
        BY <3>3, <3>4 DEF IInv, OnePlace, OfferedOnce, Offers
      <4>. QED
        BY <4>1, <4>2
    <3>5. \A d, e \in Client :
              Offers(d)' /\ Offers(e)' /\ call'[d].task = call'[e].task => d = e
      BY <3>2, <3>3 DEF IInv, OnePlace, OfferedOnce, Offers
    <3>. QED
      BY <3>4, <3>5 DEF OfferedOnce
  <2>2. CASE CheckStopped(c) \/ SubmitFails(c) \/ SubmitCounts(c)
    <3>1. \A d \in Client : Offers(d)' => Offers(d) /\ call'[d].task = call[d].task
      BY <1>3, <2>2 DEF CheckStopped, SubmitFails, SubmitCounts, Offers, Idle
    <3>. QED
      BY <1>2, <3>1, OffersStay DEF IInv, OnePlace, AllStay
  <2>. QED
    BY <2>1, <2>2
<1>5. MutexIsHeld' /\ SizeCounts' /\ (stop => MutexFree')
  <2>1. CASE CallSubmit(c) \/ CheckStopped(c) \/ SubmitFails(c)
    <3>1. /\ UNCHANGED << owner, size >>
          /\ \A d \in Client : call'[d].at = "count" <=> call[d].at = "count"
      BY <1>3, <2>1 DEF CallSubmit, CheckStopped, SubmitFails, Idle, queueVars
    <3>2. MutexIsHeld'
      BY <3>1 DEF IInv, MutexIsHeld
    <3>3. SizeCounts'
      BY <1>2, <3>1, StillCounts DEF IInv
    <3>. QED
      BY <3>1, <3>2, <3>3 DEF IInv, StopIsSet, MutexFree
  <2>2. CASE SubmitCounts(c)
    <3>1. /\ owner = {c} /\ owner' = {} /\ size' = size + 1 /\ call[c].at = "count"
          /\ \A d \in Client : call'[d].at # "count"
      BY <1>3, <2>2 DEF SubmitCounts, Idle, IInv, MutexIsHeld
    <3>2. MutexIsHeld'
      BY <3>1 DEF MutexIsHeld
    <3>3. SizeCounts'
      <4>1. Cardinality(owner) = 1 /\ Cardinality(owner') = 0
        BY <3>1, FS_Singleton, FS_EmptySet
      <4>2. IsFiniteSet(Waiting) /\ Cardinality(Waiting) \in Nat
        BY FS_CardinalityType DEF IInv, SizeCounts
      <4>3. Waiting' = Waiting
        BY <1>2, WaitingIs
      <4>4. size = Cardinality(Waiting) - Cardinality(owner)
        BY DEF IInv, SizeCounts
      <4>. QED
        BY <3>1, <4>1, <4>2, <4>3, <4>4 DEF SizeCounts
    <3>. QED
      BY <3>1, <3>2, <3>3 DEF MutexFree
  <2>. QED
    BY <2>1, <2>2
<1>6. StopIsSet'
  BY <1>1, <1>5 DEF IInv, StopIsSet
<1>7. JoinedHaveEnded'
  BY <1>1 DEF IInv, JoinedHaveEnded
<1>8. ShutdownInv'
  <2>1. Waiting' = Waiting
    BY <1>2, WaitingIs
  <2>. QED
    BY <1>1, <2>1 DEF IInv, ShutdownInv
<1>. QED
  BY <1>0, <1>1, <1>2, <1>4, <1>5, <1>6, <1>7, <1>8 DEF IInv, OnePlace

LEMMA PutInv ==
    ASSUME IInv, NEW c \in Client, SubmitPuts(c)
    PROVE  /\ IInv' /\ close.at = "idle" /\ UNCHANGED close
           /\ \E x \in Task : Stage(x) = "new" /\ Becomes(x, "waiting")
<1>. DEFINE x == call[c].task
<1>0. TypeOK'
  BY SubmitType DEF IInv, OnePlace, Submit
<1>1. /\ x \in Task /\ Stage(x) = "new" /\ Becomes(x, "waiting")
      /\ WorkersHoldTasks' /\ QueuedOnce' /\ TakenOnce'
  BY PutStages DEF IInv
<1>2. /\ UNCHANGED << size, stop, pc, joinable, dog, close >>
      /\ ~stop /\ owner = {} /\ owner' = {c} /\ call[c].at = "submit"
      /\ call' = [call EXCEPT ![c].at = "count"]
  BY DEF SubmitPuts, workerVars, threadVars, Open, MutexFree
<1>3. /\ call \in [Client -> [at : {"idle", "check", "submit", "count"},
                             task : Task \cup {NoTask}]]
      /\ call'[c].at = "count"
      /\ \A d \in Client \ {c} : call'[d] = call[d]
  BY <1>2 DEF IInv, TypeOK
<1>4. OfferedOnce'
  <2>1. ASSUME NEW d \in Client, Offers(d)'
        PROVE  /\ Offers(d) /\ call'[d].task = call[d].task
               /\ \A y \in Task : y = call[d].task /\ Stage(y) = "new"
                     => Stage(y)' = "new"
    <3>1. d # c /\ Offers(d) /\ call'[d].task = call[d].task
      BY <1>3, <2>1 DEF Offers
    <3>2. call[d].task # x
      BY <1>2, <3>1 DEF IInv, OnePlace, OfferedOnce, Offers
    <3>. QED
      BY <1>1, <3>1, <3>2 DEF Becomes
  <2>. QED
    BY <2>1, OffersStay DEF IInv, OnePlace
<1>5. MutexIsHeld'
  BY <1>2, <1>3 DEF IInv, MutexIsHeld
<1>6. close.at = "idle" /\ StopIsSet'
  BY <1>2 DEF IInv, StopIsSet
<1>7. SizeCounts'
  <2>1. Cardinality(owner) = 0 /\ Cardinality(owner') = 1
    BY <1>2, FS_Singleton, FS_EmptySet
  <2>2. /\ IsFiniteSet(Waiting) /\ Cardinality(Waiting) \in Nat
        /\ size = Cardinality(Waiting) - Cardinality(owner)
    BY FS_CardinalityType DEF IInv, SizeCounts
  <2>3. Waiting' = Waiting \cup {x} /\ x \notin Waiting
    BY <1>1, WaitingIs DEF Waiting
  <2>. HIDE DEF x
  <2>4. /\ IsFiniteSet(Waiting \cup {x})
        /\ Cardinality(Waiting \cup {x}) = Cardinality(Waiting) + 1
    BY <2>2, <2>3, FS_AddElement
  <2>. QED
    BY <1>2, <2>1, <2>2, <2>3, <2>4 DEF SizeCounts
<1>8. JoinedHaveEnded'
  BY <1>2 DEF IInv, JoinedHaveEnded
<1>9. ShutdownInv'
  BY <1>2, <1>6 DEF IInv, ShutdownInv
<1>. QED
  BY <1>0, <1>1, <1>2, <1>4, <1>5, <1>6, <1>7, <1>8, <1>9 DEF IInv, OnePlace

(* A worker's step, as far as the tasks are where they should be after it. *)
LEMMA WorkKeeps ==
    ASSUME IInv, NEW w \in Worker, Work(w) \/ GrowsLate(w),
           WorkersHoldTasks', QueuedOnce', TakenOnce', SizeCounts',
           Waiting' \subseteq Waiting,
           \A x \in Task : Stage(x) = "new" => Stage(x)' = "new",
           pc'[w] = "run" => pc[w] = "run" \/ Waiting # {}
    PROVE  IInv' /\ UNCHANGED close
<1>1. TypeOK'
  BY WorkType DEF IInv, OnePlace
<1>2. UNCHANGED << stop, call, owner, joinable, dog, close >>
  BY DEF Work, GrowsLate, Top, Wait, TakeTask, TryNext, GiveUp, Advance, Run,
         Drop, Uncount, Finish, Throw, EndRun, Test, threadVars
<1>3. /\ \A v \in Worker \ {w} : pc'[v] = pc[v]
      /\ pc'[w] = pc[w] \/ pc[w] # "exited"
  <2>1. pc \in [Worker -> WorkerPC]
    BY DEF IInv, TypeOK
  <2>2. CASE Top(w) \/ Wait(w) \/ Test(w) \/ GrowsLate(w)
    BY <2>1, <2>2 DEF Top, Wait, Test, GrowsLate, Goto
  <2>3. CASE TakeTask(w) \/ TryNext(w) \/ GiveUp(w)
    BY <2>1, <2>3 DEF TakeTask, TryNext, GiveUp, Advance, Goto
  <2>4. CASE Run(w) \/ Drop(w) \/ Finish(w) \/ Throw(w)
    BY <2>1, <2>4 DEF Run, Drop, Uncount, Finish, Throw, EndRun, Leave, Goto
  <2>. QED
    BY <2>2, <2>3, <2>4 DEF Work
<1>4. OfferedOnce'
  BY <1>2, OffersStay DEF IInv, OnePlace, Offers
<1>5. MutexIsHeld' /\ StopIsSet'
  BY <1>2 DEF IInv, MutexIsHeld, StopIsSet, MutexFree
<1>6. JoinedHaveEnded'
  BY <1>2, <1>3 DEF IInv, JoinedHaveEnded
<1>7. ShutdownInv'
  BY <1>2, <1>3 DEF IInv, ShutdownInv
<1>. QED
  BY <1>1, <1>2, <1>4, <1>5, <1>6, <1>7 DEF IInv, OnePlace

LEMMA QuietInv ==
    ASSUME IInv, NEW w \in Worker,
           \/ Top(w) \/ Wait(w) \/ TryNext(w) \/ GiveUp(w) \/ Test(w)
           \/ GrowsLate(w)
    PROVE  IInv' /\ AllStay /\ UNCHANGED close
<1>1. /\ UNCHANGED << queue, size, owner, task, ended >>
      /\ pc \in [Worker -> WorkerPC]
  BY DEF Top, Wait, TryNext, GiveUp, Advance, Test, GrowsLate, queueVars, IInv, TypeOK
<1>2. \/ pc' = pc
      \/ /\ ~Carries(w)
         /\ \E place \in WorkerPC \ {"uncount", "run"} :
               pc' = [pc EXCEPT ![w] = place]
  <2>1. CASE Top(w) \/ Wait(w) \/ Test(w)
    BY <2>1 DEF Top, Wait, Test, Goto, Carries, WorkerPC
  <2>2. CASE TryNext(w) \/ GiveUp(w) \/ GrowsLate(w)
    BY <2>2 DEF TryNext, GiveUp, GrowsLate, Advance, Goto, Carries, WorkerPC
  <2>. QED
    BY <2>1, <2>2
<1>3. \A v \in Worker : \/ pc'[v] = pc[v]
                        \/ ~Carries(v) /\ ~Carries(v)'
  BY <1>1, <1>2 DEF Carries
<1>4. AllStay /\ WorkersHoldTasks' /\ QueuedOnce' /\ TakenOnce'
  BY <1>1, <1>3, StillStages DEF IInv
<1>5. SizeCounts' /\ Waiting' = Waiting
  BY <1>1, <1>4, StillCounts, WaitingIs DEF IInv
<1>6. pc'[w] = "run" => pc[w] = "run"
  BY <1>3 DEF Carries
<1>7. IInv' /\ UNCHANGED close
  BY <1>4, <1>5, <1>6, WorkKeeps DEF Work, AllStay
<1>. QED
  BY <1>4, <1>7

LEMMA TakeInv ==
    ASSUME IInv, NEW w \in Worker, TakeTask(w)
    PROVE  IInv' /\ AllStay /\ UNCHANGED close
<1>1. AllStay /\ WorkersHoldTasks' /\ QueuedOnce' /\ TakenOnce'
  BY TakeStages DEF IInv
<1>2. UNCHANGED << size, owner >> /\ pc'[w] # "run"
  BY DEF TakeTask, Goto, IInv, TypeOK
<1>3. SizeCounts' /\ Waiting' = Waiting
  BY <1>1, <1>2, StillCounts, WaitingIs DEF IInv
<1>4. IInv' /\ UNCHANGED close
  BY <1>1, <1>2, <1>3, WorkKeeps DEF Work, AllStay
<1>. QED
  BY <1>1, <1>4

(* A task that waits is counted out. *)
LEMMA CountedOut ==
    ASSUME IInv, NEW x \in Task, Stage(x) = "waiting", NEW s,
           s \in {"running", "ended"}, Becomes(x, s),
           size' = size - 1, owner' = owner
    PROVE  SizeCounts' /\ Waiting' \subseteq Waiting /\ Waiting # {}
<1>1. x \in Waiting /\ Waiting' = Waiting \ {x}
  BY WaitingIs DEF Waiting
<1>2. /\ IsFiniteSet(Waiting) /\ Cardinality(Waiting) \in Nat
      /\ size = Cardinality(Waiting) - Cardinality(owner)
  BY FS_CardinalityType DEF IInv, SizeCounts
<1>3. /\ IsFiniteSet(Waiting \ {x})
      /\ Cardinality(Waiting \ {x}) = Cardinality(Waiting) - 1
  BY <1>1, <1>2, FS_RemoveElement
<1>4. Cardinality(owner) \in Nat
  <2>1. owner = {} \/ \E c \in Client : owner = {c}
    BY DEF IInv, MutexIsHeld
  <2>2. CASE owner = {}
    BY <2>2, FS_EmptySet
  <2>3. CASE \E c \in Client : owner = {c}
    <3>. PICK c \in Client : owner = {c}
      BY <2>3
    <3>1. Cardinality({c}) = 1
      BY FS_Singleton
    <3>. QED
      BY <3>1
  <2>. QED
    BY <2>1, <2>2, <2>3
<1>5. size' = Cardinality(Waiting') - Cardinality(owner')
  BY <1>1, <1>2, <1>3, <1>4
<1>. QED
  BY <1>1, <1>3, <1>5 DEF SizeCounts

LEMMA RunInv ==
    ASSUME IInv, NEW w \in Worker, Run(w)
    PROVE  /\ IInv' /\ UNCHANGED close
           /\ \E x \in Task : Stage(x) = "waiting" /\ Becomes(x, "running")
<1>1. /\ task[w] \in Task /\ Stage(task[w]) = "waiting"
      /\ \A x : x = task[w] => Becomes(x, "running")
      /\ WorkersHoldTasks' /\ QueuedOnce' /\ TakenOnce'
  BY RunStages DEF IInv
<1>2. PICK x \in Task : x = task[w] /\ Stage(x) = "waiting" /\ Becomes(x, "running")
  BY <1>1
<1>3. size' = size - 1 /\ owner' = owner
  BY DEF Run, Uncount
<1>4. SizeCounts' /\ Waiting' \subseteq Waiting /\ Waiting # {}
  BY <1>2, <1>3, CountedOut
<1>5. \A y \in Task : Stage(y) = "new" => Stage(y)' = "new"
  BY <1>2 DEF Becomes
<1>6. IInv' /\ UNCHANGED close
  BY <1>1, <1>4, <1>5, WorkKeeps DEF Work
<1>. QED
  BY <1>2, <1>6

LEMMA DropInv ==
    ASSUME IInv, NEW w \in Worker, Drop(w)
    PROVE  /\ IInv' /\ UNCHANGED close
           /\ \E x \in Task : Stage(x) = "waiting" /\ Becomes(x, "ended")
<1>1. /\ pc \in [Worker -> WorkerPC] /\ pc[w] = "uncount" /\ Leave(w, "top")
      /\ queue' = queue /\ size' = size - 1 /\ owner' = owner
  BY DEF Drop, Uncount, IInv, TypeOK
<1>2. /\ task[w] \in Task /\ \A x : x = task[w] => Becomes(x, "ended")
      /\ WorkersHoldTasks' /\ QueuedOnce' /\ TakenOnce'
  BY <1>1, LeaveStages DEF IInv, Carries
<1>3. Stage(task[w]) = "waiting"
  BY <1>1, CarriedStage DEF IInv, Carries
<1>4. PICK x \in Task : x = task[w] /\ Stage(x) = "waiting" /\ Becomes(x, "ended")
  BY <1>2, <1>3
<1>5. SizeCounts' /\ Waiting' \subseteq Waiting /\ Waiting # {}
  BY <1>1, <1>4, CountedOut
<1>6. \A y \in Task : Stage(y) = "new" => Stage(y)' = "new"
  BY <1>4 DEF Becomes
<1>7. IInv' /\ UNCHANGED close
  BY <1>2, <1>5, <1>6, WorkKeeps DEF Work
<1>. QED
  BY <1>4, <1>7

LEMMA EndInv ==
    ASSUME IInv, NEW w \in Worker, Finish(w) \/ Throw(w)
    PROVE  /\ IInv' /\ UNCHANGED close
           /\ \E x \in Task : Stage(x) = "running" /\ Becomes(x, "ended")
<1>1. PICK place \in {"top", "exited"} : EndRun(w, place)
  BY DEF Finish, Throw
<1>2. /\ pc \in [Worker -> WorkerPC] /\ pc[w] = "run" /\ Leave(w, place)
      /\ UNCHANGED << queue, size, owner >>
  BY <1>1 DEF EndRun, queueVars, IInv, TypeOK
<1>3. /\ task[w] \in Task /\ \A x : x = task[w] => Becomes(x, "ended")
      /\ WorkersHoldTasks' /\ QueuedOnce' /\ TakenOnce'
  BY <1>2, LeaveStages DEF IInv, Carries
<1>4. Stage(task[w]) = "running"
  BY <1>2, CarriedStage DEF IInv, Carries
<1>5. PICK x \in Task : x = task[w] /\ Stage(x) = "running" /\ Becomes(x, "ended")
  BY <1>3, <1>4
<1>6. Waiting' = Waiting
  BY <1>5, WaitingIs DEF Waiting
<1>7. SizeCounts'
  BY <1>2, <1>6 DEF IInv, SizeCounts
<1>8. \A y \in Task : Stage(y) = "new" => Stage(y)' = "new"
  BY <1>5 DEF Becomes
<1>9. IInv' /\ UNCHANGED close
  BY <1>2, <1>3, <1>6, <1>7, <1>8, WorkKeeps DEF Work
<1>. QED
  BY <1>5, <1>9

-----------------------------------------------------------------------------
(* The watchdog replaces a worker that has ended, and moves no task. *)
LEMMA DogInv ==
    ASSUME IInv, Watchdog
    PROVE  IInv' /\ AllStay /\ UNCHANGED close
<1>0. TypeOK'
  BY WatchType DEF IInv
<1>1. UNCHANGED << queue, size, stop, call, owner, task, close, ended >>
  BY DEF Watchdog, DogLoop, DogPasses, DogCancels, DogJoins, DogRestarts, queueVars,
         workerVars
<1>2. /\ pc \in [Worker -> WorkerPC] /\ joinable \in [Worker -> BOOLEAN]
      /\ dog.w \in Worker
  BY DEF IInv, TypeOK
<1>3. \/ pc' = pc
      \/ pc[dog.w] = "exited" /\ pc' = [pc EXCEPT ![dog.w] = "top"]
  <2>1. CASE DogLoop \/ DogPasses \/ DogCancels \/ DogJoins
    BY <2>1 DEF DogLoop, DogPasses, DogCancels, DogJoins, workerVars
  <2>2. CASE DogRestarts
    <3>1. dog.at = "restart" /\ pc' = [pc EXCEPT ![dog.w] = "top"]
      BY <2>2 DEF DogRestarts, Goto
    <3>. QED
      BY <1>2, <3>1 DEF IInv, JoinedHaveEnded
  <2>. QED
    BY <2>1, <2>2 DEF Watchdog
<1>4. \A v \in Worker : \/ pc'[v] = pc[v]
                        \/ pc[v] = "exited" /\ pc'[v] = "top"
  BY <1>2, <1>3
<1>5. AllStay /\ WorkersHoldTasks' /\ QueuedOnce' /\ TakenOnce'
  BY <1>1, <1>4, StillStages DEF IInv, Carries
<1>6. SizeCounts' /\ OfferedOnce' /\ Waiting' = Waiting
  BY <1>1, <1>5, StillCounts, StillOffers, WaitingIs DEF IInv, OnePlace
<1>7. MutexIsHeld' /\ StopIsSet'
  BY <1>1 DEF IInv, MutexIsHeld, StopIsSet, MutexFree
<1>8. JoinedHaveEnded'
  <2>1. CASE DogLoop \/ DogPasses
    <3>1. dog'.at # "restart" /\ UNCHANGED << pc, joinable >>
      BY <2>1 DEF DogLoop, DogPasses, Watch, NextWorker, workerVars, threadVars
    <3>. QED
      BY <3>1 DEF IInv, JoinedHaveEnded
  <2>2. CASE DogCancels
    <3>1. /\ dog'.at = "restart" => ~joinable[dog.w] /\ dog'.w = dog.w
          /\ UNCHANGED << pc, joinable >>
      BY <2>2 DEF DogCancels, Watch, workerVars, IInv, TypeOK
    <3>. QED
      BY <3>1 DEF IInv, JoinedHaveEnded
  <2>3. CASE DogJoins
    <3>1. /\ dog'.w = dog.w /\ pc[dog.w] = "exited" /\ pc' = pc
          /\ joinable' = [joinable EXCEPT ![dog.w] = FALSE]
      BY <2>3 DEF DogJoins, workerVars, IInv, TypeOK
    <3>. QED
      BY <1>2, <3>1 DEF IInv, JoinedHaveEnded
  <2>4. CASE DogRestarts
    <3>1. /\ dog'.at # "restart" /\ pc' = [pc EXCEPT ![dog.w] = "top"]
          /\ joinable' = [joinable EXCEPT ![dog.w] = TRUE]
      BY <2>4 DEF DogRestarts, NextWorker, Watch, Goto
    <3>. QED
      BY <1>2, <3>1 DEF IInv, JoinedHaveEnded
  <2>. QED
    BY <2>1, <2>2, <2>3, <2>4 DEF Watchdog
<1>9. ShutdownInv'
  BY <1>1, <1>4, <1>6 DEF IInv, ShutdownInv
<1>. QED
  BY <1>0, <1>1, <1>5, <1>6, <1>7, <1>8, <1>9 DEF IInv, OnePlace

(* A step of the shutdown moves no task; what it may conclude is the case.  *)
LEMMA CloseKeeps ==
    ASSUME IInv, BeginShutdown \/ Shutdown, StopIsSet', JoinedHaveEnded', ShutdownInv'
    PROVE  IInv' /\ AllStay
<1>0. TypeOK'
  BY WatchType DEF IInv
<1>1. UNCHANGED << queue, size, call, owner, pc, task, ended >>
  BY DEF BeginShutdown, Shutdown, EndDrain, BeginJoin, EndJoin, JoinWatchdog,
         queueVars, workerVars
<1>2. AllStay /\ WorkersHoldTasks' /\ QueuedOnce' /\ TakenOnce'
  BY <1>1, StillStages DEF IInv
<1>3. SizeCounts' /\ OfferedOnce'
  BY <1>1, <1>2, StillCounts, StillOffers DEF IInv, OnePlace
<1>4. MutexIsHeld'
  BY <1>1 DEF IInv, MutexIsHeld
<1>. QED
  BY <1>0, <1>2, <1>3, <1>4 DEF IInv, OnePlace

LEMMA CloseStays ==
    ASSUME IInv, BeginShutdown \/ Shutdown
    PROVE  Waiting' = Waiting /\ UNCHANGED << pc, dog >>
<1>1. UNCHANGED << queue, pc, task, ended, dog >>
  BY DEF BeginShutdown, Shutdown, EndDrain, BeginJoin, EndJoin, JoinWatchdog,
         queueVars, workerVars
<1>2. AllStay
  BY <1>1, StillStages DEF IInv
<1>. QED
  BY <1>1, <1>2, WaitingIs

LEMMA BeginShutdownInv ==
    ASSUME IInv, BeginShutdown
    PROVE  IInv' /\ AllStay /\ close.at = "idle" /\ close'.at = "drain"
<1>1. /\ close.at = "idle" /\ close' = Watch("drain", 1) /\ stop' = TRUE
      /\ owner = {} /\ UNCHANGED << owner, pc, joinable, dog >>
  BY DEF BeginShutdown, MutexFree, workerVars, threadVars
<1>2. close'.at = "drain"
  BY <1>1 DEF Watch
<1>3. StopIsSet'
  BY <1>1, <1>2 DEF StopIsSet, MutexFree
<1>4. JoinedHaveEnded'
  BY <1>1 DEF IInv, JoinedHaveEnded
<1>5. ShutdownInv'
  BY <1>2 DEF ShutdownInv
<1>. QED
  BY <1>1, <1>2, <1>3, <1>4, <1>5, CloseKeeps

(* size_ at 0 when no task is half in: nothing waits any more. *)
LEMMA DrainedIsEmpty ==
    ASSUME IInv, stop, Drained PROVE Waiting = {}
<1>1. Cardinality(owner) = 0
  BY FS_EmptySet DEF IInv, StopIsSet, MutexFree
<1>2. IsFiniteSet(Waiting) /\ Cardinality(Waiting) \in Nat
  BY FS_CardinalityType DEF IInv, SizeCounts
<1>3. Cardinality(Waiting) = 0
  BY <1>1, <1>2 DEF IInv, SizeCounts, Drained
<1>. QED
  BY <1>2, <1>3, FS_EmptySet

LEMMA EndDrainInv ==
    ASSUME IInv, EndDrain
    PROVE  IInv' /\ AllStay /\ close.at = "drain" /\ close'.at = "join"
<1>1. /\ close.at = "drain" /\ Drained /\ close' = Watch("join", 1)
      /\ UNCHANGED << stop, owner, joinable >>
  BY DEF EndDrain, threadVars
<1>2. close'.at = "join" /\ close'.w = 1
  BY <1>1 DEF Watch
<1>3. Waiting' = Waiting /\ UNCHANGED << pc, dog >>
  BY CloseStays DEF Shutdown
<1>4. stop /\ Waiting = {}
  BY <1>1, DrainedIsEmpty DEF IInv, StopIsSet
<1>5. StopIsSet'
  BY <1>1, <1>2 DEF IInv, StopIsSet, MutexFree
<1>6. JoinedHaveEnded'
  BY <1>1, <1>3 DEF IInv, JoinedHaveEnded
<1>7. ShutdownInv'
  <2>1. \A w \in Worker : ~(w < 1)
    BY WorkerRange
  <2>. QED
    BY <1>2, <1>3, <1>4, <2>1 DEF ShutdownInv
<1>. QED
  BY <1>1, <1>2, <1>5, <1>6, <1>7, CloseKeeps DEF Shutdown

(* Where the joins of a shutdown go on. *)
LEMMA NextPlace ==
    \A w \in Worker : \A next : next = NextWorker(w, "join", "join watchdog") =>
        \/ /\ next.at = "join"
           /\ \A v \in Worker : v < next.w => v < w \/ v = w
        \/ /\ next.at = "join watchdog"
           /\ \A v \in Worker : v < w \/ v = w
<1>1. \A w \in Worker : LastWorker(w) => \A v \in Worker : v < w \/ v = w
  BY WorkerRange DEF LastWorker
<1>2. \A w \in Worker : \A v \in Worker : v < w + 1 => v < w \/ v = w
  BY WorkerRange
<1>3. ASSUME NEW w \in Worker, ~LastWorker(w)
      PROVE  NextWorker(w, "join", "join watchdog") = [at |-> "join", w |-> w + 1]
  BY <1>3 DEF NextWorker, Watch
<1>4. ASSUME NEW w \in Worker, LastWorker(w)
      PROVE  NextWorker(w, "join", "join watchdog").at = "join watchdog"
  BY <1>4 DEF NextWorker, Watch
<1>5. \A n : [at |-> "join", w |-> n].at = "join" /\ [at |-> "join", w |-> n].w = n
  OBVIOUS
<1>6. ASSUME NEW w \in Worker, ~LastWorker(w)
      PROVE  /\ NextWorker(w, "join", "join watchdog").at = "join"
             /\ NextWorker(w, "join", "join watchdog").w = w + 1
  BY <1>3, <1>5, <1>6
<1>. QED
  BY <1>1, <1>2, <1>4, <1>6

(* The shutdown goes on to the next worker, past one that runs nothing. *)
LEMMA JoinGoesOn ==
    ASSUME IInv, BeginJoin \/ EndJoin,
           pc[close.w] = "exited", close' = NextWorker(close.w, "join", "join watchdog")
    PROVE  ShutdownInv' /\ close'.at \in {"join", "join watchdog"}
<1>1. close.at \in {"join", "joining"} /\ close.w \in Worker
  BY DEF BeginJoin, EndJoin, IInv, TypeOK
<1>2. Waiting' = Waiting /\ pc' = pc
  BY CloseStays DEF Shutdown
<1>3. Waiting = {} /\ \A v \in Worker : v < close.w => pc[v] # "run"
  BY <1>1 DEF IInv, ShutdownInv
<1>4. \/ /\ close'.at = "join"
         /\ \A v \in Worker : v < close'.w => v < close.w \/ v = close.w
      \/ /\ close'.at = "join watchdog"
         /\ \A v \in Worker : v < close.w \/ v = close.w
  BY <1>1, NextPlace
<1>5. \A v \in Worker : v < close.w \/ v = close.w => pc[v] # "run"
  BY <1>3
<1>. QED
  BY <1>2, <1>3, <1>4, <1>5 DEF ShutdownInv

LEMMA JoinInv ==
    ASSUME IInv, BeginJoin \/ EndJoin
    PROVE  /\ IInv' /\ AllStay /\ close.at \in {"join", "joining"}
           /\ close'.at \in {"join", "joining", "join watchdog", "failed"}
<1>1. /\ close.at \in {"join", "joining"} /\ close.w \in Worker
      /\ UNCHANGED << stop, owner >>
  BY DEF BeginJoin, EndJoin, IInv, TypeOK
<1>2. Waiting' = Waiting /\ UNCHANGED << pc, dog >>
  BY CloseStays DEF Shutdown
<1>3. ShutdownInv' /\ close'.at \in {"join", "joining", "join watchdog", "failed"}
  <2>1. CASE close' = NextWorker(close.w, "join", "join watchdog")
    <3>1. pc[close.w] = "exited"
      <4>1. CASE EndJoin
        BY <4>1 DEF EndJoin
      <4>2. CASE BeginJoin /\ joinable[close.w]
        <5>1. close'.at \in {"failed", "joining"}
          BY <4>2 DEF BeginJoin, Watch
        <5>2. close'.at \in {"join", "join watchdog"}
          BY <1>1, <2>1, NextPlace
        <5>. QED
          BY <5>1, <5>2
      <4>3. CASE BeginJoin /\ ~joinable[close.w]
        BY <1>1, <4>3 DEF IInv, JoinedHaveEnded
      <4>. QED
        BY <4>1, <4>2, <4>3
    <3>. QED
      BY <2>1, <3>1, JoinGoesOn
  <2>2. CASE close' = Watch("failed", 1)
    <3>1. close'.at = "failed"
      BY <2>2 DEF Watch
    <3>. QED
      BY <1>1, <1>2, <3>1 DEF IInv, ShutdownInv
  <2>3. CASE close' = Watch("joining", close.w)
    <3>1. close'.at = "joining" /\ close'.w = close.w
      BY <2>3 DEF Watch
    <3>. QED
      BY <1>1, <1>2, <3>1 DEF IInv, ShutdownInv
  <2>. QED
    BY <2>1, <2>2, <2>3 DEF BeginJoin, EndJoin
<1>4. StopIsSet'
  BY <1>1, <1>3 DEF IInv, StopIsSet, MutexFree
<1>5. JoinedHaveEnded'
  <2>1. CASE BeginJoin
    <3>1. joinable' = joinable
      BY <2>1 DEF BeginJoin, threadVars
    <3>. QED
      BY <1>2, <3>1 DEF IInv, JoinedHaveEnded
  <2>2. CASE EndJoin
    <3>1. /\ pc[close.w] = "exited" /\ joinable \in [Worker -> BOOLEAN]
          /\ joinable' = [joinable EXCEPT ![close.w] = FALSE]
      BY <2>2 DEF EndJoin, IInv, TypeOK
    <3>2. \A v \in Worker : joinable'[v] = (v # close.w /\ joinable[v])
      BY <1>1, <3>1
    <3>3. dog.w \in Worker
      BY DEF IInv, TypeOK
    <3>. QED
      BY <1>2, <3>1, <3>2, <3>3 DEF IInv, JoinedHaveEnded
  <2>. QED
    BY <2>1, <2>2
<1>. QED
  BY <1>1, <1>3, <1>4, <1>5, CloseKeeps DEF Shutdown

LEMMA JoinWatchdogInv ==
    ASSUME IInv, JoinWatchdog
    PROVE  /\ IInv' /\ AllStay
           /\ close.at = "join watchdog" /\ close'.at = "returned"
<1>1. /\ close.at = "join watchdog" /\ close' = Watch("returned", 1)
      /\ UNCHANGED << stop, owner, joinable >>
  BY DEF JoinWatchdog, threadVars
<1>2. close'.at = "returned"
  BY <1>1 DEF Watch
<1>3. Waiting' = Waiting /\ UNCHANGED << pc, dog >>
  BY CloseStays DEF Shutdown
<1>4. StopIsSet'
  BY <1>1, <1>2 DEF IInv, StopIsSet, MutexFree
<1>5. JoinedHaveEnded'
  BY <1>1, <1>3 DEF IInv, JoinedHaveEnded
<1>6. ShutdownInv'
  BY <1>1, <1>2, <1>3 DEF IInv, ShutdownInv
<1>. QED
  BY <1>1, <1>2, <1>4, <1>5, <1>6, CloseKeeps DEF Shutdown

-----------------------------------------------------------------------------
LEMMA InvInit == Init => IInv
<1>. SUFFICES ASSUME Init PROVE IInv
  OBVIOUS
<1>1. TypeOK
  BY InitType
<1>2. /\ \A p \in Priority : Len(queue[p]) = 0
      /\ \A w \in Worker : task[w] = NoTask /\ pc[w] = "top" /\ joinable[w] = TRUE
      /\ \A c \in Client : call[c].at = "idle"
      /\ owner = {} /\ ended = {} /\ size = 0 /\ stop = FALSE
      /\ close.at = "idle" /\ dog.at = "loop"
  BY DEF Init, Idle, Watch
<1>3. \A x : ~InQueue(x)
  BY <1>2 DEF InQueue
<1>4. OnePlace
  BY <1>2, <1>3 DEF OnePlace, WorkersHoldTasks, QueuedOnce, TakenOnce, OfferedOnce,
                    Offers
<1>5. Waiting = {}
  BY <1>2, <1>3, NoTaskAssumption DEF Waiting, Stage
<1>6. SizeCounts
  BY <1>2, <1>5, FS_EmptySet DEF SizeCounts
<1>7. MutexIsHeld /\ StopIsSet
  BY <1>2 DEF MutexIsHeld, StopIsSet, MutexFree
<1>8. JoinedHaveEnded /\ ShutdownInv
  BY <1>2 DEF JoinedHaveEnded, ShutdownInv
<1>. QED
  BY <1>1, <1>4, <1>6, <1>7, <1>8 DEF IInv

LEMMA InvNext == IInv /\ [Next]_vars => IInv'
<1>. SUFFICES ASSUME IInv, [Next]_vars PROVE IInv'
  OBVIOUS
<1>1. ASSUME NEW c \in Client, CallSubmit(c) \/ Submit(c) PROVE IInv'
  BY <1>1, ClientInv, PutInv DEF Submit
<1>2. ASSUME NEW w \in Worker, Work(w) \/ GrowsLate(w) PROVE IInv'
  BY <1>2, QuietInv, TakeInv, RunInv, DropInv, EndInv DEF Work
<1>3. ASSUME Watchdog PROVE IInv'
  BY <1>3, DogInv
<1>4. ASSUME BeginShutdown \/ Shutdown PROVE IInv'
  BY <1>4, BeginShutdownInv, EndDrainInv, JoinInv, JoinWatchdogInv DEF Shutdown
<1>5. ASSUME UNCHANGED vars PROVE IInv'
  <2>1. /\ UNCHANGED << queue, size, stop, call, owner, pc, task, weights, cursor >>
        /\ UNCHANGED << attempt, late, cancel, joinable, dog, close, ended, throws >>
    BY <1>5 DEF vars, queueVars, workerVars, scanVars, threadVars
  <2>2. TypeOK'
    <3>1. TaskType /\ WorkerType /\ ThreadType /\ StopType
      BY TypeParts DEF IInv
    <3>2. TaskType' /\ WorkerType' /\ ThreadType' /\ StopType'
      BY <2>1, <3>1 DEF TaskType, WorkerType, ThreadType, StopType
    <3>. QED
      BY <3>2, TypePartsNext
  <2>3. AllStay /\ WorkersHoldTasks' /\ QueuedOnce' /\ TakenOnce'
    BY <2>1, StillStages DEF IInv
  <2>4. SizeCounts' /\ OfferedOnce' /\ Waiting' = Waiting
    BY <2>1, <2>3, StillCounts, StillOffers, WaitingIs DEF IInv, OnePlace
  <2>5. MutexIsHeld' /\ StopIsSet' /\ JoinedHaveEnded'
    BY <2>1 DEF IInv, MutexIsHeld, StopIsSet, MutexFree, JoinedHaveEnded
  <2>6. ShutdownInv'
    BY <2>1, <2>4 DEF IInv, ShutdownInv
  <2>. QED
    BY <2>2, <2>3, <2>4, <2>5, <2>6 DEF IInv, OnePlace
<1>. QED
  BY <1>1, <1>2, <1>3, <1>4, <1>5 DEF Next

(* Whatever clients, workers, watchdog and shutdown do, each task is in one *)
(* place, size_ counts those that wait, and a shutdown holds them back.     *)
THEOREM Invariance == Spec => []IInv
  BY InvInit, InvNext, PTL DEF Spec

(* Every place, weight and index of a thread is one of its kind: no worker's *)
(* scheduler goes below 0 or beyond the last priority, and neither watchdog  *)
(* nor shutdown walks past the last worker.                                  *)
THEOREM TypeCorrect == Spec => []TypeOK
<1>1. IInv => TypeOK
  BY DEF IInv
<1>. QED
  BY <1>1, Invariance, PTL

-----------------------------------------------------------------------------
(* A task that moves on alone makes the step of its move. *)
LEMMA MoveRefines ==
    ASSUME NEW x \in Task, NEW from, NEW to, Stage(x) = from, Becomes(x, to),
           Door' = Door
    PROVE  Service!Move(x, from, to)
<1>1. [y \in Task |-> Stage(y)]' = [[y \in Task |-> Stage(y)] EXCEPT ![x] = to]
  BY DEF Becomes
<1>. QED
  BY <1>1 DEF Service!Move

LEMMA StayRefines ==
    ASSUME AllStay, Door' = Door PROVE UNCHANGED Service!vars
<1>1. [y \in Task |-> Stage(y)]' = [y \in Task |-> Stage(y)]
  BY DEF AllStay
<1>. QED
  BY <1>1 DEF Service!vars

LEMMA ServiceInit == Init => Service!Init
<1>. SUFFICES ASSUME Init PROVE Service!Init
  OBVIOUS
<1>1. /\ \A p \in Priority : Len(queue[p]) = 0
      /\ \A w \in Worker : task[w] = NoTask
      /\ ended = {} /\ close.at = "idle"
  BY DEF Init, Watch
<1>2. \A x \in Task : Stage(x) = "new"
  BY <1>1, NoTaskAssumption DEF Stage, InQueue
<1>. QED
  BY <1>1, <1>2 DEF Service!Init, Door

LEMMA ServiceNext == IInv /\ [Next]_vars => [Service!Next]_(Service!vars)
<1>. SUFFICES ASSUME IInv, [Next]_vars PROVE Service!Next \/ UNCHANGED Service!vars
  OBVIOUS
<1>. DEFINE Goal == Service!Next \/ UNCHANGED Service!vars
<1>1. ASSUME NEW c \in Client, CallSubmit(c) \/ Submit(c) PROVE Goal
  <2>1. CASE SubmitPuts(c)
    <3>1. PICK x \in Task : Stage(x) = "new" /\ Becomes(x, "waiting")
      BY <2>1, PutInv
    <3>2. Door = "open" /\ Door' = Door
      BY <2>1, PutInv DEF Door
    <3>3. Service!Move(x, "new", "waiting")
      BY <3>1, <3>2, MoveRefines
    <3>. QED
      BY <3>2, <3>3 DEF Service!Next, Service!Accept
  <2>2. CASE CallSubmit(c) \/ CheckStopped(c) \/ SubmitFails(c) \/ SubmitCounts(c)
    BY <2>2, ClientInv, StayRefines DEF Door
  <2>. QED
    BY <1>1, <2>1, <2>2 DEF Submit
<1>2. ASSUME NEW w \in Worker, Work(w) \/ GrowsLate(w) PROVE Goal
  <2>1. CASE Run(w)
    <3>1. PICK x \in Task : Stage(x) = "waiting" /\ Becomes(x, "running")
      BY <2>1, RunInv
    <3>2. Door' = Door
      BY <2>1, RunInv DEF Door
    <3>3. Service!Move(x, "waiting", "running")
      BY <3>1, <3>2, MoveRefines
    <3>. QED
      BY <3>3 DEF Service!Next, Service!Start
  <2>2. CASE Drop(w)
    <3>1. PICK x \in Task : Stage(x) = "waiting" /\ Becomes(x, "ended")
      BY <2>2, DropInv
    <3>2. Door' = Door
      BY <2>2, DropInv DEF Door
    <3>3. Service!Move(x, "waiting", "ended")
      BY <3>1, <3>2, MoveRefines
    <3>. QED
      BY <3>3 DEF Service!Next, Service!Drop
  <2>3. CASE Finish(w) \/ Throw(w)
    <3>1. PICK x \in Task : Stage(x) = "running" /\ Becomes(x, "ended")
      BY <2>3, EndInv
    <3>2. Door' = Door
      BY <2>3, EndInv DEF Door
    <3>3. Service!Move(x, "running", "ended")
      BY <3>1, <3>2, MoveRefines
    <3>. QED
      BY <3>3 DEF Service!Next, Service!End
  <2>4. CASE TakeTask(w)
    BY <2>4, TakeInv, StayRefines DEF Door
  <2>5. CASE \/ Top(w) \/ Wait(w) \/ TryNext(w) \/ GiveUp(w) \/ Test(w)
             \/ GrowsLate(w)
    BY <2>5, QuietInv, StayRefines DEF Door
  <2>. QED
    BY <1>2, <2>1, <2>2, <2>3, <2>4, <2>5 DEF Work
<1>3. ASSUME Watchdog PROVE Goal
  BY <1>3, DogInv, StayRefines DEF Door
<1>4. ASSUME BeginShutdown PROVE Goal
  <2>1. AllStay /\ Door = "open" /\ Door' = "closing"
    BY <1>4, BeginShutdownInv DEF Door
  <2>2. [y \in Task |-> Stage(y)]' = [y \in Task |-> Stage(y)]
    BY <2>1 DEF AllStay
  <2>. QED
    BY <2>1, <2>2 DEF Service!Next, Service!BeginClose
<1>5. ASSUME EndDrain \/ BeginJoin \/ EndJoin PROVE Goal
  <2>1. AllStay /\ Door = "closing" /\ Door' = "closing"
    BY <1>5, EndDrainInv, JoinInv DEF Door
  <2>. QED
    BY <2>1, StayRefines
<1>6. ASSUME JoinWatchdog PROVE Goal
  <2>1. /\ AllStay /\ Door = "closing" /\ Door' = "closed"
        /\ close.at = "join watchdog"
    BY <1>6, JoinWatchdogInv DEF Door
  <2>2. [y \in Task |-> Stage(y)]' = [y \in Task |-> Stage(y)]
    BY <2>1 DEF AllStay
  <2>3. Waiting = {} /\ \A w \in Worker : pc[w] # "run"
    BY <2>1 DEF IInv, ShutdownInv
  <2>4. \A y \in Task : Stage(y) \in {"new", "ended"}
    BY <2>3 DEF Waiting, Stage
  <2>. QED
    BY <2>1, <2>2, <2>4 DEF Service!Next, Service!EndClose
<1>7. ASSUME UNCHANGED vars PROVE Goal
  <2>1. UNCHANGED << queue, pc, task, ended, close >>
    BY <1>7 DEF vars, queueVars, workerVars
  <2>2. AllStay
    BY <2>1, StillStages DEF IInv
  <2>. QED
    BY <2>1, <2>2, StayRefines DEF Door
<1>. QED
  BY <1>1, <1>2, <1>3, <1>4, <1>5, <1>6, <1>7 DEF Next, Shutdown

(* Accepted tasks are run once or dropped, none is accepted once shutdown    *)
(* has begun (submit_task looks at stop_ under mutex_), and none waits or    *)
(* runs when shutdown returns, whatever workers end or are replaced          *)
(* meanwhile.                                                                *)
THEOREM TasksAreServed == Spec => ImplementsService
<1>1. Service!Init /\ [][Service!Next]_(Service!vars) => Service!Spec
  BY DEF Service!Spec
<1>. QED
  BY <1>1, Invariance, ServiceInit, ServiceNext, PTL DEF Spec, ImplementsService

(* size_ is the number of the tasks that wait, less the one that is in but   *)
(* not yet counted: with no submission under way, size_ = 0 means that no    *)
(* task is in a queue or with a worker that has still to start it, which is  *)
(* all that shutdown looks at before it joins the workers.                   *)
THEOREM SizeIsExact == Spec => []SizeCounts
<1>1. IInv => SizeCounts
  BY DEF IInv
<1>. QED
  BY <1>1, Invariance, PTL

=============================================================================
