---------------------------- MODULE PriorityQueue ----------------------------
(***************************************************************************)
(* LCMPMCMultiPriorityQueue (include/lc_mpmc_queue.h): one LCMPMCQueue per *)
(* priority and one counter, size_, for all of them.  The inner queues are *)
(* taken at what FifoQueue promises of them; the counter follows them, one *)
(* step late, which is what the callers of is_empty live with.             *)
(***************************************************************************)
EXTENDS Integers, Sequences, FiniteSets

CONSTANTS
    Thread,       \* the threads that call the queue
    Item,         \* tasks; one is never submitted again while it is queued
    Priority,     \* the priorities
    Capacity,     \* [Priority -> size], get_priority_queue_size
    SizeModulus,  \* 2^64: size_ is a size_t
    Poller,       \* a thread that keeps asking for every priority
    NoItem,       \* what a thread without an item carries
    NoPriority    \* the priority of a thread that is in no call

ASSUME CapacityAssumption == Capacity \in [Priority -> Nat \ {0}]
ASSUME SizeModulusAssumption == SizeModulus \in Nat \ {0}
ASSUME PollerAssumption == Poller \in Thread
ASSUME NoItemAssumption == NoItem \notin Item
ASSUME NoPriorityAssumption == NoPriority \notin Priority

VARIABLES
    queues,  \* queues_: the items of each inner queue, oldest first
    size,    \* size_
    pc,      \* where each thread stands
    prio,    \* the priority its call names
    item     \* the item it is putting in, or has got out

vars == << queues, size, pc, prio, item >>

PC == {"idle", "enqueue", "put", "count", "check", "dequeue", "got", "uncount"}

Init == /\ queues = [p \in Priority |-> << >>]
        /\ size = 0
        /\ pc = [t \in Thread |-> "idle"]
        /\ prio = [t \in Thread |-> NoPriority]
        /\ item = [t \in Thread |-> NoItem]

-----------------------------------------------------------------------------
At(t, place) == pc[t] = place
Goto(t, place) == pc' = [pc EXCEPT ![t] = place]

Hold(t, x) == item' = [item EXCEPT ![t] = x]

(* The threads that are at one of these places of a call on priority p.    *)
Busy(p, places) == { u \in Thread : prio[u] = p /\ pc[u] \in places }

Oldest(x, q) == q # << >> /\ Head(q) = x
Queued(x, p) == \E i \in 1 .. Len(queues[p]) : queues[p][i] = x

Used(x) == \/ \E t \in Thread : item[t] = x
           \/ \E p \in Priority : Queued(x, p)

Return(t) == /\ Goto(t, "idle")
             /\ prio' = [prio EXCEPT ![t] = NoPriority]
             /\ Hold(t, NoItem)

-----------------------------------------------------------------------------
CallEnqueue(t, p) == /\ At(t, "idle")
                     /\ \E x \in Item : ~Used(x) /\ Hold(t, x)
                     /\ prio' = [prio EXCEPT ![t] = p]
                     /\ Goto(t, "enqueue")
                     /\ UNCHANGED << queues, size >>

(* queues_[index].enqueue(item) takes effect ...                           *)
Put(t) == /\ At(t, "enqueue")
          /\ Len(queues[prio[t]]) < Capacity[prio[t]]
          /\ queues' = [queues EXCEPT ![prio[t]] = Append(@, item[t])]
          /\ Goto(t, "put")
          /\ UNCHANGED << size, prio, item >>

(* ... or answers full ... *)
AnswerFull(t) == /\ At(t, "enqueue")
                 /\ \/ Len(queues[prio[t]]) = Capacity[prio[t]]
                    \/ Busy(prio[t], {"got"}) # {}
                 /\ Return(t)
                 /\ UNCHANGED << queues, size >>

(* ... and ends: true. *)
EndPut(t) == /\ At(t, "put")
             /\ Goto(t, "count")
             /\ UNCHANGED << queues, size, prio, item >>

(* size_.fetch_add(1).  (Slip: not counted.) *)
NotOneMore(n) == n
OneMore(n) == (n + 1) % SizeModulus
Count(t) == /\ At(t, "count")
            /\ size' = OneMore(size)
            /\ Return(t)
            /\ UNCHANGED queues

-----------------------------------------------------------------------------
CallDequeue(t, p) == /\ At(t, "idle")
                     /\ prio' = [prio EXCEPT ![t] = p]
                     /\ Goto(t, "check")
                     /\ UNCHANGED << queues, size, item >>

(* The early return on size_ == 0. *)
FindSizeZero(t) == /\ At(t, "check")
                   /\ size = 0
                   /\ Return(t)
                   /\ UNCHANGED << queues, size >>

FindSizeNonZero(t) == /\ At(t, "check")
                      /\ size # 0
                      /\ Goto(t, "dequeue")
                      /\ UNCHANGED << queues, size, prio, item >>

(* queues_[index].dequeue(item) takes effect ...  (Slip: the newest item.) *)
GetNewest(t) == /\ At(t, "dequeue")
                /\ queues[prio[t]] # << >>
                /\ Hold(t, queues[prio[t]][Len(queues[prio[t]])])
                /\ queues' = [queues EXCEPT ![prio[t]] =
                                  SubSeq(@, 1, Len(@) - 1)]
                /\ Goto(t, "got")
                /\ UNCHANGED << size, prio >>
Get(t) == /\ At(t, "dequeue")
          /\ queues[prio[t]] # << >>
          /\ Hold(t, Head(queues[prio[t]]))
          /\ queues' = [queues EXCEPT ![prio[t]] = Tail(@)]
          /\ Goto(t, "got")
          /\ UNCHANGED << size, prio >>

(* ... or answers empty ... *)
AnswerEmpty(t) == /\ At(t, "dequeue")
                  /\ \/ queues[prio[t]] = << >>
                     \/ \E u \in Busy(prio[t], {"put"}) :
                           Oldest(item[u], queues[prio[t]])
                  /\ Return(t)
                  /\ UNCHANGED << queues, size >>

(* ... and ends: true. *)
EndGet(t) == /\ At(t, "got")
             /\ Goto(t, "uncount")
             /\ UNCHANGED << queues, size, prio, item >>

(* size_.fetch_sub(1), modulo 2^64.  (Slip: it stops at 0.)                *)
OneLessNotBelowZero(n) == IF n = 0 THEN 0 ELSE n - 1
OneLess(n) == (n - 1) % SizeModulus
Uncount(t) == /\ At(t, "uncount")
              /\ size' = OneLess(size)
              /\ Return(t)
              /\ UNCHANGED queues

-----------------------------------------------------------------------------
(* What a thread in a call does next. *)
Proceed(t) == \/ Put(t)
              \/ AnswerFull(t)
              \/ EndPut(t)
              \/ Count(t)
              \/ FindSizeZero(t)
              \/ FindSizeNonZero(t)
              \/ Get(t)
              \/ AnswerEmpty(t)
              \/ EndGet(t)
              \/ Uncount(t)

Next == \E t \in Thread : \/ \E p \in Priority : \/ CallEnqueue(t, p)
                                                 \/ CallDequeue(t, p)
                          \/ Proceed(t)

Spec == Init /\ [][Next]_vars

(* Threads in a call run on, and one thread goes on asking every priority. *)
FairSpec == /\ Spec
            /\ \A t \in Thread : WF_vars(Proceed(t))
            /\ \A p \in Priority : SF_vars(CallDequeue(Poller, p))

-----------------------------------------------------------------------------
TypeOK == /\ queues \in [Priority -> Seq(Item)]
          /\ size \in 0 .. SizeModulus - 1
          /\ pc \in [Thread -> PC]
          /\ prio \in [Thread -> Priority \cup {NoPriority}]
          /\ item \in [Thread -> Item \cup {NoItem}]

Slots == UNION { {p} \X (1 .. Len(queues[p])) : p \in Priority }
Standing(places) == { t \in Thread : pc[t] \in places }

(* size_ is the number of queued items but for the calls that are between  *)
(* their effect and their count; taken modulo 2^64, it may pass below 0    *)
(* and come back.  In particular, once no enqueue is under way, size_ = 0  *)
(* only when every queue is empty: shutdown may trust is_empty.            *)
SizeExplained ==
    size = (Cardinality(Slots) - Cardinality(Standing({"put", "count"}))
                + Cardinality(Standing({"got", "uncount"}))) % SizeModulus

(* A thread in a call has named a priority, and one that puts something in *)
(* has something to put.  With that, and every set finite that is counted, *)
(* size_ is explained from step to step.                                   *)
IInv == /\ TypeOK
        /\ \A t \in Thread : pc[t] # "idle" => prio[t] \in Priority
        /\ \A t \in Thread : pc[t] = "enqueue" => item[t] \in Item
        /\ IsFiniteSet(Slots)
        /\ IsFiniteSet(Standing({"put", "count"}))
        /\ IsFiniteSet(Standing({"got", "uncount"}))
        /\ SizeExplained

(* Each inner queue is used as FifoQueue allows.                           *)
Phase(p, t) == IF prio[t] # p \/ pc[t] \in {"count", "check", "uncount"} THEN "idle"
               ELSE IF pc[t] = "enqueue" THEN "putting"
               ELSE IF pc[t] = "dequeue" THEN "getting"
               ELSE pc[t]
Carried(p, t) == IF prio[t] = p /\ pc[t] \in {"enqueue", "put", "got"}
                 THEN item[t] ELSE NoItem

Inner(p) == INSTANCE FifoQueue WITH
    Capacity <- Capacity[p],
    queue    <- queues[p],
    phase    <- [t \in Thread |-> Phase(p, t)],
    carried  <- [t \in Thread |-> Carried(p, t)]

UsesInnerQueues ==
    /\ \A p \in Priority : Inner(p)!Init
    /\ [][\A p \in Priority : Inner(p)!Next \/ UNCHANGED Inner(p)!vars]_vars

(* Once nothing is put in any more, everything that was comes out, and     *)
(* is_empty says so: what shutdown waits for (lc_thread_pool.h, line 298). *)
Quiet == Standing({"enqueue", "put", "count"}) = {}
Drained == size = 0 /\ \A p \in Priority : queues[p] = << >>

Drains == <>[]Quiet => <>[]Drained
=============================================================================
