------------------------- MODULE PriorityQueue_proofs -------------------------
(***************************************************************************)
(* PriorityQueue, for any threads, priorities and capacities and any width *)
(* of size_: the counter is explained by the calls under way, and the      *)
(* inner queues are used as FifoQueue says.                                *)
(***************************************************************************)
EXTENDS PriorityQueue, FiniteSetTheorems, TLAPS

-----------------------------------------------------------------------------
(* Counting modulo the width of size_. *)
LEMMA ZeroMultiple ==
    ASSUME NEW k \in Int, NEW m, m = SizeModulus * k,
           -SizeModulus < m, m < SizeModulus
    PROVE  k = 0
<1>. SizeModulus \in Nat \ {0}
  BY SizeModulusAssumption
<1>1. CASE k >= 1
  <2>1. SizeModulus * k >= SizeModulus * 1
    BY <1>1
  <2>. QED
    BY <2>1
<1>2. CASE k <= -1
  <2>1. SizeModulus * k <= SizeModulus * (-1)
    BY <1>2
  <2>. QED
    BY <2>1
<1>. QED
  BY <1>1, <1>2

Rest(d) == d % SizeModulus

(* m is the multiple that d lies on or above. *)
Below(d, m) == /\ \E k \in Int : m = SizeModulus * k
               /\ m \in Int /\ d - m \in 0 .. SizeModulus - 1

LEMMA Remainder ==
    ASSUME NEW d \in Int
    PROVE  \E m \in Int : Below(d, m) /\ Rest(d) = d - m
<1>. SizeModulus \in Nat \ {0}
  BY SizeModulusAssumption
<1>. DEFINE q == d \div SizeModulus
            r == d % SizeModulus
            m == SizeModulus * q
<1>1. q \in Int /\ r \in 0 .. SizeModulus - 1 /\ d = m + r /\ m \in Int
  OBVIOUS
<1>2. r = Rest(d)
  BY DEF Rest
<1>3. \E k \in Int : m = SizeModulus * k
  BY <1>1
<1>. HIDE DEF q, r, m
<1>4. d - m = r
  BY <1>1
<1>5. Below(d, m)
  BY <1>1, <1>3, <1>4 DEF Below
<1>. QED
  BY <1>1, <1>2, <1>4, <1>5

LEMMA OneBelow ==
    ASSUME NEW d \in Int, NEW m \in Int, NEW n \in Int, Below(d, m), Below(d, n)
    PROVE  m = n
<1>. SizeModulus \in Nat \ {0}
  BY SizeModulusAssumption
<1>1. PICK k \in Int : m = SizeModulus * k
  BY DEF Below
<1>2. PICK l \in Int : n = SizeModulus * l
  BY DEF Below
<1>3. SizeModulus * (k - l) = SizeModulus * k - SizeModulus * l
  OBVIOUS
<1>4. m - n = SizeModulus * (k - l)
  BY <1>1, <1>2, <1>3
<1>5. -SizeModulus < m - n /\ m - n < SizeModulus
  BY DEF Below
<1>6. k - l \in Int
  OBVIOUS
<1>7. k - l = 0
  BY <1>4, <1>5, <1>6, ZeroMultiple
<1>8. k = l
  BY <1>7
<1>. QED
  BY <1>1, <1>2, <1>8

LEMMA RestIs ==
    ASSUME NEW d \in Int, NEW m \in Int, Below(d, m) PROVE Rest(d) = d - m
  BY Remainder, OneBelow

LEMMA Multiples ==
    /\ Below(0, 0)
    /\ \A d, m \in Int : Below(d, m) =>
          /\ d + 1 - m < SizeModulus => Below(d + 1, m)
          /\ d + 1 - m = SizeModulus => Below(d + 1, m + SizeModulus)
          /\ d - m >= 1 => Below(d - 1, m)
          /\ d - m = 0 => Below(d - 1, m - SizeModulus)
<1>. SizeModulus \in Nat \ {0}
  BY SizeModulusAssumption
<1>1. Below(0, 0)
  <2>1. 0 = SizeModulus * 0
    OBVIOUS
  <2>. QED
    BY <2>1 DEF Below
<1>. SUFFICES ASSUME NEW d \in Int, NEW m \in Int, Below(d, m)
              PROVE  /\ d + 1 - m < SizeModulus => Below(d + 1, m)
                     /\ d + 1 - m = SizeModulus => Below(d + 1, m + SizeModulus)
                     /\ d - m >= 1 => Below(d - 1, m)
                     /\ d - m = 0 => Below(d - 1, m - SizeModulus)
  BY <1>1
<1>2. PICK k \in Int : m = SizeModulus * k
  BY DEF Below
<1>3. /\ SizeModulus * (k + 1) = SizeModulus * k + SizeModulus
      /\ SizeModulus * (k - 1) = SizeModulus * k - SizeModulus
  OBVIOUS
<1>4. /\ \E l \in Int : m + SizeModulus = SizeModulus * l
      /\ \E l \in Int : m - SizeModulus = SizeModulus * l
  <2>1. m + SizeModulus = SizeModulus * (k + 1) /\ m - SizeModulus = SizeModulus * (k - 1)
    BY <1>2, <1>3
  <2>2. k + 1 \in Int /\ k - 1 \in Int
    OBVIOUS
  <2>. QED
    BY <2>1, <2>2
<1>5. d - m \in 0 .. SizeModulus - 1
  BY DEF Below
<1>. QED
  BY <1>2, <1>4, <1>5 DEF Below

(* To count one more, or one less, and to take the remainder commute. *)
LEMMA CountModulo ==
    ASSUME NEW d \in Int
    PROVE  /\ OneMore(d % SizeModulus) = (d + 1) % SizeModulus
           /\ OneLess(d % SizeModulus) = (d - 1) % SizeModulus
<1>. SizeModulus \in Nat \ {0}
  BY SizeModulusAssumption
<1>1. PICK m \in Int : Below(d, m) /\ Rest(d) = d - m
  BY Remainder
<1>. DEFINE s == d - m
<1>2. s \in 0 .. SizeModulus - 1 /\ s \in Int
  BY <1>1 DEF Below
<1>3. Below(s, 0)
  <2>1. 0 = SizeModulus * 0
    OBVIOUS
  <2>. QED
    BY <1>2, <2>1 DEF Below
<1>4. Rest(s + 1) = Rest(d + 1)
  <2>1. CASE s + 1 < SizeModulus
    <3>1. Below(s + 1, 0) /\ Below(d + 1, m)
      BY <1>1, <1>2, <1>3, <2>1, Multiples
    <3>2. Rest(s + 1) = (s + 1) - 0
      BY <3>1, RestIs
    <3>3. Rest(d + 1) = (d + 1) - m
      BY <3>1, RestIs
    <3>. QED
      BY <3>2, <3>3
  <2>2. CASE s + 1 = SizeModulus
    <3>1. Below(s + 1, 0 + SizeModulus) /\ Below(d + 1, m + SizeModulus)
      BY <1>1, <1>2, <1>3, <2>2, Multiples
    <3>2. Rest(s + 1) = (s + 1) - (0 + SizeModulus)
      BY <3>1, RestIs
    <3>3. Rest(d + 1) = (d + 1) - (m + SizeModulus)
      BY <3>1, RestIs
    <3>. QED
      BY <3>2, <3>3
  <2>. QED
    BY <1>2, <2>1, <2>2
<1>5. Rest(s - 1) = Rest(d - 1)
  <2>1. CASE s >= 1
    <3>1. Below(s - 1, 0) /\ Below(d - 1, m)
      BY <1>1, <1>2, <1>3, <2>1, Multiples
    <3>2. Rest(s - 1) = (s - 1) - 0
      BY <3>1, RestIs
    <3>3. Rest(d - 1) = (d - 1) - m
      BY <3>1, RestIs
    <3>. QED
      BY <3>2, <3>3
  <2>2. CASE s = 0
    <3>1. Below(s - 1, 0 - SizeModulus) /\ Below(d - 1, m - SizeModulus)
      BY <1>1, <1>2, <1>3, <2>2, Multiples
    <3>2. Rest(s - 1) = (s - 1) - (0 - SizeModulus)
      BY <3>1, RestIs
    <3>3. Rest(d - 1) = (d - 1) - (m - SizeModulus)
      BY <3>1, RestIs
    <3>. QED
      BY <3>2, <3>3
  <2>. QED
    BY <1>2, <2>1, <2>2
<1>. QED
  BY <1>1, <1>4, <1>5 DEF Rest, OneMore, OneLess

-----------------------------------------------------------------------------
(* What is counted: threads at places, and slots of the queues. *)
Moves(t, place) == pc' = [pc EXCEPT ![t] = place]

LEMMA StandingMoves ==
    ASSUME pc \in [Thread -> PC], NEW t \in Thread, NEW place \in PC,
           Moves(t, place), NEW S, IsFiniteSet(Standing(S))
    PROVE  /\ Cardinality(Standing(S)) \in Nat
           /\ IsFiniteSet(Standing(S)')
           /\ Cardinality(Standing(S)') =
                 Cardinality(Standing(S)) + (IF place \in S THEN 1 ELSE 0)
                                          - (IF pc[t] \in S THEN 1 ELSE 0)
<1>1. Cardinality(Standing(S)) \in Nat
  BY FS_CardinalityType
<1>2. pc'[t] = place /\ \A u \in Thread \ {t} : pc'[u] = pc[u]
  BY DEF Moves
<1>3. CASE place \in S <=> pc[t] \in S
  <2>1. Standing(S)' = Standing(S)
    BY <1>2, <1>3 DEF Standing
  <2>. QED
    BY <1>1, <1>3, <2>1
<1>4. CASE place \in S /\ pc[t] \notin S
  <2>1. Standing(S)' = Standing(S) \cup {t} /\ t \notin Standing(S)
    BY <1>2, <1>4 DEF Standing
  <2>. QED
    BY <1>1, <1>4, <2>1, FS_AddElement
<1>5. CASE place \notin S /\ pc[t] \in S
  <2>1. Standing(S)' = Standing(S) \ {t} /\ t \in Standing(S)
    BY <1>2, <1>5 DEF Standing
  <2>. QED
    BY <1>1, <1>5, <2>1, FS_RemoveElement
<1>. QED
  BY <1>3, <1>4, <1>5

LEMMA IsSlot == \A s : s \in Slots <=> \E p \in Priority :
                         \E i \in 1 .. Len(queues[p]) : s = << p, i >>
  BY DEF Slots

LEMMA SlotsGrow ==
    ASSUME queues \in [Priority -> Seq(Item)], NEW p \in Priority, NEW x \in Item,
           queues' = [queues EXCEPT ![p] = Append(queues[p], x)],
           IsFiniteSet(Slots)
    PROVE  IsFiniteSet(Slots') /\ Cardinality(Slots') = Cardinality(Slots) + 1
<1>. DEFINE n == Len(queues[p])
            s == << p, n + 1 >>
<1>1. queues[p] \in Seq(Item) /\ n \in Nat
  OBVIOUS
<1>2. Len(queues'[p]) = n + 1 /\ \A q \in Priority \ {p} : queues'[q] = queues[q]
  BY <1>1
<1>3. s \notin Slots
  BY <1>1, IsSlot
<1>4. \A z : z \in Slots' <=> \E q \in Priority :
                  \E i \in 1 .. Len(queues'[q]) : z = << q, i >>
  BY DEF Slots
<1>5. Slots' = Slots \cup {s}
  <2>. HIDE DEF n
  <2>1. 1 .. n + 1 = (1 .. n) \cup {n + 1}
    BY <1>1
  <2>. QED
    BY <1>2, <1>4, <2>1, IsSlot DEF n
<1>. HIDE DEF s
<1>. QED
  BY <1>3, <1>5, FS_AddElement

LEMMA SlotsShrink ==
    ASSUME queues \in [Priority -> Seq(Item)], NEW p \in Priority,
           queues[p] # << >>, queues' = [queues EXCEPT ![p] = Tail(queues[p])],
           IsFiniteSet(Slots)
    PROVE  IsFiniteSet(Slots') /\ Cardinality(Slots') = Cardinality(Slots) - 1
<1>. DEFINE n == Len(queues[p])
            s == << p, n >>
<1>1. queues[p] \in Seq(Item) /\ n \in Nat /\ n >= 1
  OBVIOUS
<1>2. Len(queues'[p]) = n - 1 /\ \A q \in Priority \ {p} : queues'[q] = queues[q]
  BY <1>1
<1>3. s \in Slots
  BY <1>1, IsSlot
<1>4. \A z : z \in Slots' <=> \E q \in Priority :
                  \E i \in 1 .. Len(queues'[q]) : z = << q, i >>
  BY DEF Slots
<1>5. Slots' = Slots \ {s}
  <2>. HIDE DEF n
  <2>1. 1 .. n - 1 = (1 .. n) \ {n}
    BY <1>1
  <2>. QED
    BY <1>2, <1>4, <2>1, IsSlot DEF n
<1>. HIDE DEF s
<1>. QED
  BY <1>3, <1>5, FS_RemoveElement

-----------------------------------------------------------------------------
(* The calls between their effect and their count. *)
Putting == {"put", "count"}
Getting == {"got", "uncount"}

CountInv == /\ IsFiniteSet(Slots) /\ IsFiniteSet(Standing(Putting))
            /\ IsFiniteSet(Standing(Getting)) /\ SizeExplained

(* What size_ should be, were it an integer. *)
Balance == Cardinality(Slots) - Cardinality(Standing(Putting))
                              + Cardinality(Standing(Getting))

LEMMA BalanceIs ==
    ASSUME CountInv
    PROVE  /\ Cardinality(Slots) \in Nat
           /\ Cardinality(Standing(Putting)) \in Nat
           /\ Cardinality(Standing(Getting)) \in Nat
           /\ Balance \in Int /\ size = Balance % SizeModulus
<1>1. /\ Cardinality(Slots) \in Nat
      /\ Cardinality(Standing(Putting)) \in Nat
      /\ Cardinality(Standing(Getting)) \in Nat
  BY FS_CardinalityType DEF CountInv
<1>2. size = Balance % SizeModulus
  BY DEF CountInv, SizeExplained, Balance, Putting, Getting
<1>. QED
  BY <1>1, <1>2 DEF Balance

LEMMA CountsStay ==
    ASSUME CountInv, pc \in [Thread -> PC], NEW t \in Thread, NEW place \in PC,
           Moves(t, place), UNCHANGED << queues, size >>,
           place \in Putting <=> pc[t] \in Putting,
           place \in Getting <=> pc[t] \in Getting
    PROVE  CountInv'
<1>1. Slots' = Slots
  BY DEF Slots
<1>2. \A u \in Thread : /\ pc'[u] \in Putting <=> pc[u] \in Putting
                        /\ pc'[u] \in Getting <=> pc[u] \in Getting
  BY DEF Moves
<1>3. Standing(Putting)' = Standing(Putting) /\ Standing(Getting)' = Standing(Getting)
  BY <1>2 DEF Standing
<1>. QED
  BY <1>1, <1>3 DEF CountInv, SizeExplained, Putting, Getting

(* A step that changes the counts moves size_ with their balance. *)
LEMMA CountsMove ==
    ASSUME CountInv, pc \in [Thread -> PC], NEW t \in Thread, NEW place \in PC,
           Moves(t, place), IsFiniteSet(Slots'),
           \/ /\ pc[t] = "enqueue" /\ place = "put" /\ size' = size
              /\ Cardinality(Slots') = Cardinality(Slots) + 1
           \/ /\ pc[t] = "count" /\ place = "idle" /\ size' = OneMore(size)
              /\ Cardinality(Slots') = Cardinality(Slots)
           \/ /\ pc[t] = "dequeue" /\ place = "got" /\ size' = size
              /\ Cardinality(Slots') = Cardinality(Slots) - 1
           \/ /\ pc[t] = "uncount" /\ place = "idle" /\ size' = OneLess(size)
              /\ Cardinality(Slots') = Cardinality(Slots)
    PROVE  CountInv'
<1>. DEFINE s1 == Cardinality(Slots)
            p1 == Cardinality(Standing(Putting))
            g1 == Cardinality(Standing(Getting))
            s2 == Cardinality(Slots')
            p2 == Cardinality(Standing(Putting)')
            g2 == Cardinality(Standing(Getting)')
<1>1. s1 \in Nat /\ p1 \in Nat /\ g1 \in Nat /\ size = Balance % SizeModulus
      /\ Balance = s1 - p1 + g1 /\ Balance \in Int
  BY BalanceIs DEF Balance
<1>2. /\ IsFiniteSet(Standing(Putting)')
      /\ p2 = p1 + (IF place \in Putting THEN 1 ELSE 0)
                 - (IF pc[t] \in Putting THEN 1 ELSE 0)
  BY StandingMoves DEF CountInv
<1>3. /\ IsFiniteSet(Standing(Getting)')
      /\ g2 = g1 + (IF place \in Getting THEN 1 ELSE 0)
                 - (IF pc[t] \in Getting THEN 1 ELSE 0)
  BY StandingMoves DEF CountInv
<1>4. Balance' = s2 - p2 + g2
  BY DEF Balance
<1>5. /\ OneMore(size) = (Balance + 1) % SizeModulus
      /\ OneLess(size) = (Balance - 1) % SizeModulus
  BY <1>1, CountModulo
<1>. HIDE DEF s1, p1, g1, s2, p2, g2
<1>6. size' = Balance' % SizeModulus
  <2>1. CASE pc[t] = "enqueue" /\ place = "put"
    <3>1. p2 = p1 + 1 /\ g2 = g1
      BY <1>1, <1>2, <1>3, <2>1 DEF Putting, Getting
    <3>2. s2 = s1 + 1 /\ size' = size
      BY <2>1 DEF s1, s2
    <3>3. Balance' = Balance
      BY <1>1, <1>4, <3>1, <3>2
    <3>. QED
      BY <1>1, <3>2, <3>3
  <2>2. CASE pc[t] = "count" /\ place = "idle"
    <3>1. p2 = p1 - 1 /\ g2 = g1
      BY <1>1, <1>2, <1>3, <2>2 DEF Putting, Getting
    <3>2. s2 = s1 /\ size' = OneMore(size)
      BY <2>2 DEF s1, s2
    <3>3. Balance' = Balance + 1
      BY <1>1, <1>4, <3>1, <3>2
    <3>. QED
      BY <1>5, <3>2, <3>3
  <2>3. CASE pc[t] = "dequeue" /\ place = "got"
    <3>1. p2 = p1 /\ g2 = g1 + 1
      BY <1>1, <1>2, <1>3, <2>3 DEF Putting, Getting
    <3>2. s2 = s1 - 1 /\ size' = size
      BY <2>3 DEF s1, s2
    <3>3. Balance' = Balance
      BY <1>1, <1>4, <3>1, <3>2
    <3>. QED
      BY <1>1, <3>2, <3>3
  <2>4. CASE pc[t] = "uncount" /\ place = "idle"
    <3>1. p2 = p1 /\ g2 = g1 - 1
      BY <1>1, <1>2, <1>3, <2>4 DEF Putting, Getting
    <3>2. s2 = s1 /\ size' = OneLess(size)
      BY <2>4 DEF s1, s2
    <3>3. Balance' = Balance - 1
      BY <1>1, <1>4, <3>1, <3>2
    <3>. QED
      BY <1>5, <3>2, <3>3
  <2>. QED
    BY <2>1, <2>2, <2>3, <2>4
<1>7. SizeExplained'
  BY <1>6 DEF SizeExplained, Balance, Putting, Getting
<1>. QED
  BY <1>2, <1>3, <1>7 DEF CountInv

-----------------------------------------------------------------------------
(* The inductive invariant, in two parts. *)
CallInv == /\ TypeOK
           /\ \A t \in Thread : pc[t] # "idle" => prio[t] \in Priority
           /\ \A t \in Thread : pc[t] = "enqueue" => item[t] \in Item

LEMMA Parts == IInv <=> CallInv /\ CountInv
  BY DEF IInv, CallInv, CountInv, Putting, Getting

LEMMA PartsNext == CallInv' /\ CountInv' => IInv'
  BY Parts, PTL

(* Every step of a thread: where it goes, and what it then has. *)
Goes(t, place, q, x) == /\ Moves(t, place)
                        /\ prio' = [prio EXCEPT ![t] = q]
                        /\ item' = [item EXCEPT ![t] = x]
                        /\ place # "idle" => q \in Priority
                        /\ place = "enqueue" => x \in Item

LEMMA CallStep ==
    ASSUME CallInv, NEW t \in Thread, NEW place \in PC,
           NEW q \in Priority \cup {NoPriority}, NEW x \in Item \cup {NoItem},
           Goes(t, place, q, x),
           queues' \in [Priority -> Seq(Item)], size' \in 0 .. SizeModulus - 1
    PROVE  CallInv'
<1>1. TypeOK'
  BY DEF CallInv, TypeOK, Moves, Goes
<1>2. \A u \in Thread : pc'[u] # "idle" => prio'[u] \in Priority
  BY DEF CallInv, TypeOK, Moves, Goes
<1>3. \A u \in Thread : pc'[u] = "enqueue" => item'[u] \in Item
  BY DEF CallInv, TypeOK, Moves, Goes
<1>. QED
  BY <1>1, <1>2, <1>3 DEF CallInv

LEMMA QuietStep ==
    ASSUME IInv, NEW t \in Thread, NEW place \in PC,
           NEW q \in Priority \cup {NoPriority}, NEW x \in Item \cup {NoItem},
           Goes(t, place, q, x), UNCHANGED << queues, size >>,
           place \in Putting <=> pc[t] \in Putting,
           place \in Getting <=> pc[t] \in Getting
    PROVE  IInv'
<1>1. CallInv /\ CountInv
  BY Parts
<1>2. CallInv'
  BY <1>1, CallStep DEF CallInv, TypeOK
<1>3. CountInv'
  BY <1>1, CountsStay DEF CallInv, TypeOK, Goes
<1>. QED
  BY <1>2, <1>3, PartsNext

(* What a thread in a call has, and what leaving one as it is looks like. *)
LEMMA Has ==
    ASSUME IInv, NEW t \in Thread
    PROVE  /\ prio[t] \in Priority \cup {NoPriority} /\ item[t] \in Item \cup {NoItem}
           /\ pc[t] # "idle" => prio[t] \in Priority
           /\ pc[t] = "enqueue" => item[t] \in Item
           /\ prio = [prio EXCEPT ![t] = prio[t]]
           /\ item = [item EXCEPT ![t] = item[t]]
           /\ queues \in [Priority -> Seq(Item)]
           /\ pc \in [Thread -> PC] /\ size \in 0 .. SizeModulus - 1
  BY DEF IInv, TypeOK

LEMMA ReturnGoes ==
    ASSUME NEW t, Return(t) PROVE Goes(t, "idle", NoPriority, NoItem)
  BY DEF Return, Goto, Hold, Goes, Moves

LEMMA OnGoes ==
    ASSUME IInv, NEW t \in Thread, NEW place, Goto(t, place), place # "enqueue",
           UNCHANGED << prio, item >>, pc[t] # "idle"
    PROVE  Goes(t, place, prio[t], item[t])
  BY Has DEF Goto, Goes, Moves

LEMMA QuietNext ==
    ASSUME IInv, NEW t \in Thread,
           \/ \E p \in Priority : CallEnqueue(t, p) \/ CallDequeue(t, p)
           \/ AnswerFull(t) \/ EndPut(t) \/ FindSizeZero(t) \/ FindSizeNonZero(t)
           \/ AnswerEmpty(t) \/ EndGet(t)
    PROVE  IInv'
<1>1. ASSUME NEW p \in Priority, CallEnqueue(t, p) PROVE IInv'
  <2>1. PICK x \in Item : Hold(t, x)
    BY <1>1 DEF CallEnqueue
  <2>2. Goes(t, "enqueue", p, x)
    BY <1>1, <2>1 DEF CallEnqueue, Hold, Goto, Goes, Moves
  <2>. QED
    BY <1>1, <2>2, QuietStep DEF CallEnqueue, At, PC, Putting, Getting
<1>2. ASSUME NEW p \in Priority, CallDequeue(t, p) PROVE IInv'
  <2>1. Goes(t, "check", p, item[t])
    BY <1>2, Has DEF CallDequeue, Goto, Goes, Moves
  <2>. QED
    BY <1>2, <2>1, Has, QuietStep DEF CallDequeue, At, PC, Putting, Getting
<1>3. CASE AnswerFull(t)
  BY <1>3, ReturnGoes, QuietStep DEF AnswerFull, At, PC, Putting, Getting
<1>4. CASE FindSizeZero(t)
  BY <1>4, ReturnGoes, QuietStep DEF FindSizeZero, At, PC, Putting, Getting
<1>5. CASE AnswerEmpty(t)
  BY <1>5, ReturnGoes, QuietStep DEF AnswerEmpty, At, PC, Putting, Getting
<1>6. CASE EndPut(t)
  <2>1. Goes(t, "count", prio[t], item[t])
    BY <1>6, OnGoes DEF EndPut, At
  <2>. QED
    BY <1>6, <2>1, Has, QuietStep DEF EndPut, At, PC, Putting, Getting
<1>7. CASE FindSizeNonZero(t)
  <2>1. Goes(t, "dequeue", prio[t], item[t])
    BY <1>7, OnGoes DEF FindSizeNonZero, At
  <2>. QED
    BY <1>7, <2>1, Has, QuietStep DEF FindSizeNonZero, At, PC, Putting, Getting
<1>8. CASE EndGet(t)
  <2>1. Goes(t, "uncount", prio[t], item[t])
    BY <1>8, OnGoes DEF EndGet, At
  <2>. QED
    BY <1>8, <2>1, Has, QuietStep DEF EndGet, At, PC, Putting, Getting
<1>. QED
  BY <1>1, <1>2, <1>3, <1>4, <1>5, <1>6, <1>7, <1>8

LEMMA PutNext ==
    ASSUME IInv, NEW t \in Thread, Put(t) PROVE IInv'
<1>. DEFINE p == prio[t]
            x == item[t]
<1>1. /\ pc[t] = "enqueue" /\ p \in Priority /\ x \in Item
      /\ queues' = [queues EXCEPT ![p] = Append(queues[p], x)] /\ size' = size
  BY Has DEF Put, At
<1>2. Goes(t, "put", p, x)
  BY <1>1, OnGoes DEF Put
<1>3. queues \in [Priority -> Seq(Item)] /\ Append(queues[p], x) \in Seq(Item)
  BY <1>1, Has
<1>4. queues' \in [Priority -> Seq(Item)]
  BY <1>1, <1>3
<1>. HIDE DEF p, x
<1>5. IsFiniteSet(Slots') /\ Cardinality(Slots') = Cardinality(Slots) + 1
  BY <1>1, <1>3, SlotsGrow DEF IInv
<1>6. CallInv'
  BY <1>1, <1>2, <1>4, Has, Parts, CallStep DEF PC
<1>7. CountInv'
  BY <1>1, <1>2, <1>5, Has, Parts, CountsMove DEF PC, Goes
<1>. QED
  BY <1>6, <1>7, PartsNext

LEMMA GetNext ==
    ASSUME IInv, NEW t \in Thread, Get(t) PROVE IInv'
<1>. DEFINE p == prio[t]
            x == Head(queues[p])
<1>1. /\ pc[t] = "dequeue" /\ p \in Priority /\ queues[p] # << >>
      /\ queues' = [queues EXCEPT ![p] = Tail(queues[p])] /\ size' = size
  BY Has DEF Get, At
<1>2. /\ queues \in [Priority -> Seq(Item)] /\ queues[p] \in Seq(Item)
      /\ x \in Item /\ Tail(queues[p]) \in Seq(Item)
  BY <1>1, Has
<1>3. Goes(t, "got", p, x)
  BY <1>1, Has DEF Get, Goto, Hold, Goes, Moves
<1>4. queues' \in [Priority -> Seq(Item)]
  BY <1>1, <1>2
<1>. HIDE DEF p, x
<1>5. IsFiniteSet(Slots') /\ Cardinality(Slots') = Cardinality(Slots) - 1
  BY <1>1, <1>2, SlotsShrink DEF IInv
<1>6. CallInv'
  BY <1>1, <1>2, <1>3, <1>4, Has, Parts, CallStep DEF PC
<1>7. CountInv'
  BY <1>1, <1>3, <1>5, Has, Parts, CountsMove DEF PC, Goes
<1>. QED
  BY <1>6, <1>7, PartsNext

LEMMA CountNext ==
    ASSUME IInv, NEW t \in Thread, Count(t) \/ Uncount(t) PROVE IInv'
<1>1. Goes(t, "idle", NoPriority, NoItem) /\ queues' = queues
  BY ReturnGoes DEF Count, Uncount
<1>2. \/ pc[t] = "count" /\ size' = OneMore(size)
      \/ pc[t] = "uncount" /\ size' = OneLess(size)
  BY DEF Count, Uncount, At
<1>3. Slots' = Slots
  BY <1>1 DEF Slots
<1>4. size' \in 0 .. SizeModulus - 1
  BY <1>2, Has, SizeModulusAssumption DEF OneMore, OneLess
<1>5. CallInv'
  BY <1>1, <1>4, Has, Parts, CallStep DEF PC
<1>6. CountInv'
  BY <1>1, <1>2, <1>3, Has, Parts, CountsMove DEF PC, Goes, CountInv
<1>. QED
  BY <1>5, <1>6, PartsNext

LEMMA InvInit == Init => IInv
<1>. SUFFICES ASSUME Init PROVE IInv
  OBVIOUS
<1>1. CallInv
  BY SizeModulusAssumption DEF Init, CallInv, TypeOK, PC
<1>2. Slots = {} /\ Standing(Putting) = {} /\ Standing(Getting) = {}
  BY DEF Init, Slots, Standing, Putting, Getting
<1>3. Balance = 0
  BY <1>2, FS_EmptySet DEF Balance
<1>4. Rest(0) = 0
  BY Multiples, RestIs
<1>5. SizeExplained
  BY <1>3, <1>4 DEF Init, SizeExplained, Balance, Rest, Putting, Getting
<1>. QED
  BY <1>1, <1>2, <1>5, FS_EmptySet, Parts DEF CountInv

LEMMA InvNext == IInv /\ [Next]_vars => IInv'
<1>. SUFFICES ASSUME IInv, [Next]_vars PROVE IInv'
  OBVIOUS
<1>1. ASSUME NEW t \in Thread, NEW p \in Priority, CallEnqueue(t, p) \/ CallDequeue(t, p)
      PROVE  IInv'
  BY <1>1, QuietNext
<1>2. ASSUME NEW t \in Thread, Proceed(t) PROVE IInv'
  BY <1>2, QuietNext, PutNext, GetNext, CountNext DEF Proceed
<1>3. CASE UNCHANGED vars
  BY <1>3 DEF vars, IInv, TypeOK, Slots, Standing, SizeExplained
<1>. QED
  BY <1>1, <1>2, <1>3 DEF Next

(* A thread in a call has a priority and what it puts in, and the counter   *)
(* follows: from every step to the next.                                    *)
THEOREM Invariance == Spec => []IInv
  BY InvInit, InvNext, PTL DEF Spec

(* size_ counts what is queued but for the calls between their effect and   *)
(* their count, modulo its width, however many threads are there at once.   *)
THEOREM SizeIsExplained == Spec => []SizeExplained
<1>1. IInv => SizeExplained
  BY DEF IInv
<1>. QED
  BY <1>1, Invariance, PTL

-----------------------------------------------------------------------------
(* The inner queues. *)
LEMMA InnerInit == Init => \A p \in Priority : Inner(p)!Init
<1>. SUFFICES ASSUME Init, NEW p \in Priority PROVE Inner(p)!Init
  OBVIOUS
<1>1. /\ queues[p] = << >>
      /\ \A t \in Thread : Phase(p, t) = "idle" /\ Carried(p, t) = NoItem
  BY DEF Init, Phase, Carried
<1>. QED
  BY <1>1 DEF Inner!Init

(* A step of t changes t's call alone ... *)
LEMMA OthersStay ==
    ASSUME IInv, NEW t \in Thread, NEW place, NEW q, NEW x, Goes(t, place, q, x)
    PROVE  /\ pc'[t] = place /\ prio'[t] = q /\ item'[t] = x
           /\ \A u \in Thread \ {t} : UNCHANGED << pc[u], prio[u], item[u] >>
  BY DEF IInv, TypeOK, Goes, Moves

LEMMA InnerBecomes ==
    ASSUME IInv, NEW t \in Thread, NEW place, NEW q, NEW x, Goes(t, place, q, x),
           NEW p, NEW s, NEW c, s = Phase(p, t)', c = Carried(p, t)'
    PROVE  Inner(p)!Become(t, s, c)
<1>1. \A u \in Thread \ {t} : Phase(p, u)' = Phase(p, u) /\ Carried(p, u)' = Carried(p, u)
  BY OthersStay DEF Phase, Carried
<1>2. [u \in Thread |-> Phase(p, u)]' = [[u \in Thread |-> Phase(p, u)] EXCEPT ![t] = s]
  BY <1>1
<1>3. [u \in Thread |-> Carried(p, u)]' = [[u \in Thread |-> Carried(p, u)] EXCEPT ![t] = c]
  BY <1>1
<1>. QED
  BY <1>2, <1>3 DEF Inner!Become

(* ... and is none for the queue of another priority, or as far as the     *)
(* thread is between two calls of this one.                                *)
LEMMA InnerStays ==
    ASSUME IInv, NEW t \in Thread, NEW place, NEW q, NEW x, Goes(t, place, q, x),
           NEW p, queues'[p] = queues[p], Phase(p, t)' = Phase(p, t),
           Carried(p, t)' = Carried(p, t)
    PROVE  UNCHANGED Inner(p)!vars
<1>1. \A u \in Thread \ {t} : Phase(p, u)' = Phase(p, u) /\ Carried(p, u)' = Carried(p, u)
  BY OthersStay DEF Phase, Carried
<1>2. /\ [u \in Thread |-> Phase(p, u)]' = [u \in Thread |-> Phase(p, u)]
      /\ [u \in Thread |-> Carried(p, u)]' = [u \in Thread |-> Carried(p, u)]
  BY <1>1
<1>. QED
  BY <1>2 DEF Inner!vars

InnerStep(p) == Inner(p)!Next \/ UNCHANGED Inner(p)!vars

LEMMA OtherQueue ==
    ASSUME IInv, NEW t \in Thread, NEW place, NEW q, NEW x, Goes(t, place, q, x),
           NEW p, queues'[p] = queues[p], prio[t] # p, q # p
    PROVE  InnerStep(p)
<1>1. Phase(p, t)' = Phase(p, t) /\ Carried(p, t)' = Carried(p, t)
  BY OthersStay DEF Phase, Carried
<1>. QED
  BY <1>1, InnerStays DEF InnerStep

LEMMA CallRefines ==
    ASSUME IInv, NEW t \in Thread, NEW r \in Priority, NEW p \in Priority,
           CallEnqueue(t, r) \/ CallDequeue(t, r)
    PROVE  InnerStep(p)
<1>1. /\ pc[t] = "idle" /\ queues' = queues
      /\ Phase(p, t) = "idle" /\ Carried(p, t) = NoItem
  BY DEF CallEnqueue, CallDequeue, At, Phase, Carried
<1>2. CASE CallEnqueue(t, r)
  <2>1. PICK x \in Item : Hold(t, x)
    BY <1>2 DEF CallEnqueue
  <2>2. Goes(t, "enqueue", r, x)
    BY <1>2, <2>1 DEF CallEnqueue, Hold, Goto, Goes, Moves
  <2>3. CASE r = p
    <3>1. Phase(p, t)' = "putting" /\ Carried(p, t)' = x
      BY <2>2, <2>3, OthersStay DEF Phase, Carried
    <3>2. Inner(p)!Become(t, "putting", x)
      BY <2>2, <3>1, InnerBecomes
    <3>. QED
      BY <1>1, <3>2 DEF InnerStep, Inner!Next, Inner!Begin
  <2>4. CASE r # p
    <3>1. Phase(p, t)' = "idle" /\ Carried(p, t)' = NoItem
      BY <2>2, <2>4, OthersStay DEF Phase, Carried
    <3>. QED
      BY <1>1, <2>2, <3>1, InnerStays DEF InnerStep
  <2>. QED
    BY <2>3, <2>4
<1>3. CASE CallDequeue(t, r)
  <2>1. Goes(t, "check", r, item[t])
    BY <1>3, Has DEF CallDequeue, Goto, Goes, Moves
  <2>2. Phase(p, t)' = "idle" /\ Carried(p, t)' = NoItem
    BY <2>1, OthersStay DEF Phase, Carried
  <2>. QED
    BY <1>1, <2>1, <2>2, InnerStays DEF InnerStep
<1>. QED
  BY <1>2, <1>3

(* The calls that answer false, and the ends of the calls that took effect. *)
LEMMA AnswerRefines ==
    ASSUME IInv, NEW t \in Thread, NEW p \in Priority,
           \/ AnswerFull(t) \/ AnswerEmpty(t) \/ EndPut(t) \/ EndGet(t)
    PROVE  InnerStep(p)
<1>1. /\ prio[t] \in Priority /\ prio[t] # NoPriority /\ queues' = queues
      /\ pc[t] \in {"enqueue", "dequeue", "put", "got"}
  BY Has, NoPriorityAssumption DEF AnswerFull, AnswerEmpty, EndPut, EndGet, At
<1>2. /\ AnswerFull(t) \/ AnswerEmpty(t) => Goes(t, "idle", NoPriority, NoItem)
      /\ EndPut(t) => Goes(t, "count", prio[t], item[t])
      /\ EndGet(t) => Goes(t, "uncount", prio[t], item[t])
  BY <1>1, ReturnGoes, OnGoes DEF AnswerFull, AnswerEmpty, EndPut, EndGet
<1>3. CASE prio[t] # p
  BY <1>1, <1>2, <1>3, OtherQueue, NoPriorityAssumption
<1>4. CASE prio[t] = p
  <2>1. Phase(p, t)' = "idle" /\ Carried(p, t)' = NoItem
    BY <1>1, <1>2, <1>4, OthersStay DEF Phase, Carried
  <2>2. Inner(p)!Become(t, "idle", NoItem)
    BY <1>2, <2>1, InnerBecomes
  <2>3. CASE AnswerFull(t)
    <3>1. Phase(p, t) = "putting"
      BY <1>4, <2>3 DEF AnswerFull, At, Phase
    <3>2. \/ Len(queues[p]) = Capacity[p]
          \/ \E u \in Thread : Phase(p, u) = "got"
      BY <1>4, <2>3 DEF AnswerFull, Busy, Phase
    <3>. QED
      BY <1>1, <2>2, <3>1, <3>2 DEF InnerStep, Inner!Next, Inner!AnswerFull
  <2>4. CASE AnswerEmpty(t)
    <3>1. Phase(p, t) = "getting"
      BY <1>4, <2>4 DEF AnswerEmpty, At, Phase
    <3>2. \/ queues[p] = << >>
          \/ \E u \in Thread : /\ Phase(p, u) = "put"
                               /\ Inner(p)!Oldest(Carried(p, u), queues[p])
      BY <1>4, <2>4 DEF AnswerEmpty, Busy, Phase, Carried, Oldest, Inner!Oldest
    <3>. QED
      BY <1>1, <2>2, <3>1, <3>2 DEF InnerStep, Inner!Next, Inner!AnswerEmpty
  <2>5. CASE EndPut(t) \/ EndGet(t)
    <3>1. Phase(p, t) \in {"put", "got"}
      BY <1>4, <2>5 DEF EndPut, EndGet, At, Phase
    <3>. QED
      BY <1>1, <2>2, <3>1 DEF InnerStep, Inner!Next, Inner!End
  <2>. QED
    BY <2>3, <2>4, <2>5
<1>. QED
  BY <1>3, <1>4

(* The steps on size_ alone; the one that goes on to the inner queue begins *)
(* its call.                                                                *)
LEMMA SizeRefines ==
    ASSUME IInv, NEW t \in Thread, NEW p \in Priority,
           Count(t) \/ FindSizeZero(t) \/ FindSizeNonZero(t) \/ Uncount(t)
    PROVE  InnerStep(p)
<1>1. /\ prio[t] \in Priority /\ queues' = queues
      /\ Phase(p, t) = "idle" /\ Carried(p, t) = NoItem
  BY Has DEF Count, FindSizeZero, FindSizeNonZero, Uncount, At, Phase, Carried
<1>2. CASE Count(t) \/ FindSizeZero(t) \/ Uncount(t)
  <2>1. Goes(t, "idle", NoPriority, NoItem)
    BY <1>2, ReturnGoes DEF Count, FindSizeZero, Uncount
  <2>2. Phase(p, t)' = "idle" /\ Carried(p, t)' = NoItem
    BY <2>1, OthersStay, NoPriorityAssumption DEF Phase, Carried
  <2>. QED
    BY <1>1, <2>1, <2>2, InnerStays DEF InnerStep
<1>3. CASE FindSizeNonZero(t)
  <2>1. Goes(t, "dequeue", prio[t], item[t])
    BY <1>3, OnGoes DEF FindSizeNonZero, At
  <2>2. CASE prio[t] = p
    <3>1. Phase(p, t)' = "getting" /\ Carried(p, t)' = NoItem
      BY <2>1, <2>2, OthersStay DEF Phase, Carried
    <3>2. Inner(p)!Become(t, "getting", NoItem)
      BY <2>1, <3>1, InnerBecomes
    <3>. QED
      BY <1>1, <3>2 DEF InnerStep, Inner!Next, Inner!Begin
  <2>3. CASE prio[t] # p
    BY <1>1, <2>1, <2>3, OtherQueue
  <2>. QED
    BY <2>2, <2>3
<1>. QED
  BY <1>2, <1>3

LEMMA EffectRefines ==
    ASSUME IInv, NEW t \in Thread, NEW p \in Priority, Put(t) \/ Get(t)
    PROVE  InnerStep(p)
<1>1. prio[t] \in Priority /\ queues \in [Priority -> Seq(Item)]
  BY Has DEF Put, Get, At
<1>2. CASE Put(t)
  <2>1. Goes(t, "put", prio[t], item[t])
    BY <1>2, OnGoes DEF Put, At
  <2>2. CASE prio[t] # p
    <3>1. queues'[p] = queues[p]
      BY <1>1, <1>2, <2>2 DEF Put
    <3>. QED
      BY <2>1, <2>2, <3>1, OtherQueue
  <2>3. CASE prio[t] = p
    <3>1. /\ Phase(p, t) = "putting" /\ Carried(p, t) = item[t]
          /\ Len(queues[p]) < Capacity[p]
          /\ queues'[p] = Append(queues[p], item[t])
      BY <1>1, <1>2, <2>3 DEF Put, At, Phase, Carried
    <3>2. Phase(p, t)' = "put" /\ Carried(p, t)' = item[t]
      BY <2>1, <2>3, OthersStay DEF Phase, Carried
    <3>3. Inner(p)!Become(t, "put", item[t])
      BY <2>1, <3>2, InnerBecomes
    <3>. QED
      BY <3>1, <3>3 DEF InnerStep, Inner!Next, Inner!Put
  <2>. QED
    BY <2>2, <2>3
<1>3. CASE Get(t)
  <2>1. Goes(t, "got", prio[t], Head(queues[prio[t]]))
    BY <1>1, <1>3, Has DEF Get, Goto, Hold, Goes, Moves
  <2>2. CASE prio[t] # p
    <3>1. queues'[p] = queues[p]
      BY <1>1, <1>3, <2>2 DEF Get
    <3>. QED
      BY <2>1, <2>2, <3>1, OtherQueue
  <2>3. CASE prio[t] = p
    <3>1. /\ Phase(p, t) = "getting" /\ queues[p] # << >>
          /\ queues'[p] = Tail(queues[p])
      BY <1>1, <1>3, <2>3 DEF Get, At, Phase
    <3>2. Phase(p, t)' = "got" /\ Carried(p, t)' = Head(queues[p])
      BY <2>1, <2>3, OthersStay DEF Phase, Carried
    <3>3. Inner(p)!Become(t, "got", Head(queues[p]))
      BY <2>1, <3>2, InnerBecomes
    <3>. QED
      BY <3>1, <3>3 DEF InnerStep, Inner!Next, Inner!Get
  <2>. QED
    BY <2>2, <2>3
<1>. QED
  BY <1>2, <1>3

LEMMA InnerNext == IInv /\ [Next]_vars => [\A p \in Priority : InnerStep(p)]_vars
<1>. SUFFICES ASSUME IInv, Next, NEW p \in Priority PROVE InnerStep(p)
  OBVIOUS
<1>1. ASSUME NEW t \in Thread, NEW r \in Priority, CallEnqueue(t, r) \/ CallDequeue(t, r)
      PROVE  InnerStep(p)
  BY <1>1, CallRefines
<1>2. ASSUME NEW t \in Thread, Proceed(t) PROVE InnerStep(p)
  BY <1>2, AnswerRefines, SizeRefines, EffectRefines DEF Proceed
<1>. QED
  BY <1>1, <1>2 DEF Next

(* Each of queues_ takes every call on its priority through the steps of one *)
(* FifoQueue, in the order of its items, and no other call touches it.       *)
THEOREM InnerQueuesAreUsed == Spec => UsesInnerQueues
<1>1. [\A p \in Priority : InnerStep(p)]_vars
        => [\A p \in Priority : Inner(p)!Next \/ UNCHANGED Inner(p)!vars]_vars
  BY DEF InnerStep
<1>2. IInv /\ [Next]_vars
        => [\A p \in Priority : Inner(p)!Next \/ UNCHANGED Inner(p)!vars]_vars
  BY <1>1, InnerNext
<1>. QED
  BY <1>2, InnerInit, Invariance, PTL DEF Spec, UsesInnerQueues

=============================================================================
