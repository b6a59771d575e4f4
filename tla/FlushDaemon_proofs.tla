-------------------------- MODULE FlushDaemon_proofs --------------------------
(***************************************************************************)
(* Safety of start, stop and the flush thread, for any number of frames.   *)
(* What a stop flushes is proved for any number of controllers, the life   *)
(* of the thread for one: with two, a stop between start's compare-and-    *)
(* swap and its assignment of the thread skips the join.                   *)
(***************************************************************************)
EXTENDS FlushDaemon, TLAPS

Gone == daemon \in {"none", "exited"}

\* What a stop still owes is at the frames it has yet to flush.
OwedIsAhead ==
    \A c \in Controller : pc[c] = "flush" =>
        \A f \in owed[c] : f >= i[c]

\* running_ and the thread, by where the controller stands.
ThreadLife ==
    /\ ~joinable => Gone
    /\ \A c \in Controller :
         /\ pc[c] = "idle" => (running <=> joinable)
         /\ pc[c] = "launch" => running /\ ~joinable
         /\ pc[c] \in {"notify", "join"} => ~running
         /\ pc[c] = "flush" => ~running /\ ~joinable

OneController == \A c, d \in Controller : c = d

-------------------------------------------------------------------------------
LEMMA FrameZero == 0 \in Frame
  BY PoolSizeAssumption DEF Frame

\* Every variable keeps its type: in particular neither flush_all runs past the
\* last frame.
THEOREM TypeCorrect == Spec => []TypeOK
<1>1. Init => TypeOK
  BY FrameZero DEF Init, TypeOK, PC, DaemonPC
<1>2. TypeOK /\ [Next]_vars => TypeOK'
  <2> SUFFICES ASSUME TypeOK, [Next]_vars PROVE TypeOK'
    OBVIOUS
  <2> USE DEF TypeOK, PC, DaemonPC
  <2>1. ASSUME NEW c \in Controller, StartSwap(c) PROVE TypeOK'
    BY <2>1 DEF StartSwap, Goto, daemonVars
  <2>2. ASSUME NEW c \in Controller, StopSwap(c) PROVE TypeOK'
    BY <2>2 DEF StopSwap, Goto, daemonVars
  <2>3. ASSUME NEW c \in Controller, Launch(c) PROVE TypeOK'
    BY <2>3 DEF Launch, Goto
  <2>4. ASSUME NEW c \in Controller, NotifyAll(c) PROVE TypeOK'
    BY <2>4 DEF NotifyAll, Goto
  <2>5. ASSUME NEW c \in Controller, Join(c) PROVE TypeOK'
    BY <2>5, FrameZero DEF Join, Goto, daemonVars
  <2>6. ASSUME NEW c \in Controller, StopFlush(c) PROVE TypeOK'
    <3>1. i' \in [Controller -> Frame]
      BY <2>6, PoolSizeAssumption DEF StopFlush, LastFrame, Frame
    <3>2. owed' \in [Controller -> SUBSET Frame] /\ dirty' \subseteq Frame
      BY <2>6 DEF StopFlush, FlushFrame
    <3>3. pc' \in [Controller -> PC]
      BY <2>6 DEF StopFlush, Goto
    <3> QED
      BY <2>6, <3>1, <3>2, <3>3 DEF StopFlush, daemonVars
  <2>7. ASSUME LoopTest \/ Predicate \/ Block \/ SpuriousWakeup \/ Timeout
        PROVE  TypeOK'
    BY <2>7, FrameZero DEF LoopTest, Predicate, Block, SpuriousWakeup, Timeout,
                           DaemonGoto, callVars
  <2>8. ASSUME DaemonFlush PROVE TypeOK'
    <3>1. cursor' \in Frame
      BY <2>8, PoolSizeAssumption DEF DaemonFlush, LastFrame, Frame
    <3> QED
      BY <2>8, <3>1 DEF DaemonFlush, FlushFrame, callVars
  <2>9. ASSUME NEW f \in Frame, Use(f) \/ WriteBack(f) PROVE TypeOK'
    BY <2>9 DEF Use, WriteBack, FlushFrame, daemonVars, callVars
  <2>10. CASE UNCHANGED vars
    BY <2>10 DEF vars, daemonVars, callVars
  <2> QED
    BY <2>1, <2>2, <2>3, <2>4, <2>5, <2>6, <2>7, <2>8, <2>9, <2>10
    DEF Next, Control, Daemon
<1> QED
  BY <1>1, <1>2, PTL DEF Spec

-------------------------------------------------------------------------------
LEMMA OwedStaysAhead == TypeOK /\ OwedIsAhead /\ [Next]_vars => OwedIsAhead'
<1> SUFFICES ASSUME TypeOK, OwedIsAhead, [Next]_vars PROVE OwedIsAhead'
  OBVIOUS
<1> USE DEF TypeOK, OwedIsAhead, Frame, PC
<1>1. ASSUME NEW c \in Controller,
             StartSwap(c) \/ StopSwap(c) \/ Launch(c) \/ NotifyAll(c)
      PROVE  OwedIsAhead'
  BY <1>1 DEF StartSwap, StopSwap, Launch, NotifyAll, Goto, daemonVars
<1>2. ASSUME NEW c \in Controller, Join(c) PROVE OwedIsAhead'
  BY <1>2, PoolSizeAssumption DEF Join, Goto, daemonVars
<1>3. ASSUME NEW c \in Controller, StopFlush(c) PROVE OwedIsAhead'
  <2> SUFFICES ASSUME NEW d \in Controller, pc'[d] = "flush",
                      NEW f \in owed'[d]
               PROVE  f >= i'[d]
    OBVIOUS
  <2>1. f \in owed[d] /\ f # i[c] /\ f \in Frame
    BY <1>3 DEF StopFlush, FlushFrame
  <2>2. pc[d] = "flush" /\ f >= i[d]
    BY <1>3, <2>1 DEF StopFlush, Goto
  <2>3. CASE d = c
    BY <1>3, <2>1, <2>2, <2>3, PoolSizeAssumption DEF StopFlush, Goto
  <2>4. CASE d # c
    BY <1>3, <2>2, <2>4 DEF StopFlush
  <2> QED
    BY <2>3, <2>4
<1>4. ASSUME Daemon \/ SpuriousWakeup PROVE OwedIsAhead'
  BY <1>4 DEF Daemon, LoopTest, Predicate, Block, SpuriousWakeup, Timeout,
              DaemonGoto, DaemonFlush, FlushFrame, callVars
<1>5. ASSUME NEW f \in Frame, Use(f) \/ WriteBack(f) PROVE OwedIsAhead'
  BY <1>5 DEF Use, WriteBack, FlushFrame, callVars
<1>6. CASE UNCHANGED vars
  BY <1>6 DEF vars, callVars
<1> QED
  BY <1>1, <1>2, <1>3, <1>4, <1>5, <1>6 DEF Next, Control

\* A stop that stopped the pool returns only when everything written before it
\* is on the device, whatever others write, evict or flush meanwhile.
THEOREM StopLeavesNothing == Spec => StopIsDurable
<1>1. Init => OwedIsAhead
  BY DEF Init, OwedIsAhead
<1>2. TypeOK /\ OwedIsAhead /\ [Next]_vars
        => [\A c \in Controller :
               pc[c] = "flush" /\ pc'[c] = "idle" => owed'[c] = {}]_vars
  <2> SUFFICES ASSUME TypeOK, OwedIsAhead, Next, NEW c \in Controller,
                      pc[c] = "flush", pc'[c] = "idle"
               PROVE  owed'[c] = {}
    OBVIOUS
  <2>1. StopFlush(c)
    <3>1. ASSUME NEW d \in Controller, d # c, StartSwap(d) \/ StopSwap(d) \/ Control(d)
          PROVE  pc'[c] = pc[c]
      BY <3>1 DEF TypeOK, StartSwap, StopSwap, Control, Launch, NotifyAll, Join,
                  StopFlush, Goto
    <3>2. StartSwap(c) \/ StopSwap(c) \/ Launch(c) \/ NotifyAll(c) \/ Join(c) => FALSE
      BY DEF StartSwap, StopSwap, Launch, NotifyAll, Join
    <3>3. Daemon \/ SpuriousWakeup => pc' = pc
      BY DEF Daemon, LoopTest, Predicate, Block, SpuriousWakeup, Timeout,
             DaemonGoto, DaemonFlush, callVars
    <3>4. \A f \in Frame : Use(f) \/ WriteBack(f) => pc' = pc
      BY DEF Use, WriteBack, callVars
    <3> QED
      BY <3>1, <3>2, <3>3, <3>4 DEF Next, Control
  <2>2. i[c] = PoolSize - 1
    BY <2>1 DEF StopFlush, LastFrame, Goto
  <2>3. \A f \in owed[c] : f = i[c]
    BY <2>2, PoolSizeAssumption DEF TypeOK, OwedIsAhead, Frame
  <2> QED
    BY <2>1, <2>3 DEF StopFlush, FlushFrame
<1> QED
  BY <1>1, <1>2, TypeCorrect, OwedStaysAhead, PTL DEF Spec, StopIsDurable

-------------------------------------------------------------------------------
LEMMA LifeGoesOn ==
    ASSUME OneController
    PROVE  TypeOK /\ ThreadLife /\ [Next]_vars => ThreadLife'
<1> SUFFICES ASSUME TypeOK, ThreadLife, [Next]_vars PROVE ThreadLife'
  OBVIOUS
<1> USE OneController DEF OneController, TypeOK, ThreadLife, Gone, PC, DaemonPC
<1>1. ASSUME NEW c \in Controller, StartSwap(c) PROVE ThreadLife'
  BY <1>1 DEF StartSwap, Goto, daemonVars
<1>2. ASSUME NEW c \in Controller, StopSwap(c) PROVE ThreadLife'
  BY <1>2 DEF StopSwap, Goto, daemonVars
<1>3. ASSUME NEW c \in Controller, Launch(c) PROVE ThreadLife'
  BY <1>3 DEF Launch, Goto
<1>4. ASSUME NEW c \in Controller, NotifyAll(c) PROVE ThreadLife'
  BY <1>4 DEF NotifyAll, Goto
<1>5. ASSUME NEW c \in Controller, Join(c) PROVE ThreadLife'
  BY <1>5 DEF Join, Joined, Goto, daemonVars
<1>6. ASSUME NEW c \in Controller, StopFlush(c) PROVE ThreadLife'
  BY <1>6 DEF StopFlush, Goto, daemonVars
<1>7. ASSUME Daemon \/ SpuriousWakeup PROVE ThreadLife'
  BY <1>7 DEF Daemon, LoopTest, Predicate, Block, SpuriousWakeup, Timeout,
              DaemonGoto, DaemonFlush, callVars
<1>8. ASSUME NEW f \in Frame, Use(f) \/ WriteBack(f) PROVE ThreadLife'
  BY <1>8 DEF Use, WriteBack, daemonVars, callVars
<1>9. CASE UNCHANGED vars
  BY <1>9 DEF vars, daemonVars, callVars
<1> QED
  BY <1>1, <1>2, <1>3, <1>4, <1>5, <1>6, <1>7, <1>8, <1>9 DEF Next, Control

LEMMA LifeInvariant == ASSUME OneController PROVE Spec => []ThreadLife
<1>1. Init => ThreadLife
  BY DEF Init, ThreadLife, Gone
<1>2. TypeOK /\ ThreadLife /\ [Next]_vars => ThreadLife'
  BY LifeGoesOn
<1> QED
  BY <1>1, <1>2, TypeCorrect, PTL DEF Spec

\* When start makes the flush thread, and while stop flushes, there is no other
\* flush thread, running or to be joined.
THEOREM FlushThreadIsGone == ASSUME OneController PROVE Spec => []FlushThreadGone
<1>1. ThreadLife => FlushThreadGone
  BY DEF ThreadLife, FlushThreadGone, Gone
<1> QED
  BY <1>1, LifeInvariant, PTL
=============================================================================
