----------------------------- MODULE FlushDaemon -----------------------------
(***************************************************************************)
(* The flush thread of LCBlockBufferPool (include/lc_block_buffer.h), and  *)
(* start and stop, which create it and wait for its end.                   *)
(* LCInodeBufferPool has the same three functions.                         *)
(*                                                                         *)
(* Of the pool itself only the dirty flags matter here: flush_all clears   *)
(* them frame by frame, under the frame's lock, while the users of the     *)
(* pool go on writing and evicting (BlockBufferPool has the details).      *)
(***************************************************************************)
EXTENDS Naturals

CONSTANTS
    Controller,  \* the threads that call start and stop
    PoolSize     \* pool_size_

ASSUME PoolSizeAssumption == PoolSize \in Nat \ {0}

Frame == 0 .. PoolSize - 1

VARIABLES
    running,   \* running_
    joinable,  \* background_thread_.joinable()
    daemon,    \* where the flush thread stands
    cursor,    \* the index i of its flush_all
    dirty,     \* the frames whose content is not on the device
    pc,        \* where each controller stands
    i,         \* the index i of a controller's flush_all
    owed       \* per controller: frames that were dirty when its stop began
               \* and are not yet on the device (history)

vars == << running, joinable, daemon, cursor, dirty, pc, i, owed >>
daemonVars == << daemon, cursor >>
callVars == << pc, i >>

DaemonPC == {"none", "loop", "predicate", "block", "asleep", "flush", "exited"}
PC == {"idle", "launch", "notify", "join", "flush"}

Init == /\ running = FALSE
        /\ joinable = FALSE
        /\ daemon = "none"
        /\ cursor = 0
        /\ dirty = {}
        /\ pc = [c \in Controller |-> "idle"]
        /\ i = [c \in Controller |-> 0]
        /\ owed = [c \in Controller |-> {}]

Goto(c, place) == pc' = [pc EXCEPT ![c] = place]

(* flush_all's body for frame f. *)
FlushFrame(f) == /\ dirty' = dirty \ {f}
                 /\ owed' = [c \in Controller |-> owed[c] \ {f}]

-----------------------------------------------------------------------------
(* start(): the compare-and-swap, then the new thread.  A call that finds  *)
(* the pool running returns at once.                                       *)
StartSwap(c) == /\ pc[c] = "idle"
                /\ ~running
                /\ running' = TRUE
                /\ Goto(c, "launch")
                /\ UNCHANGED << joinable, daemonVars, dirty, i, owed >>

Launch(c) == /\ pc[c] = "launch"
             /\ joinable' = TRUE
             /\ daemon' = "loop"
             /\ Goto(c, "idle")
             /\ UNCHANGED << running, cursor, dirty, i, owed >>

(* stop(): the compare-and-swap, notify_all, join, flush_all.  A call that *)
(* finds the pool stopped returns at once.                                 *)
StopSwap(c) == /\ pc[c] = "idle"
               /\ running
               /\ running' = FALSE
               /\ owed' = [owed EXCEPT ![c] = dirty]
               /\ Goto(c, "notify")
               /\ UNCHANGED << joinable, daemonVars, dirty, i >>

(* notify_all, without the mutex: it reaches a thread that is blocked, not *)
(* one that is about to block.                                             *)
NotifyAll(c) == /\ pc[c] = "notify"
                /\ daemon' = IF daemon = "asleep" THEN "predicate" ELSE daemon
                /\ Goto(c, "join")
                /\ UNCHANGED << running, joinable, cursor, dirty, i, owed >>

(* (Slip: the thread is not waited for.) *)
JoinedAnyway == TRUE
Joined == joinable => daemon = "exited"
Join(c) == /\ pc[c] = "join"
           /\ Joined
           /\ joinable' = FALSE
           /\ Goto(c, "flush")
           /\ i' = [i EXCEPT ![c] = 0]
           /\ UNCHANGED << running, daemonVars, dirty, owed >>

(* (Slip: the last frame is left out.) *)
LastFrameLeftOut(f) == f + 2 >= PoolSize
LastFrame(f) == f = PoolSize - 1

StopFlush(c) == /\ pc[c] = "flush"
                /\ FlushFrame(i[c])
                /\ IF LastFrame(i[c])
                   THEN Goto(c, "idle") /\ UNCHANGED i
                   ELSE i' = [i EXCEPT ![c] = @ + 1] /\ UNCHANGED pc
                /\ UNCHANGED << running, joinable, daemonVars >>

-----------------------------------------------------------------------------
DaemonGoto(place) == /\ daemon' = place
                     /\ UNCHANGED << running, joinable, dirty, callVars, owed >>

(* while (running_) *)
LoopTest == /\ daemon = "loop"
            /\ DaemonGoto(IF running THEN "predicate" ELSE "exited")
            /\ UNCHANGED cursor

(* wait_for calls its predicate, and blocks only if that is false: between *)
(* the two, a notification is lost.                                        *)
Predicate == /\ daemon = "predicate"
             /\ DaemonGoto(IF running THEN "block" ELSE "exited")
             /\ UNCHANGED cursor

Block == /\ daemon = "block"
         /\ DaemonGoto("asleep")
         /\ UNCHANGED cursor

SpuriousWakeup == /\ daemon = "asleep"
                  /\ DaemonGoto("predicate")
                  /\ UNCHANGED cursor

(* After frame_interval_ms_ wait_for returns the predicate's value.        *)
(* (Slip: wait in place of wait_for.)                                      *)
NoTimeout == FALSE /\ UNCHANGED vars
Timeout == /\ daemon = "asleep"
           /\ DaemonGoto(IF running THEN "flush" ELSE "exited")
           /\ cursor' = 0

(* One frame of flush_all; then back to the loop. *)
DaemonFlush == /\ daemon = "flush"
               /\ FlushFrame(cursor)
               /\ IF LastFrame(cursor)
                  THEN daemon' = "loop" /\ UNCHANGED cursor
                  ELSE cursor' = cursor + 1 /\ UNCHANGED daemon
               /\ UNCHANGED << running, joinable, callVars >>

-----------------------------------------------------------------------------
(* The users of the pool: a write or a guard leaves a frame dirty; an      *)
(* eviction, or flush_block, writes it back.                               *)
Use(f) == /\ dirty' = dirty \cup {f}
          /\ UNCHANGED << running, joinable, daemonVars, callVars, owed >>

WriteBack(f) == /\ f \in dirty
                /\ FlushFrame(f)
                /\ UNCHANGED << running, joinable, daemonVars, callVars >>

-----------------------------------------------------------------------------
Control(c) == \/ Launch(c)
              \/ NotifyAll(c)
              \/ Join(c)
              \/ StopFlush(c)

Daemon == LoopTest \/ Predicate \/ Block \/ Timeout \/ DaemonFlush

Next == \/ \E c \in Controller : StartSwap(c) \/ StopSwap(c) \/ Control(c)
        \/ Daemon
        \/ SpuriousWakeup
        \/ \E f \in Frame : Use(f) \/ WriteBack(f)

Spec == Init /\ [][Next]_vars

(* Both threads run, and a sleeper that is left alone wakes up in the end: *)
(* spurious wake-ups restart no clock, wait_for has one deadline.          *)
FairSpec == /\ Spec
            /\ \A c \in Controller : WF_vars(Control(c))
            /\ WF_vars(Daemon)
            /\ SF_vars(Timeout)

-----------------------------------------------------------------------------
TypeOK == /\ running \in BOOLEAN
          /\ joinable \in BOOLEAN
          /\ daemon \in DaemonPC
          /\ cursor \in Frame
          /\ dirty \subseteq Frame
          /\ pc \in [Controller -> PC]
          /\ i \in [Controller -> Frame]
          /\ owed \in [Controller -> SUBSET Frame]

(* When a stop that stopped the pool returns, everything written before it *)
(* is on the device, whatever is written meanwhile.                        *)
StopIsDurable ==
    [][\A c \in Controller :
          pc[c] = "flush" /\ pc'[c] = "idle" => owed'[c] = {}]_vars

(* There is no flush thread, and none to join, when start makes one:       *)
(* assigning to a joinable std::thread would end the program.  And there   *)
(* is none left while stop flushes, so that this and the pool's destructor *)
(* after it race with nobody.                                              *)
FlushThreadGone ==
    \A c \in Controller :
        pc[c] \in {"launch", "flush"} => ~joinable /\ daemon \in {"none", "exited"}

(* stop returns although its notification may be lost. *)
StopReturns ==
    \A c \in Controller : pc[c] = "notify" ~> pc[c] = "idle"

(* As long as the pool runs, no write stays off the device for ever. *)
WritesReachDevice ==
    \A f \in Frame : f \in dirty ~> (f \notin dirty \/ ~running)
=============================================================================
