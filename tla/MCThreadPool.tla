---------------------------- MODULE MCThreadPool -----------------------------
(* Instances of ThreadPool for TLC. *)
EXTENDS ThreadPoolInv, TLC

CONSTANTS x, y

OneWorker == 1 .. 1
TwoWorkers == 1 .. 2
Ones == [p \in Priority |-> 1]
Apart == x :> 0 @@ y :> 1
Alike == x :> 0 @@ y :> 0
=============================================================================
