---------------------------- MODULE MCFlushDaemon ----------------------------
(* Instances of FlushDaemon for TLC: one controller, as in the code's own   *)
(* use, and three frames.                                                   *)
EXTENDS FlushDaemon

=============================================================================
