---------------------------- MODULE MCMPMCQueue ------------------------------
(* The queue and its invariant, for TLC. *)
EXTENDS MPMCQueueInv
=============================================================================
