--------------------------- MODULE MCPriorityQueue ---------------------------
(* Instances of PriorityQueue for TLC. *)
EXTENDS PriorityQueue

TwoCells == [p \in Priority |-> 2]
=============================================================================
