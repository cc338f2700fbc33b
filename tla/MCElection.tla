----------------------------- MODULE MCElection -----------------------------
(* Two nodes, 1 < 2, each with a reconciliation or an admin call under way. *)
EXTENDS Election

MCNode == {1, 2}
MCHost == [w \in Worker |-> w]
MCPriority == [n \in Node |-> n]
MCTtl == [n \in Node |-> 2]

(* All reach all, or node 1 does not reach node 2.                         *)
MCReaches == {Node \X Node, (Node \X Node) \ {<<1, 2>>}}

=============================================================================
