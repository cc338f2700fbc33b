-------------------------- MODULE MCElectionTimely --------------------------
(* Two nodes that reconcile every interval; a lease spans two intervals.    *)
EXTENDS ElectionTimely

MCNode == {1, 2}
MCWorker == MCNode
MCHost == [w \in Worker |-> w]
MCPriority == [n \in Node |-> IF n = 2 THEN 2 ELSE 1]
MCTtl == [n \in Node |-> 2]
MCReaches == {Node \X Node, (Node \X Node) \ {<<1, 2>>}}

=============================================================================
