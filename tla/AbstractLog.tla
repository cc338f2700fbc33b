----------------------------- MODULE AbstractLog -----------------------------
(* What replication promises while one node leads: a single log, written   *)
(* at First, of which every node has a beginning, and views that say what  *)
(* that beginning says.                                                    *)
EXTENDS Integers, Sequences

CONSTANTS Node, First, Meaning(_)
VARIABLES log, have, view

Faithful == view = [n \in Node |-> Meaning(SubSeq(log, 1, have[n]))]

Init ==
  /\ log = <<>>
  /\ have = [n \in Node |-> 0]
  /\ Faithful

Append1 ==
  /\ Len(log') = Len(log) + 1
  /\ SubSeq(log', 1, Len(log)) = log
  /\ have' = [have EXCEPT ![First] = Len(log')]
  /\ Faithful'

CatchUp(n) ==
  /\ \E k \in (have[n] + 1)..Len(log) : have' = [have EXCEPT ![n] = k]
  /\ UNCHANGED log
  /\ Faithful'

Next == Append1 \/ \E n \in Node \ {First} : CatchUp(n)

Spec == Init /\ [][Next]_<<log, have, view>>

=============================================================================
