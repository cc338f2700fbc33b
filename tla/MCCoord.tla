------------------------------- MODULE MCCoord -------------------------------
(* Writers of the store side by side; maintenance of it one by one; and    *)
(* the commands one by one with two nodes.                                 *)
EXTENDS CoordRuntime

CONSTANTS c1, c2

Ask(kind) == [kind |-> kind]
Nodes == {1, 2}

Work(ops) ==
  {[kind |-> "task", task |-> [Task("ops", TRUE) EXCEPT !.entries =
                                <<[kind |-> x[1], key |-> x[2], value |-> 0]>>]] : x \in ops}
Writes == {<<"set", 1>>, <<"del", 1>>}
Moves == {[kind |-> "task", task |-> [Task("switch", FALSE) EXCEPT !.to = b]] : b \in Backend}
Inspect == {[kind |-> "task", task |-> Task("inspect", FALSE)]}

Start == {[kind |-> "start", node |-> n] : n \in Nodes}
Stop == {[kind |-> "stop", nodes |-> N] : N \in {{1}, Nodes}}
Stor == {[kind |-> "stor", to |-> b] : b \in Backend}
Others == {Ask("cleanup"), Ask("restore"), Ask("status"), Ask("load")}

Budget(asks, requests, alone, sqlite, crashes, toggles, deaths, slow) ==
  [asks |-> asks, requests |-> requests, alone |-> alone, sqlite |-> sqlite,
   crashes |-> crashes, toggles |-> toggles, deaths |-> deaths, slow |-> slow]

MCBudgets ==
  {Budget(Work({<<"set", 1>>, <<"get", 1>>}), 4, FALSE, {TRUE}, 0, 0, 0, 0),
   Budget(Work(Writes \cup {<<"get", 1>>}), 3, FALSE, {FALSE}, 1, 0, 0, 0),
   Budget(Work({<<"set", 1>>, <<"set", 2>>}), 2, FALSE, {FALSE}, 1, 0, 0, 0),
   Budget(Work(Writes) \cup Moves \cup Inspect, 4, TRUE, {FALSE}, 0, 1, 0, 0),
   Budget(Work(Writes) \cup Moves \cup Inspect, 4, TRUE, BOOLEAN, 1, 0, 0, 0),
   Budget(Start \cup Stop \cup Stor \cup Others, 3, TRUE, BOOLEAN, 0, 1, 0, 0),
   Budget(Start \cup Stop \cup Stor \cup Others, 3, TRUE, {TRUE}, 0, 0, 1, 1),
   Budget({[kind |-> "start", node |-> 1], Ask("cleanup")}, 2, FALSE, {TRUE}, 0, 0, 0, 0),
   Budget(Start \cup Stop \cup Others \cup {Ask("save to file")}, 3, TRUE, {TRUE}, 0, 0, 0, 0)}

(* Deletions beside other writers of SQLite.                               *)
DuplicateBudgets ==
  {Budget(Work(Writes \cup {<<"get", 1>>}), 5, FALSE, {TRUE}, 0, 0, 0, 0)}

PromoteBudgets == {Budget(Start, 2, TRUE, {FALSE}, 0, 1, 0, 0)}
=============================================================================
