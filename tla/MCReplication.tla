---------------------------- MODULE MCReplication ----------------------------
(* Two or three nodes, two overlapping ticks, objects with two leaves that *)
(* lie under one top-level field.                                          *)
EXTENDS Replication

MCField == [l \in Leaf |-> "f"]
MCNode2 == {1, 2}
MCNode3 == {1, 2, 3}
MCDocTime == [d \in DocId |-> 1]
MCHosts == [w \in Worker |-> w]
MCOneHost == [w \in Worker |-> 1]

(* An object with either leaf.                                             *)
MCInputs == {[l \in {m} |-> 1] : m \in Leaf}

MCModes == {<<"replace", "error">>, <<"merge", "error">>, <<"merge", "skip">>,
            <<"merge", "replace">>}
MCRestore == {<<"replace", "error">>}

=============================================================================
