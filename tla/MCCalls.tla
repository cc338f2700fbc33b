------------------------------- MODULE MCCalls -------------------------------
(* Node A reaches D over the proxy P, on paper or because it learned so.   *)
EXTENDS Calls

CONSTANTS A, P, D, g1, g2, u, guest, s1

(* A and P are in one process; A polls D over a session of its own.        *)
MCLocal == (A :> {P}) @@ (P :> {A}) @@ (D :> {})
MCReaches == (A :> {P, D}) @@ (P :> {A, D}) @@ (D :> {P})
MCReverse == (A :> {}) @@ (P :> {}) @@ (D :> {A})

Blank == [routes |-> [n \in Node |-> NoNode], denyIn |-> {}, denyOut |-> {},
          default |-> NoNode, peers |-> [n \in Node |-> NoPeer]]

Open == [via |-> NoNode, suggested |-> FALSE, addr |-> TRUE, connected |-> TRUE]

(* A and D know each other by the session.  D also had one with P before   *)
(* it was started again.                                                   *)
MCRoutes == (A :> [Blank EXCEPT !.routes[D] = P, !.peers[D] = Open]) @@ (P :> Blank)
            @@ (D :> [Blank EXCEPT !.peers[A] = Open, !.peers[P] = Open])

Work == [method |-> "work"]
At_(n, auth, req) == [node |-> n, auth |-> auth, req |-> req]
Edit(n, req) == At_(n, makeInternalAuth, req)
As(user, claimed, scope) ==
  [user |-> user, groups |-> claimed, scope |-> scope, internal |-> FALSE]

MCRequests ==
  {At_(A, As(NoUser, {}, Unset), Work), At_(D, As(u, {}, Unset), Work),
   At_(A, As(u, {g2}, s1), Exec(D, 0, <<>>, Work)),
   Edit(P, Exec(D, 0, <<>>, Work)), Edit(D, Exec(A, 0, <<>>, Work)),
   Edit(P, [method |-> "setRoute", peer |-> D, proxy |-> A]),
   Edit(A, [method |-> "deleteRoute", peer |-> D]),
   Edit(D, [method |-> "deny", peer |-> P, dir |-> "in"]),
   Edit(A, [method |-> "deny", peer |-> P, dir |-> "out"]),
   Edit(P, [method |-> "proxy", peer |-> A]),
   Edit(P, Exec(NoNode, 0, <<>>, Work)),
   Edit(A, [method |-> "learn", peer |-> P]), Edit(P, [method |-> "learn", peer |-> A])}

Budget(requests, ch, giveUps, expiries) ==
  [requests |-> requests, changes |-> ch, giveUps |-> giveUps, expiries |-> expiries]

MCBudgets == {Budget(2, 0, 1, 0), Budget(1, 2, 1, 1)}

Allow == [allow |-> TRUE, mask |-> Unset, scope |-> Unset]
Deny == [allow |-> FALSE, mask |-> Unset, scope |-> Unset]

MCGroups == (g1 :> [members |-> {u}, subgroups |-> {}])
            @@ (g2 :> [members |-> {}, subgroups |-> {g1}])
MCGrants == [x \in Subject \X Command |-> IF x[1] = g1 THEN Allow ELSE NoGrant]

MCAdminOps ==
  [kind : {"deleteGroup"}, group : {g1}] \cup
  [kind : {"createGroup", "ensureGuest"}, group : {g2}] \cup
  [kind : {"addSubgroup"}, group : {g1}, item : {g2}] \cup
  [kind : {"removeSubgroup"}, group : {g2}, item : {g1}] \cup
  [kind : {"addMember"}, group : {g2}, item : {u}] \cup
  [kind : {"removeMember"}, group : {g1}, item : {u}] \cup
  [kind : {"grant"}, subject : {g2}, command : {"exec"}, grant : {Deny}] \cup
  [kind : {"grant"}, subject : {g2}, command : {"work"}, grant : {[Deny EXCEPT !.scope = s1]}] \cup
  [kind : {"revoke"}, subject : {g2}, command : {"work"}]
=============================================================================
