-------------------------------- MODULE Calls --------------------------------
(***************************************************************************)
(* Calls between nodes: what a node does with a request from the moment it *)
(* arrives (src/src/cord/foundation.ts, dispatch), how exec carries it to  *)
(* another node, directly or over one proxy, what the nodes learn of each  *)
(* other on the way, and who may run what (Iam).                           *)
(*                                                                         *)
(* The routes, deny rules, proxy mode and known peers of a node are one    *)
(* record of the shared store, which every change reads and writes back as *)
(* a whole.  Nodes reach one another as Reaches and Reverse say, whose     *)
(* sessions stay open; a caller may give up on a call, whose callee then   *)
(* goes on alone.  Time stamps, epochs, addresses (a peer has one or not), *)
(* payload sizes, the guests' rate limit and what the polls of a session   *)
(* write of the peer are left out.                                         *)
(***************************************************************************)
EXTENDS Iam, Sequences

CONSTANTS
  Node, NoNode, NoPeer, NoUser,
  FrameId,          \* calls in progress
  Reaches,          \* the nodes a node can call directly
  Local,            \* those of its process, which it calls without an address
  Reverse,          \* the nodes with a reverse session into a node
  RoutesAtStart,
  Requests,         \* what operators and applications ask of nodes
  Budgets           \* bounds: how many requests, changes of groups and grants,
                    \* calls whose caller stops waiting, expiries of peers

ASSUME CallsAssumption ==
  /\ Checker = FrameId
  /\ \A n \in Node : n \notin Reaches[n] \cup Reverse[n]

VARIABLES
  routeState,   \* each node's record in the store
  frame,        \* the calls in progress, each at one node
  budget        \* what may still happen, but for changes

callVars == <<routeState, frame, budget>>
vars == <<iamVars, callVars>>

Peer == [via : Node \cup {NoNode}, suggested : BOOLEAN, addr : BOOLEAN, connected : BOOLEAN]
NewPeer == [via |-> NoNode, suggested |-> FALSE, addr |-> FALSE, connected |-> FALSE]

(* routes: the configured proxy, the node itself when the route is direct. *)
RouteState ==
  [routes : [Node -> Node \cup {NoNode}], denyIn : SUBSET Node, denyOut : SUBSET Node,
   default : Node \cup {NoNode}, peers : [Node -> Peer \cup {NoPeer}]]

(* The authority of a call: a user, who may claim groups and a scope, or a *)
(* node of the system.  A guest has neither.                               *)
makeInternalAuth == [user |-> NoUser, groups |-> {}, scope |-> Unset, internal |-> TRUE]

(* Mutants: the hop count, or the path, is not passed on.                  *)
ExecUncounted(dst, hop, path, inner) ==
  [method |-> "exec", dst |-> dst, hop |-> 0, path |-> path, inner |-> inner]
ExecPathless(dst, hop, path, inner) ==
  [method |-> "exec", dst |-> dst, hop |-> hop, path |-> <<>>, inner |-> inner]

(* A request: a method and what it is given.                               *)
Exec(dst, hop, path, inner) ==
  [method |-> "exec", dst |-> dst, hop |-> hop, path |-> path, inner |-> inner]

(* A call at a node.  stage is the part of the handler it is in, phase the *)
(* part of a read and write of the route state; snap is what was read.     *)
(* barred and defied are history: a rule of the node bars the caller since *)
(* the call came, and did so when the call was let through.                *)
Call(n, from, origin, auth, request, parent, trail) ==
  [node |-> n, from |-> from, origin |-> origin, auth |-> auth, req |-> request,
   parent |-> parent, trail |-> Append(trail, n), stage |-> "dispatch", phase |-> "load",
   snap |-> Idle, to |-> NoNode, proxied |-> FALSE, answer |-> Idle, left |-> {},
   barred |-> from \in routeState[n].denyIn, defied |-> FALSE]

Active(f) == frame[f] # Idle
At(f, stage) == Active(f) /\ frame[f].stage = stage

(* An answer: the path that exec reports, the peers that peer.list does,   *)
(* and, as history, the nodes that the call really went over.              *)
Error == [ok |-> FALSE, path |-> <<>>, peers |-> {}, trail |-> <<>>]
Ok(path, peers, trail) == [ok |-> TRUE, path |-> path, peers |-> peers, trail |-> trail]

(* The frame c after a stage is done: on to the next one.                  *)
To(c, stage) == [c EXCEPT !.stage = stage, !.phase = "load", !.snap = Idle]
Answered(c, answer) == [To(c, "answer") EXCEPT !.answer = answer]

Moves(f, c) == frame' = [frame EXCEPT ![f] = c]

OnlyFrames == UNCHANGED <<iamVars, routeState, budget>>

-----------------------------------------------------------------------------
(* The route state of a node.                                              *)

Known(s, m) == s.peers[m] # NoPeer
PeerOf(s, m) == IF Known(s, m) THEN s.peers[m] ELSE NewPeer

Linked(n, m) == m \in Reverse[n] \/ n \in Reverse[m]

(* What a load corrects: peers said to be connected whose session is gone. *)
Stale(n) == {m \in Node : Known(routeState[n], m) /\ routeState[n].peers[m].connected
                          /\ ~Linked(n, m)}

(* What a load drops: peers not seen for a while that are not connected,   *)
(* unless a rule names them.                                               *)
Expirable(n) ==
  LET s == routeState[n] IN
  {m \in Node : Known(s, m) /\ (s.peers[m].connected => m \in Stale(n))
                /\ s.routes[m] = NoNode /\ m \notin s.denyIn \cup s.denyOut}

Pruned(s, gone, stale) ==
  [s EXCEPT !.peers = [m \in Node |-> IF m \in gone THEN NoPeer
                                      ELSE IF m \in stale THEN [@[m] EXCEPT !.connected = FALSE]
                                      ELSE @[m]]]

(* The nodes that are called by address, which the peer's record gives.    *)
ByAddress(n, m) == m \notin Local[n] \cup Reverse[n]
OverSession(n, m) == m \in Reverse[n] \ Local[n]

(* Stages that read the route state, and those that also write it back.    *)
Writing == {"inbound", "origin", "outbound", "via", "edit", "learnt"}
Reading == Writing \cup {"enforce", "route", "peers", "peek", "call"}

(* What a stage works with: the record as it is, or as it was when a peer  *)
(* was found expired or stale in it and the record was to be saved first.  *)
Loaded(f) == IF frame[f].phase = "use" THEN frame[f].snap ELSE routeState[frame[f].node]

InOrder(f) == frame[f].phase = "load" /\ Stale(frame[f].node) = {}

Reads(f, stage) == At(f, stage) /\ (frame[f].phase = "use" \/ InOrder(f))

LoadRouteState(f) ==
  /\ Active(f) /\ frame[f].stage \in Writing /\ InOrder(f)
  /\ Moves(f, [frame[f] EXCEPT !.phase = "use", !.snap = Loaded(f)])
  /\ OnlyFrames

FindExpired(f) ==
  LET c == frame[f] IN
  /\ Active(f) /\ c.stage \in Reading /\ c.phase = "load"
  /\ c.stage = "call" => ByAddress(c.node, c.to)
  /\ \E gone \in SUBSET Expirable(c.node) :
       /\ gone \cup Stale(c.node) # {}
       /\ Cardinality(gone) <= budget.expiries
       /\ budget' = [budget EXCEPT !.expiries = @ - Cardinality(gone)]
       /\ Moves(f, [c EXCEPT !.phase = "prune",
                             !.snap = Pruned(Loaded(f), gone, Stale(c.node))])
  /\ UNCHANGED <<iamVars, routeState>>

(* saveRouteState.  A rule that was lifted, or lost, bars no call any more.*)
Save(f, s, c) ==
  LET n == frame[f].node IN
  /\ routeState' = [routeState EXCEPT ![n] = s]
  /\ frame' = [g \in FrameId |->
       LET d == IF g = f THEN c ELSE frame[g] IN
       IF d # Idle /\ d.node = n
       THEN [d EXCEPT !.barred = @ /\ d.from \in s.denyIn] ELSE d]
  /\ UNCHANGED <<iamVars, budget>>

SavePruned(f) ==
  LET c == frame[f] IN
  /\ Active(f) /\ c.phase = "prune"
  /\ Save(f, c.snap, [c EXCEPT !.phase = "use"])

SetPeer(s, m, peer) == [s EXCEPT !.peers[m] = peer]

(* setRoute, deleteRoute, setRouteDeny and setProxyMode.                   *)
Edited(s, e) ==
  CASE e.method = "setRoute" -> [s EXCEPT !.routes[e.peer] = e.proxy]
    [] e.method = "deleteRoute" -> [s EXCEPT !.routes[e.peer] = NoNode]
    [] e.method = "deny" ->
         [s EXCEPT !.denyIn = IF e.dir = "out" THEN @ ELSE @ \cup {e.peer},
                   !.denyOut = IF e.dir = "in" THEN @ ELSE @ \cup {e.peer}]
    [] e.method = "proxy" -> [s EXCEPT !.default = e.peer]

(* What each stage makes of the state it read.                             *)
Mutated(c) ==
  LET s == c.snap IN
  CASE c.stage = "inbound" ->
         SetPeer(s, c.from, [PeerOf(s, c.from) EXCEPT !.addr = TRUE, !.suggested = FALSE])
    [] c.stage = "origin" ->
         SetPeer(s, c.origin, [PeerOf(s, c.origin) EXCEPT !.via = c.from, !.suggested = FALSE])
    [] c.stage = "outbound" ->
         SetPeer(s, c.to, [PeerOf(s, c.to) EXCEPT
                             !.addr = @ \/ ~OverSession(c.node, c.to), !.suggested = FALSE,
                             !.connected = @ \/ OverSession(c.node, c.to)])
    [] c.stage = "via" ->
         SetPeer(s, c.req.dst, [PeerOf(s, c.req.dst) EXCEPT !.via = c.to, !.suggested = FALSE])
    [] c.stage = "learnt" ->
         LET m == CHOOSE x \in c.left : TRUE IN
         SetPeer(s, m, [PeerOf(s, m) EXCEPT !.via = c.to, !.suggested = TRUE, !.addr = TRUE,
                                            !.connected = FALSE])
    [] c.stage = "edit" -> Edited(s, c.req)

(* Where a call goes on from each stage.  The stages of dispatch are       *)
(* skipped for callers that are no nodes or the node itself, and for       *)
(* origins that called directly.                                           *)
Edits == {"setRoute", "deleteRoute", "deny", "proxy"}

Run(c) ==
  LET d == [c EXCEPT !.defied = c.barred]
      method == c.req.method
  IN CASE method = "work" -> Answered(d, Ok(<<c.node>>, {}, c.trail))
       [] method = "exec" -> To(d, "route")
       [] method = "peers" -> To(d, "peers")
       [] method = "learn" -> To(d, "learn")
       [] method \in Edits -> To(d, "edit")

(* Guests may call a few methods only, none of those modelled; internal    *)
(* callers are not checked.                                                *)
invokeHandler(c) ==
  CASE c.auth.internal -> Run(c)
    [] ~c.auth.internal /\ c.auth.user = NoUser -> Answered(c, Error)
    [] OTHER -> To(c, "authorize")

(* Mutant: the rules bind guests and users only.                           *)
EnforcedOnUsers(c) ==
  IF c.from \in {NoNode, c.node} \/ c.auth.internal THEN invokeHandler(c)
  ELSE To(c, "enforce")

Enforced(c) == IF c.from \in {NoNode, c.node} THEN invokeHandler(c) ELSE To(c, "enforce")

KnowsOrigin(c) ==
  IF c.from = NoNode \/ c.origin \in {c.node, c.from} THEN Enforced(c) ELSE To(c, "origin")

dispatch(c) ==
  IF c.from \in {NoNode, c.node} THEN KnowsOrigin(c) ELSE To(c, "inbound")

After(c) ==
  CASE c.stage = "inbound" -> KnowsOrigin(c)
    [] c.stage = "origin" -> Enforced(c)
    [] c.stage = "outbound" ->
         IF c.req.method = "learn" THEN To(c, "peek")
         ELSE To(c, IF c.proxied THEN "via" ELSE "answer")
    [] c.stage = "via" -> To(c, "answer")
    [] c.stage = "edit" -> Answered(c, Ok(<<>>, {}, c.trail))
    [] c.stage = "learnt" ->
         To([c EXCEPT !.left = @ \ {CHOOSE x \in c.left : TRUE}], "peek")

(* updateRouteState and mergePeer: what was read, changed, is written back.*)
SaveRouteState(f) ==
  LET c == frame[f] IN
  /\ Active(f) /\ c.stage \in Writing /\ c.phase = "use"
  /\ Save(f, Mutated(c), After(c))

-----------------------------------------------------------------------------
(* A request arrives.                                                      *)

enforceInboundRoutePolicy(f) ==
  /\ Reads(f, "enforce")
  /\ Moves(f, IF frame[f].from \in Loaded(f).denyIn
              THEN Answered(frame[f], Error) ELSE invokeHandler(frame[f]))
  /\ OnlyFrames

authorizeRpc(f) ==
  LET c == frame[f] IN
  /\ At(f, "authorize")
  /\ \/ /\ check[f] = Idle
        /\ BeginCheck(f, [user |-> c.auth.user, claimed |-> c.auth.groups,
                          command |-> c.req.method, mask |-> {}, scope |-> c.auth.scope])
        /\ UNCHANGED frame
     \/ /\ check[f] # Idle /\ check[f].phase \in {"allowed", "refused"}
        /\ check' = [check EXCEPT ![f] = Idle]
        /\ since' = [since EXCEPT ![f] = Nothing]
        /\ Moves(f, IF check[f].phase = "allowed" THEN Run(c) ELSE Answered(c, Error))
  /\ UNCHANGED <<groups, grants, admin, changes, routeState, budget>>

listPeerSummaries(f) ==
  LET known == {m \in Node : Known(Loaded(f), m)} IN
  /\ Reads(f, "peers")
  /\ Moves(f, Answered(frame[f], Ok(<<>>, known, frame[f].trail)))
  /\ OnlyFrames

-----------------------------------------------------------------------------
(* Calling another node.                                                   *)

(* In its own process a node is called if the registry lets it be reached; *)
(* else over its session, else at its address.                             *)
CanCall(n, m) == m \in Reaches[n] \/ OverSession(n, m)

CallPeer(c, m) == [To(c, "call") EXCEPT !.to = m]

(* What is asked of the other node: its peers, an exec of the proxy, or    *)
(* what the exec carries.                                                  *)
Outgoing(c) ==
  CASE c.req.method = "learn" -> [method |-> "peers"]
    [] c.req.method = "exec" /\ c.proxied ->
         Exec(c.req.dst, 1, Append(c.req.path, c.node), c.req.inner)
    [] OTHER -> c.req.inner

callDetailed(f) ==
  LET c == frame[f]
      asks == Call(c.to, c.node, c.origin, c.auth, Outgoing(c), f, c.trail)
  IN
  /\ At(f, "call") /\ (ByAddress(c.node, c.to) => Reads(f, "call"))
  /\ IF CanCall(c.node, c.to)
     THEN \E g \in FrameId :
            /\ ~Active(g) /\ \A h \in FrameId : ~Active(h) => g <= h
            /\ frame' = [frame EXCEPT ![f] = To(c, "wait"), ![g] = dispatch(asks)]
     ELSE Moves(f, Answered(c, Error))
  /\ OnlyFrames

(* executeRouted: here, over a proxy, or directly.                         *)
ProxyFor(s, dst) ==
  IF s.routes[dst] \notin {NoNode, dst} THEN s.routes[dst]
  ELSE IF Known(s, dst) /\ ~s.peers[dst].suggested THEN s.peers[dst].via
  ELSE NoNode

executeRouted(f) ==
  LET c == frame[f]
      n == c.node
      s == Loaded(f)
      dst == IF c.req.dst # NoNode THEN c.req.dst ELSE s.default
      proxy == ProxyFor(s, dst)
  IN
  /\ Reads(f, "route")
  /\ \/ /\ dst \in {NoNode, n}
        /\ Moves(f, invokeHandler([c EXCEPT !.req = c.req.inner]))
     \/ /\ dst \notin {NoNode, n} /\ proxy # NoNode
        /\ IF c.req.hop > 0 \/ proxy \in s.denyOut
           THEN Moves(f, Answered(c, Error))
           ELSE Moves(f, CallPeer([c EXCEPT !.proxied = TRUE, !.req.dst = dst], proxy))
     \/ /\ dst \notin {NoNode, n} /\ proxy = NoNode
        /\ IF dst \in s.denyOut /\ dst \notin Reverse[n]
           THEN Moves(f, Answered(c, Error))
           ELSE Moves(f, CallPeer([c EXCEPT !.req.dst = dst], dst))
  /\ OnlyFrames

(* learn: the peers of another node become suggestions to reach over it.   *)
(* The node asks for them with its own authority.                          *)
learn(f) ==
  LET c == frame[f] IN
  /\ At(f, "learn")
  /\ Moves(f, CallPeer([c EXCEPT !.origin = c.node, !.auth = makeInternalAuth], c.req.peer))
  /\ OnlyFrames

LearnNext(f) ==
  LET c == frame[f]
      m == CHOOSE x \in c.left : TRUE
      p == Loaded(f).peers[m]
  IN
  /\ Reads(f, "peek")
  /\ Moves(f, IF c.left = {} THEN Answered(c, Ok(<<>>, {}, c.trail))
                 ELSE IF \/ m \in {c.node, c.to}
                         \/ p # NoPeer /\ p.connected
                         \/ p # NoPeer /\ ~p.suggested /\ (p.addr \/ p.via # NoNode)
                 THEN To([c EXCEPT !.left = @ \ {m}], "peek")
                 ELSE To(c, "learnt"))
  /\ OnlyFrames

(* The callee's answer reaches the caller, if that one still waits.  An    *)
(* error fails the caller as well.                                         *)
Return(f) ==
  LET c == frame[f]
      p == frame[c.parent]
      direct == Ok(p.req.path \o <<p.node, p.to>>, {}, c.answer.trail)
  IN
  /\ At(f, "answer")
  /\ IF c.parent = Idle
     THEN Moves(f, Idle)
     ELSE frame' = [frame EXCEPT ![f] = Idle, ![c.parent] =
            IF ~c.answer.ok THEN Answered(p, Error)
            ELSE [To(p, "outbound") EXCEPT
                    !.left = c.answer.peers,
                    !.answer = IF p.req.method = "learn" \/ p.proxied THEN c.answer
                               ELSE direct]]
  /\ OnlyFrames

(* Mutant: the call that timed out still waits for its answer.             *)
GiveUpUnnoticed(f) ==
  /\ Active(f) /\ frame[f].parent # Idle
  /\ budget.giveUps > 0
  /\ budget' = [budget EXCEPT !.giveUps = @ - 1]
  /\ frame' = [frame EXCEPT ![frame[f].parent] = Answered(@, Error)]
  /\ UNCHANGED <<iamVars, routeState>>

(* raceTimeout: the caller gives up; the callee goes on.                   *)
GiveUp(f) ==
  /\ Active(f) /\ frame[f].parent # Idle
  /\ budget.giveUps > 0
  /\ budget' = [budget EXCEPT !.giveUps = @ - 1]
  /\ frame' = [frame EXCEPT ![f].parent = Idle,
                 ![frame[f].parent] = Answered(@, Error)]
  /\ UNCHANGED <<iamVars, routeState>>

(* An operator or an application calls a node; neither is a node itself.   *)
Request(f) ==
  /\ ~Active(f) /\ \A h \in FrameId : ~Active(h) => f <= h
  /\ budget.requests > 0
  /\ budget' = [budget EXCEPT !.requests = @ - 1]
  /\ \E r \in Requests :
       Moves(f, dispatch(Call(r.node, NoNode, r.node, r.auth, r.req, Idle, <<>>)))
  /\ UNCHANGED <<iamVars, routeState>>

FrameStep(f) ==
  \/ LoadRouteState(f)
  \/ FindExpired(f)
  \/ SavePruned(f)
  \/ SaveRouteState(f)
  \/ enforceInboundRoutePolicy(f)
  \/ authorizeRpc(f)
  \/ listPeerSummaries(f)
  \/ executeRouted(f)
  \/ learn(f)
  \/ callDetailed(f)
  \/ LearnNext(f)
  \/ Return(f)

WithIam(A) == A /\ UNCHANGED callVars

Init ==
  /\ IamInit
  /\ routeState = RoutesAtStart
  /\ frame = [f \in FrameId |-> Idle]
  /\ \E b \in Budgets : budget = b /\ changes = b.changes

Next ==
  \/ \E f \in FrameId : Request(f) \/ FrameStep(f) \/ GiveUp(f) \/ WithIam(CheckStep(f))
  \/ \E a \in Admin : WithIam(AdminStep(a))

Spec == Init /\ [][Next]_vars

(* Calls in progress go on.                                                *)
FairSpec == Spec /\ WF_vars(\E f \in FrameId : FrameStep(f) \/ WithIam(CheckStep(f)))

-----------------------------------------------------------------------------
TypeOK ==
  /\ routeState \in [Node -> RouteState]
  /\ \A f \in FrameId : Active(f) =>
       /\ frame[f].node \in Node /\ frame[f].from \in Node \cup {NoNode}
       /\ frame[f].parent # Idle => frame[frame[f].parent].stage = "wait"
       /\ frame[f].stage \in Reading \cup {"authorize", "learn", "wait", "answer"}
       /\ check[f] # Idle => frame[f].stage = "authorize"

(* A call goes over one proxy at most, whatever the nodes' routes are and  *)
(* whatever they learn of each other meanwhile.                            *)
OneProxyHop == \A f \in FrameId : Active(f) => Len(frame[f].trail) <= 3

(* The path that exec reports is the one the call went.                    *)
PathIsTrue ==
  \A f \in FrameId :
    Active(f) /\ frame[f].req.method = "exec" /\ frame[f].stage = "answer" /\ frame[f].answer.ok
      => frame[f].answer.path = frame[f].answer.trail

(* A node runs nothing for a caller that a rule of its own bars all along. *)
DenyInHolds == \A f \in FrameId : Active(f) => ~frame[f].defied

(* A rule that was set is kept: nothing takes one back.                    *)
DenyKept ==
  [][\A n \in Node : /\ routeState[n].denyIn \subseteq routeState'[n].denyIn
                     /\ routeState[n].denyOut \subseteq routeState'[n].denyOut]_vars

(* Every call comes to an end, whoever gives up on whom.                   *)
CallsEnd == []<>(\A f \in FrameId : ~Active(f))
=====================
