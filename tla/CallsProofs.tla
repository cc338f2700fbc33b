---------------------------- MODULE CallsProofs -----------------------------
(* What TLAPS proves of the calls between nodes, for every set of nodes    *)
(* and calls in progress, all routes and all requests, however steps of    *)
(* them interleave: that each call keeps to its handler, that no barred    *)
(* caller is heard, that exec takes one proxy at most, and that the path   *)
(* it reports is the one it went. What each step does is one lemma         *)
(* (LoadIs, SaveIs, ExecutedIs, ...), on which the three inductive         *)
(* invariants rest: Typed, RulesBind and PathSafe. The second part is      *)
(* about the groups and grants (module Iam) in the system of Calls.        *)
EXTENDS Calls, SequenceTheorems, FiniteSetTheorems, TLAPS

CONSTANT Carried   \* the requests that exec may carry

(* A node, or none.                                                        *)
Ends == Node \cup {NoNode}

(* What a node may be asked for, but for exec.                             *)
Asked ==
  [method : {"work", "peers"}] \cup
  [method : {"learn", "deleteRoute"}, peer : Node] \cup
  [method : {"setRoute"}, peer : Node, proxy : Ends] \cup
  [method : {"deny"}, peer : Node, dir : {"in", "out", "both"}] \cup
  [method : {"proxy"}, peer : Ends]

(* An exec, which carries another request.                                 *)
Execs == [method : {"exec"}, dst : Ends, hop : Nat, path : Seq(Node), inner : Carried]
Req == Asked \cup Execs

(* Where in its handler a call may be.                                     *)
Stage == Reading \cup {"dispatch", "authorize", "learn", "wait", "answer"}

(* The answers.                                                            *)
Answer == [ok : BOOLEAN, path : Seq(Node), peers : SUBSET Node, trail : Seq(Node)]

(* The authorities that calls may have.                                    *)
Auth == {r.auth : r \in Requests} \cup {makeInternalAuth}

(* The calls at a node.                                                    *)
Frame ==
  [node : Node, from : Ends, origin : Node, auth : Auth, req : Req,
   parent : FrameId \cup {Idle}, trail : Seq(Node), stage : Stage,
   phase : {"load", "use", "prune"}, snap : RouteState \cup {Idle}, to : Ends,
   proxied : BOOLEAN, answer : Answer \cup {Idle}, left : SUBSET Node,
   barred : BOOLEAN, defied : BOOLEAN]

(* What the constants are: values that stand for nothing are told apart    *)
(* from the others, and nodes start with records and are asked for what    *)
(* there is.                                                               *)
Setting ==
  /\ Idle \notin Frame \cup FrameId \cup RouteState
  /\ NoNode \notin Node
  /\ NoPeer \notin Peer
  /\ RoutesAtStart \in [Node -> RouteState]
  /\ Carried \subseteq Req
  /\ \A r \in Requests : r.node \in Node /\ r.req \in Req

(* The peer that learn takes next.                                         *)
FirstLeft(c) == CHOOSE x \in c.left : TRUE

(* Nodes do not call themselves, and only exec that has not gone over a    *)
(* proxy yet goes over one.                                                *)
Rooted(c) ==
  /\ c.from # c.node
  /\ c.proxied => c.req.method = "exec" /\ c.req.dst \in Node /\ c.req.hop = 0

(* A call that has not been passed on.                                     *)
Fresh(c) == Rooted(c) /\ ~c.proxied

(* What is true of a call at each stage.                                   *)
Staged(c) ==
  /\ Rooted(c)
  /\ c.stage \in {"inbound", "origin", "enforce", "authorize", "route", "peers", "learn", "edit"}
       => ~c.proxied
  /\ c.stage # "dispatch"
  /\ c.stage \in {"inbound", "origin", "enforce"} => c.from \in Node
  /\ c.stage = "origin" => c.origin \notin {c.node, c.from}
  /\ c.stage = "route" => c.req.method = "exec"
  /\ c.stage = "peers" => c.req.method = "peers"
  /\ c.stage \in {"learn", "peek", "learnt"} => c.req.method = "learn"
  /\ c.stage = "edit" => c.req.method \in Edits
  /\ c.stage \in {"call", "wait", "outbound", "via", "peek", "learnt"} => c.to \in Node
  /\ c.stage \in {"call", "wait", "outbound", "via"} => c.req.method \in {"exec", "learn"}
  /\ c.stage = "learnt" => c.left # {} /\ FirstLeft(c) \notin {c.node, c.to}
  /\ c.stage = "via" => c.proxied
  /\ c.stage \in {"outbound", "via", "answer"} => c.answer \in Answer
  /\ c.phase # "load" => c.snap \in RouteState

(* Every call is as its stage says.                                        *)
Framed == \A f \in FrameId : Active(f) => Staged(frame[f])

(* The call f is made by p, which waits for it.                            *)
Child(f, p) == Active(f) /\ frame[f].parent = p

(* A call waits for no more than one other, and only when it is in that    *)
(* stage.                                                                  *)
Waited ==
  \A f, p \in FrameId : Child(f, p) =>
     f # p /\ At(p, "wait") /\ \A g \in FrameId : Child(g, p) => g = f

(* Only a call that asks for leave has an evaluation under way.            *)
Checked == \A f \in FrameId : check[f] # Idle => At(f, "authorize")

(* The inductive invariant behind TypeOK.                                  *)
Typed ==
  /\ routeState \in [Node -> RouteState]
  /\ frame \in [FrameId -> Frame \cup {Idle}]
  /\ DOMAIN check = FrameId
  /\ Framed /\ Waited /\ Checked

-----------------------------------------------------------------------------
(* The stages that read and those that write are stages.                   *)
LEMMA Stages ==
  /\ Writing \subseteq Reading /\ Reading \subseteq Stage
  /\ {"dispatch", "authorize", "learn", "wait", "answer"} \subseteq Stage
BY DEF Writing, Reading, Stage

(* Going on to another stage changes the stage, and drops what was read.   *)
LEMMA ToFrame ==
  ASSUME NEW c \in Frame, NEW s \in Stage
  PROVE  /\ To(c, s) \in Frame
         /\ To(c, s).stage = s /\ To(c, s).phase = "load" /\ To(c, s).snap = Idle
         /\ To(c, s).node = c.node /\ To(c, s).from = c.from /\ To(c, s).origin = c.origin
         /\ To(c, s).auth = c.auth /\ To(c, s).req = c.req /\ To(c, s).parent = c.parent
         /\ To(c, s).trail = c.trail /\ To(c, s).to = c.to /\ To(c, s).proxied = c.proxied
         /\ To(c, s).answer = c.answer /\ To(c, s).left = c.left
         /\ To(c, s).barred = c.barred /\ To(c, s).defied = c.defied
BY DEF To, Frame

(* An answered call is in its last stage, with the answer.                 *)
LEMMA AnsweredFrame ==
  ASSUME NEW c \in Frame, NEW a \in Answer
  PROVE  LET d == Answered(c, a) IN
         /\ d \in Frame
         /\ d.stage = "answer" /\ d.phase = "load" /\ d.snap = Idle
         /\ d.node = c.node /\ d.from = c.from /\ d.origin = c.origin
         /\ d.auth = c.auth /\ d.req = c.req /\ d.parent = c.parent
         /\ d.trail = c.trail /\ d.to = c.to /\ d.proxied = c.proxied
         /\ d.answer = a /\ d.left = c.left
         /\ d.barred = c.barred /\ d.defied = c.defied
<1>1. "answer" \in Stage BY Stages
<1> DEFINE e == To(c, "answer")
<1>2. /\ e \in Frame /\ e.stage = "answer" /\ e.phase = "load" /\ e.snap = Idle
      /\ e.node = c.node /\ e.from = c.from /\ e.origin = c.origin
      /\ e.auth = c.auth /\ e.req = c.req /\ e.parent = c.parent
      /\ e.trail = c.trail /\ e.to = c.to /\ e.proxied = c.proxied
      /\ e.left = c.left /\ e.barred = c.barred /\ e.defied = c.defied
  BY <1>1, ToFrame
<1>3. Answered(c, a) = [e EXCEPT !.answer = a] BY DEF Answered
<1> HIDE DEF e
<1> QED BY <1>2, <1>3 DEF Frame

(* An error is an answer that is not ok.                                   *)
LEMMA Errors == Error \in Answer /\ ~Error.ok /\ Error.peers = {}
BY DEF Error, Answer

(* What Ok makes of its arguments.                                         *)
LEMMA OkIs ==
  ASSUME NEW path \in Seq(Node), NEW peers \in SUBSET Node, NEW trail \in Seq(Node)
  PROVE  /\ Ok(path, peers, trail) \in Answer /\ Ok(path, peers, trail).ok
         /\ Ok(path, peers, trail).path = path /\ Ok(path, peers, trail).trail = trail
         /\ Ok(path, peers, trail).peers = peers
BY DEF Ok, Answer

-----------------------------------------------------------------------------
(* The call is the same, but for where it is and what it has read.         *)
Same(c, d) ==
  /\ d.node = c.node /\ d.from = c.from /\ d.origin = c.origin /\ d.auth = c.auth
  /\ d.req = c.req /\ d.parent = c.parent /\ d.trail = c.trail /\ d.to = c.to
  /\ d.proxied = c.proxied /\ d.barred = c.barred

(* The stages of the handlers themselves.                                  *)
Handled == {"authorize", "route", "peers", "learn", "edit"}

(* What the stages of dispatch and the handlers make of a call.            *)
Flow(c, d) ==
  /\ d \in Frame /\ Staged(d) /\ Same(c, d)
  /\ d.snap = Idle /\ d.phase = "load"
  /\ d.stage # "wait" /\ d.defied \in {c.defied, c.barred}

(* A request that makes no other call.                                     *)
Plainly(c) == c.req.method \notin {"exec", "learn"}

(* The call d is c answered at once: with an error, or for the way c has   *)
(* come.                                                                   *)
Answering(c, d) == \/ d.answer = Error
                   \/ Plainly(c) /\ d.answer \in Answer /\ d.answer.trail = c.trail

(* The call d is c sent on to one of the stages, or answered at once.      *)
Starts(c, d, stages) ==
  \/ d.stage \in stages
  \/ d.stage = "answer" /\ Answering(c, d)

(* The fields of a request, by its method.                                 *)
LEMMA Methods ==
  ASSUME NEW r \in Req
  PROVE  /\ r.method \in {"work", "exec", "peers", "learn"} \cup Edits
         /\ r.method = "exec" => r \in Execs
         /\ r.method \in {"learn", "deleteRoute", "setRoute", "deny"} => r.peer \in Node
         /\ r.method = "setRoute" => r.proxy \in Ends
         /\ r.method = "deny" => r.dir \in {"in", "out", "both"}
         /\ r.method = "proxy" => r.peer \in Ends
BY DEF Req, Asked, Execs, Edits

(* The fields of a call.                                                   *)
LEMMA FrameFields ==
  ASSUME NEW c \in Frame
  PROVE  /\ c.node \in Node /\ c.from \in Ends /\ c.origin \in Node /\ c.req \in Req
         /\ c.parent \in FrameId \cup {Idle} /\ c.trail \in Seq(Node) /\ c.stage \in Stage
         /\ c.phase \in {"load", "use", "prune"} /\ c.snap \in RouteState \cup {Idle}
         /\ c.to \in Ends /\ c.proxied \in BOOLEAN /\ c.answer \in Answer \cup {Idle}
         /\ c.left \in SUBSET Node /\ c.barred \in BOOLEAN /\ c.defied \in BOOLEAN
BY DEF Frame

(* Going on to a stage that suits the request.                             *)
LEMMA ToFlow ==
  ASSUME NEW c \in Frame, Fresh(c), NEW s \in Handled \cup {"inbound", "origin", "enforce"},
         s = "route" => c.req.method = "exec",
         s = "peers" => c.req.method = "peers",
         s = "learn" => c.req.method = "learn",
         s = "edit" => c.req.method \in Edits,
         s \in {"inbound", "origin", "enforce"} => c.from \in Node,
         s = "origin" => c.origin \notin {c.node, c.from}
  PROVE  Flow(c, To(c, s)) /\ To(c, s).stage = s /\ To(c, s).defied = c.defied
<1>1. s \in Stage BY Stages DEF Handled, Stage, Reading, Writing
<1> DEFINE d == To(c, s)
<1>2. /\ d \in Frame
      /\ d.stage = s /\ d.phase = "load" /\ d.snap = Idle
      /\ d.defied = c.defied /\ Same(c, d)
  BY <1>1, ToFrame DEF Same
<1> HIDE DEF d
<1>3. Fresh(d) BY <1>2 DEF Fresh, Rooted, Same
<1>4. Staged(d) BY <1>2, <1>3 DEF Staged, Fresh, Same, Handled
<1> QED BY <1>2, <1>4 DEF Flow, d, Handled

(* Answering a call ends its handler.                                      *)
LEMMA AnsweredFlow ==
  ASSUME NEW c \in Frame, Rooted(c), NEW a \in Answer
  PROVE  /\ Flow(c, Answered(c, a))
         /\ Answered(c, a).stage = "answer" /\ Answered(c, a).answer = a
         /\ Answered(c, a).defied = c.defied
<1> DEFINE d == Answered(c, a)
<1>2. /\ d \in Frame
      /\ d.stage = "answer" /\ d.phase = "load" /\ d.snap = Idle /\ d.answer = a
      /\ d.defied = c.defied /\ Same(c, d)
  BY AnsweredFrame DEF Same
<1> HIDE DEF d
<1>3. Rooted(d) BY <1>2 DEF Rooted, Same
<1>4. Staged(d) BY <1>2, <1>3 DEF Staged, Same
<1> QED BY <1>2, <1>4 DEF Flow, d

(* So does failing it.                                                     *)
LEMMA FailsFlow ==
  ASSUME NEW c \in Frame, Rooted(c)
  PROVE  /\ Flow(c, Answered(c, Error)) /\ Answered(c, Error).stage = "answer"
         /\ Answered(c, Error).defied = c.defied
         /\ Starts(c, Answered(c, Error), {})
BY Errors, AnsweredFlow DEF Starts, Answering

(* What Run makes of a call: it starts the method asked for, and notes     *)
(* whether the caller is barred.                                           *)
LEMMA RunFlow ==
  ASSUME NEW c \in Frame, Fresh(c)
  PROVE  /\ Flow(c, Run(c)) /\ Run(c).defied = c.barred
         /\ Starts(c, Run(c), Handled)
<1> DEFINE e == [c EXCEPT !.defied = c.barred]
<1>1. e \in Frame /\ Same(c, e) /\ e.defied = c.barred BY FrameFields DEF Frame, Same
<1>2. Fresh(e) /\ Rooted(e) BY <1>1 DEF Fresh, Rooted, Same
<1>3. c.req.method \in {"work", "exec", "peers", "learn"} \cup Edits BY FrameFields, Methods
<1>4. Run(c) = CASE c.req.method = "work" -> Answered(e, Ok(<<c.node>>, {}, c.trail))
                 [] c.req.method = "exec" -> To(e, "route")
                 [] c.req.method = "peers" -> To(e, "peers")
                 [] c.req.method = "learn" -> To(e, "learn")
                 [] c.req.method \in Edits -> To(e, "edit")
  BY DEF Run
<1> HIDE DEF e
<1>5. ASSUME NEW d, Flow(e, d), d.defied = e.defied, Starts(c, d, Handled)
      PROVE  Flow(c, d) /\ d.defied = c.barred
  BY <1>1, <1>5 DEF Flow, Same
<1>6. CASE c.req.method = "work"
  <2> DEFINE a == Ok(<<c.node>>, {}, c.trail)
  <2>1. a \in Answer /\ a.trail = c.trail
    <3> DEFINE only == <<c.node>>
    <3>0. only \in Seq(Node) BY FrameFields
    <3> HIDE DEF only
    <3>1. PICK path \in Seq(Node) : path = only BY <3>0
    <3>2. PICK none \in SUBSET Node : none = {} OBVIOUS
    <3>3. PICK trail \in Seq(Node) : trail = c.trail BY FrameFields
    <3>4. Ok(path, none, trail) \in Answer /\ Ok(path, none, trail).trail = trail BY OkIs
    <3> QED BY <3>1, <3>2, <3>3, <3>4 DEF only
  <2>2. Run(c) = Answered(e, a) BY <1>4, <1>6 DEF Edits
  <2> HIDE DEF a
  <2>3. Flow(e, Run(c)) /\ Run(c).defied = e.defied /\ Run(c).stage = "answer" /\ Run(c).answer = a
    BY <1>1, <1>2, <2>1, <2>2, AnsweredFlow
  <2> QED BY <1>5, <1>6, <2>1, <2>3 DEF Starts, Answering, Plainly
<1>7. CASE c.req.method = "exec"
  <2>1. Run(c) = To(e, "route") BY <1>4, <1>7 DEF Edits
  <2>2. e.req.method = "exec" BY <1>1, <1>7 DEF Same
  <2>3. Flow(e, Run(c)) /\ Run(c).defied = e.defied /\ Run(c).stage = "route"
    BY <1>1, <1>2, <2>1, <2>2, ToFlow DEF Handled
  <2> QED BY <1>5, <2>3 DEF Starts, Handled
<1>8. CASE c.req.method = "peers"
  <2>1. Run(c) = To(e, "peers") BY <1>4, <1>8 DEF Edits
  <2>2. e.req.method = "peers" BY <1>1, <1>8 DEF Same
  <2>3. Flow(e, Run(c)) /\ Run(c).defied = e.defied /\ Run(c).stage = "peers"
    BY <1>1, <1>2, <2>1, <2>2, ToFlow DEF Handled
  <2> QED BY <1>5, <2>3 DEF Starts, Handled
<1>9. CASE c.req.method = "learn"
  <2>1. Run(c) = To(e, "learn") BY <1>4, <1>9 DEF Edits
  <2>2. e.req.method = "learn" BY <1>1, <1>9 DEF Same
  <2>3. Flow(e, Run(c)) /\ Run(c).defied = e.defied /\ Run(c).stage = "learn"
    BY <1>1, <1>2, <2>1, <2>2, ToFlow DEF Handled
  <2> QED BY <1>5, <2>3 DEF Starts, Handled
<1>10. CASE c.req.method \in Edits
  <2>1. Run(c) = To(e, "edit") BY <1>4, <1>10 DEF Edits
  <2>2. e.req.method \in Edits BY <1>1, <1>10 DEF Same
  <2>3. Flow(e, Run(c)) /\ Run(c).defied = e.defied /\ Run(c).stage = "edit"
    BY <1>1, <1>2, <2>1, <2>2, ToFlow DEF Handled
  <2> QED BY <1>5, <2>3 DEF Starts, Handled
<1> QED BY <1>3, <1>6, <1>7, <1>8, <1>9, <1>10

(* invokeHandler lets a call start, asks for leave, or fails it.           *)
LEMMA InvokeFlow ==
  ASSUME NEW c \in Frame, Fresh(c)
  PROVE  /\ Flow(c, invokeHandler(c)) /\ Starts(c, invokeHandler(c), Handled)
<1>1. CASE ~c.auth.internal /\ c.auth.user = NoUser
  <2>1. invokeHandler(c) = Answered(c, Error) BY <1>1 DEF invokeHandler
  <2> QED BY <2>1, FailsFlow DEF Starts, Fresh
<1>2. CASE c.auth.internal
  <2>1. invokeHandler(c) = Run(c) BY <1>2 DEF invokeHandler
  <2> QED BY <2>1, RunFlow
<1>3. CASE ~c.auth.internal /\ c.auth.user # NoUser
  <2>1. invokeHandler(c) = To(c, "authorize") BY <1>3 DEF invokeHandler
  <2> QED BY <2>1, ToFlow DEF Starts, Handled
<1> QED BY <1>1, <1>2, <1>3

(* A call from another node goes to the deny rules before anything is      *)
(* run.                                                                    *)
LEMMA EnforcedFlow ==
  ASSUME NEW c \in Frame, Fresh(c)
  PROVE  /\ Flow(c, Enforced(c))
         /\ Starts(c, Enforced(c), Handled \cup {"enforce"})
         /\ c.from \notin {NoNode, c.node} => Enforced(c).stage = "enforce" /\ Enforced(c).defied = c.defied
<1>1. CASE c.from \in {NoNode, c.node}
  <2>1. Enforced(c) = invokeHandler(c) BY <1>1 DEF Enforced
  <2> QED BY <1>1, <2>1, InvokeFlow DEF Starts
<1>2. CASE c.from \notin {NoNode, c.node}
  <2>1. Enforced(c) = To(c, "enforce") BY <1>2 DEF Enforced
  <2>2. c.from \in Node BY <1>2, FrameFields DEF Ends
  <2> QED BY <2>1, <2>2, ToFlow DEF Starts, Handled
<1> QED BY <1>1, <1>2

(* The same, where the origin is to be noted first.                        *)
LEMMA KnowsFlow ==
  ASSUME NEW c \in Frame, Fresh(c)
  PROVE  /\ Flow(c, KnowsOrigin(c))
         /\ Starts(c, KnowsOrigin(c), Handled \cup {"enforce", "origin"})
         /\ c.from \notin {NoNode, c.node} => KnowsOrigin(c).stage \in {"enforce", "origin"} /\ KnowsOrigin(c).defied = c.defied
<1>1. CASE c.from = NoNode \/ c.origin \in {c.node, c.from}
  <2>1. KnowsOrigin(c) = Enforced(c) BY <1>1 DEF KnowsOrigin
  <2> QED BY <1>1, <2>1, EnforcedFlow DEF Starts
<1>2. CASE ~(c.from = NoNode \/ c.origin \in {c.node, c.from})
  <2>1. KnowsOrigin(c) = To(c, "origin") BY <1>2 DEF KnowsOrigin
  <2>2. c.from \in Node BY <1>2, FrameFields DEF Ends
  <2> QED BY <1>2, <2>1, <2>2, ToFlow DEF Starts, Handled
<1> QED BY <1>1, <1>2

(* The same, where the caller is to be noted first.                        *)
LEMMA DispatchFlow ==
  ASSUME NEW c \in Frame, Fresh(c)
  PROVE  /\ Flow(c, dispatch(c))
         /\ Starts(c, dispatch(c), Handled \cup {"enforce", "origin", "inbound"})
         /\ c.from \notin {NoNode, c.node} => dispatch(c).stage = "inbound" /\ dispatch(c).defied = c.defied
<1>1. CASE c.from \in {NoNode, c.node}
  <2>1. dispatch(c) = KnowsOrigin(c) BY <1>1 DEF dispatch
  <2> QED BY <1>1, <2>1, KnowsFlow DEF Starts
<1>2. CASE c.from \notin {NoNode, c.node}
  <2>1. dispatch(c) = To(c, "inbound") BY <1>2 DEF dispatch
  <2>2. c.from \in Node BY <1>2, FrameFields DEF Ends
  <2> QED BY <1>2, <2>1, <2>2, ToFlow DEF Starts, Handled
<1> QED BY <1>1, <1>2

-----------------------------------------------------------------------------
(* The fields of a route state.                                            *)
LEMMA RouteFields ==
  ASSUME NEW s \in RouteState
  PROVE  /\ s.routes \in [Node -> Ends] /\ s.denyIn \in SUBSET Node /\ s.denyOut \in SUBSET Node
         /\ s.default \in Ends /\ s.peers \in [Node -> Peer \cup {NoPeer}]
BY DEF RouteState, Ends

(* What is known of a peer is a peer.                                      *)
LEMMA PeerOfIs ==
  ASSUME NEW s \in RouteState, NEW m \in Node
  PROVE  PeerOf(s, m) \in Peer
BY RouteFields DEF PeerOf, Known, NewPeer, Peer

(* Setting a peer changes that peer alone, and no deny rule.               *)
LEMMA SetPeerIs ==
  ASSUME NEW s \in RouteState, NEW m \in Node, NEW p \in Peer
  PROVE  /\ SetPeer(s, m, p) \in RouteState
         /\ SetPeer(s, m, p).denyIn = s.denyIn
         /\ \A k \in Node : SetPeer(s, m, p).peers[k] = IF k = m THEN p ELSE s.peers[k]
BY DEF SetPeer, RouteState

(* What the stages write of a peer.                                        *)
LEMMA PeerEdits ==
  ASSUME NEW p \in Peer, NEW m \in Ends, NEW b \in BOOLEAN, NEW k \in BOOLEAN
  PROVE  /\ [p EXCEPT !.addr = TRUE, !.suggested = FALSE] \in Peer
         /\ [p EXCEPT !.addr = TRUE, !.suggested = FALSE].via = p.via
         /\ [p EXCEPT !.addr = b, !.suggested = FALSE, !.connected = k] \in Peer
         /\ [p EXCEPT !.addr = b, !.suggested = FALSE, !.connected = k].via = p.via
         /\ [p EXCEPT !.via = m, !.suggested = FALSE] \in Peer
         /\ [p EXCEPT !.via = m, !.suggested = FALSE].via = m
         /\ [p EXCEPT !.via = m, !.suggested = TRUE, !.addr = TRUE, !.connected = FALSE] \in Peer
         /\ [p EXCEPT !.via = m, !.suggested = TRUE, !.addr = TRUE, !.connected = FALSE].via = m
BY DEF Peer, Ends

(* Edits of routes keep the peers, and take back no rule.                  *)
LEMMA EditedIs ==
  ASSUME NEW s \in RouteState, NEW e \in Req, e.method \in Edits
  PROVE  /\ Edited(s, e) \in RouteState /\ Edited(s, e).peers = s.peers
         /\ s.denyIn \subseteq Edited(s, e).denyIn
<1>1. CASE e.method = "setRoute"
  <2>1. Edited(s, e) = [s EXCEPT !.routes[e.peer] = e.proxy] BY <1>1 DEF Edited
  <2>2. e.peer \in Node /\ e.proxy \in Ends BY <1>1, Methods
  <2> QED BY <2>1, <2>2 DEF RouteState, Ends
<1>2. CASE e.method = "deleteRoute"
  <2>1. Edited(s, e) = [s EXCEPT !.routes[e.peer] = NoNode] BY <1>2 DEF Edited
  <2>2. e.peer \in Node BY <1>2, Methods
  <2> QED BY <2>1, <2>2 DEF RouteState, Ends
<1>3. CASE e.method = "deny"
  <2> DEFINE in == IF e.dir = "out" THEN s.denyIn ELSE s.denyIn \cup {e.peer}
             out == IF e.dir = "in" THEN s.denyOut ELSE s.denyOut \cup {e.peer}
  <2>1. Edited(s, e) = [s EXCEPT !.denyIn = in, !.denyOut = out] BY <1>3 DEF Edited
  <2>2. e.peer \in Node BY <1>3, Methods
  <2>3. in \in SUBSET Node /\ out \in SUBSET Node /\ s.denyIn \subseteq in BY <2>2, RouteFields
  <2> HIDE DEF in, out
  <2> QED BY <2>1, <2>3 DEF RouteState
<1>4. CASE e.method = "proxy"
  <2>1. Edited(s, e) = [s EXCEPT !.default = e.peer] BY <1>4 DEF Edited
  <2>2. e.peer \in Ends BY <1>4, Methods
  <2> QED BY <2>1, <2>2 DEF RouteState, Ends
<1> QED BY <1>1, <1>2, <1>3, <1>4 DEF Edits

(* No peer is reached over that peer itself.                               *)
ViaElse(s) == \A m \in Node : Known(s, m) => s.peers[m].via # m

(* Setting a peer that is reached over another keeps ViaElse.              *)
LEMMA PeerChanged ==
  ASSUME NEW s \in RouteState, NEW m \in Node, NEW p \in Peer
  PROVE  /\ SetPeer(s, m, p) \in RouteState
         /\ SetPeer(s, m, p).denyIn = s.denyIn
         /\ ViaElse(s) /\ p.via # m => ViaElse(SetPeer(s, m, p))
<1> DEFINE t == SetPeer(s, m, p)
<1>1. /\ t \in RouteState /\ t.denyIn = s.denyIn
      /\ \A k \in Node : t.peers[k] = IF k = m THEN p ELSE s.peers[k]
  BY SetPeerIs
<1> HIDE DEF t
<1>2. ViaElse(s) /\ p.via # m => ViaElse(t) BY <1>1 DEF ViaElse, Known
<1> QED BY <1>1, <1>2 DEF t

(* A peer that is new, or known, is not reached over itself.               *)
LEMMA PeerOfVia ==
  ASSUME Setting, NEW s \in RouteState, NEW m \in Node, ViaElse(s)
  PROVE  PeerOf(s, m).via # m
BY DEF PeerOf, ViaElse, Setting, NewPeer

(* The proxy is not the destination.                                       *)
Elsewhere(c) ==
  c.stage \in {"call", "wait", "outbound", "via"} /\ c.proxied => c.req.dst # c.to

(* What is written back is a route state, in which no rule is taken back   *)
(* and no peer reached over itself.                                        *)
LEMMA MutatedIs ==
  ASSUME Setting, NEW c \in Frame, Staged(c), c.stage \in Writing, c.snap \in RouteState
  PROVE  /\ Mutated(c) \in RouteState
         /\ c.snap.denyIn \subseteq Mutated(c).denyIn
         /\ ViaElse(c.snap) /\ Elsewhere(c) => ViaElse(Mutated(c))
<1> DEFINE s == c.snap
<1>0. s \in RouteState OBVIOUS
<1>s. /\ c.from \in Ends /\ c.to \in Ends /\ c.node \in Node /\ c.origin \in Node
      /\ c.req \in Req /\ c.left \in SUBSET Node
  BY FrameFields
<1>1. CASE c.stage = "inbound"
  <2> DEFINE p == [PeerOf(s, c.from) EXCEPT !.addr = TRUE, !.suggested = FALSE]
  <2>1. Mutated(c) = SetPeer(s, c.from, p) BY <1>1 DEF Mutated
  <2>2. c.from \in Node BY <1>1 DEF Staged
  <2>3. p \in Peer /\ p.via = PeerOf(s, c.from).via
    <3>1. PeerOf(s, c.from) \in Peer BY <1>0, <2>2, PeerOfIs
    <3> QED BY <1>s, <3>1, PeerEdits
  <2>4. ViaElse(s) => p.via # c.from BY <1>0, <2>2, <2>3, PeerOfVia
  <2> HIDE DEF p, s
  <2> QED BY <1>0, <2>1, <2>2, <2>3, <2>4, PeerChanged DEF s
<1>2. CASE c.stage = "origin"
  <2> DEFINE p == [PeerOf(s, c.origin) EXCEPT !.via = c.from, !.suggested = FALSE]
  <2>1. Mutated(c) = SetPeer(s, c.origin, p) BY <1>2 DEF Mutated
  <2>3. p \in Peer /\ p.via = c.from
    <3>1. PeerOf(s, c.origin) \in Peer BY <1>0, <1>s, PeerOfIs
    <3> QED BY <1>s, <3>1, PeerEdits
  <2>4. p.via # c.origin BY <1>2, <2>3 DEF Staged
  <2> HIDE DEF p, s
  <2> QED BY <1>0, <1>s, <2>1, <2>3, <2>4, PeerChanged DEF s
<1>3. CASE c.stage = "outbound"
  <2> DEFINE b == PeerOf(s, c.to).addr \/ ~OverSession(c.node, c.to)
             k == PeerOf(s, c.to).connected \/ OverSession(c.node, c.to)
             p == [PeerOf(s, c.to) EXCEPT !.addr = b, !.suggested = FALSE, !.connected = k]
  <2>1. Mutated(c) = SetPeer(s, c.to, p) BY <1>3 DEF Mutated
  <2>2. c.to \in Node BY <1>3 DEF Staged
  <2>3. p \in Peer /\ p.via = PeerOf(s, c.to).via
    <3>1. PeerOf(s, c.to) \in Peer BY <1>0, <2>2, PeerOfIs
    <3>2. b \in BOOLEAN /\ k \in BOOLEAN BY <3>1 DEF Peer, OverSession
    <3> HIDE DEF b, k
    <3> QED BY <1>s, <3>1, <3>2, PeerEdits
  <2>4. ViaElse(s) => p.via # c.to BY <1>0, <2>2, <2>3, PeerOfVia
  <2> HIDE DEF p, s
  <2> QED BY <1>0, <2>1, <2>2, <2>3, <2>4, PeerChanged DEF s
<1>4. CASE c.stage = "via"
  <2> DEFINE p == [PeerOf(s, c.req.dst) EXCEPT !.via = c.to, !.suggested = FALSE]
  <2>1. Mutated(c) = SetPeer(s, c.req.dst, p) BY <1>4 DEF Mutated
  <2>2. c.req.dst \in Node /\ (Elsewhere(c) => c.req.dst # c.to) BY <1>4 DEF Staged, Rooted, Elsewhere
  <2>3. p \in Peer /\ p.via = c.to
    <3>1. PeerOf(s, c.req.dst) \in Peer BY <1>0, <2>2, PeerOfIs
    <3> QED BY <1>s, <3>1, PeerEdits
  <2>4. Elsewhere(c) => p.via # c.req.dst BY <2>2, <2>3
  <2> HIDE DEF p, s
  <2> QED BY <1>0, <2>1, <2>2, <2>3, <2>4, PeerChanged DEF s
<1>5. CASE c.stage = "learnt"
  <2> DEFINE m == FirstLeft(c)
             p == [PeerOf(s, m) EXCEPT !.via = c.to, !.suggested = TRUE, !.addr = TRUE,
                                       !.connected = FALSE]
  <2>1. Mutated(c) = SetPeer(s, m, p) BY <1>5 DEF Mutated, FirstLeft
  <2>2. m \in Node /\ m # c.to
    <3>1. c.left # {} /\ m \notin {c.node, c.to} BY <1>5 DEF Staged
    <3>2. m \in c.left BY <3>1 DEF FirstLeft
    <3> QED BY <1>s, <3>1, <3>2
  <2> HIDE DEF m
  <2>3. p \in Peer /\ p.via = c.to
    <3>1. PeerOf(s, m) \in Peer BY <1>0, <2>2, PeerOfIs
    <3> QED BY <1>s, <3>1, PeerEdits
  <2>4. p.via # m BY <2>2, <2>3
  <2> HIDE DEF p, s
  <2> QED BY <1>0, <2>1, <2>2, <2>3, <2>4, PeerChanged DEF s
<1>6. CASE c.stage = "edit"
  <2>1. Mutated(c) = Edited(s, c.req) BY <1>6 DEF Mutated
  <2>2. c.req.method \in Edits BY <1>6 DEF Staged
  <2>3. /\ Edited(s, c.req) \in RouteState /\ Edited(s, c.req).peers = s.peers
        /\ s.denyIn \subseteq Edited(s, c.req).denyIn
    BY <1>0, <1>s, <2>2, EditedIs
  <2> QED BY <2>1, <2>3 DEF ViaElse, Known
<1> QED BY <1>1, <1>2, <1>3, <1>4, <1>5, <1>6 DEF Writing

(* Where a call goes on after it has written: on to the next stage of      *)
(* dispatch, to the answer, or to the next peer.                           *)
LEMMA AfterFlow ==
  ASSUME Setting, NEW c \in Frame, Staged(c), c.stage \in Writing
  PROVE  /\ Flow(c, After(c))
         /\ c.stage \in {"inbound", "origin"} =>
              After(c).stage \in {"enforce", "origin"} /\ After(c).defied = c.defied
         /\ c.stage = "edit" => Starts(c, After(c), {})
         /\ c.stage \in {"outbound", "via", "learnt"} =>
              /\ After(c).stage \in {"peek", "via", "answer"} /\ After(c).defied = c.defied
              /\ After(c).stage \in {"via", "answer"} =>
                    c.stage # "learnt" /\ After(c).answer = c.answer
<1>0. Rooted(c) /\ (c.stage \in {"inbound", "origin"} => Fresh(c)) BY DEF Staged, Fresh
<1>s. {"peek", "via", "answer"} \subseteq Stage BY Stages DEF Reading, Writing
<1>n. c.stage \in {"inbound", "origin"} => c.from \notin {NoNode, c.node}
  BY DEF Staged, Rooted, Setting
<1>1. CASE c.stage = "inbound"
  <2>1. After(c) = KnowsOrigin(c) BY <1>1 DEF After
  <2> QED BY <1>0, <1>1, <1>n, <2>1, KnowsFlow
<1>2. CASE c.stage = "origin"
  <2>1. After(c) = Enforced(c) BY <1>2 DEF After
  <2> QED BY <1>0, <1>2, <1>n, <2>1, EnforcedFlow
<1>3. CASE c.stage = "outbound"
  <2>1. PICK s \in {"peek", "via", "answer"} :
          /\ After(c) = To(c, s)
          /\ s = "peek" => c.req.method = "learn"
          /\ s = "via" => c.proxied
    BY <1>3 DEF After
  <2>2. /\ To(c, s) \in Frame /\ Same(c, To(c, s)) /\ To(c, s).stage = s /\ To(c, s).phase = "load"
        /\ To(c, s).snap = Idle /\ To(c, s).answer = c.answer /\ To(c, s).defied = c.defied
    BY <1>s, ToFrame DEF Same
  <2>3. Staged(To(c, s)) BY <1>3, <2>1, <2>2 DEF Staged, Rooted, Same
  <2> QED BY <1>3, <2>1, <2>2, <2>3 DEF Flow
<1>4. CASE c.stage = "via"
  <2>1. After(c) = To(c, "answer") BY <1>4 DEF After
  <2> DEFINE d == To(c, "answer")
  <2>2. /\ d \in Frame /\ Same(c, d) /\ d.stage = "answer" /\ d.phase = "load"
        /\ d.snap = Idle /\ d.answer = c.answer /\ d.defied = c.defied
    BY <1>s, ToFrame DEF Same
  <2> HIDE DEF d
  <2>3. Staged(d) BY <1>0, <1>4, <2>2 DEF Staged, Rooted, Same
  <2> QED BY <1>4, <2>1, <2>2, <2>3 DEF Flow, d
<1>5. CASE c.stage = "edit"
  <2> DEFINE a == Ok(<<>>, {}, c.trail)
  <2>1. After(c) = Answered(c, a) BY <1>5 DEF After
  <2>2. a \in Answer /\ a.trail = c.trail
    <3> DEFINE empty == <<>>
    <3>0. empty \in Seq(Node) OBVIOUS
    <3> HIDE DEF empty
    <3>1. PICK path \in Seq(Node) : path = empty BY <3>0
    <3>2. PICK none \in SUBSET Node : none = {} OBVIOUS
    <3>3. PICK trail \in Seq(Node) : trail = c.trail BY FrameFields
    <3>4. Ok(path, none, trail) \in Answer /\ Ok(path, none, trail).trail = trail BY OkIs
    <3> QED BY <3>1, <3>2, <3>3, <3>4 DEF empty
  <2>3. Plainly(c) BY <1>5 DEF Staged, Plainly, Edits
  <2> HIDE DEF a
  <2>4. Flow(c, After(c)) /\ After(c).stage = "answer" /\ After(c).answer = a
    BY <1>0, <2>1, <2>2, AnsweredFlow
  <2> QED BY <1>5, <2>2, <2>3, <2>4 DEF Starts, Answering
<1>6. CASE c.stage = "learnt"
  <2> DEFINE b == [c EXCEPT !.left = @ \ {FirstLeft(c)}]
             d == To(b, "peek")
  <2>1. After(c) = d BY <1>6 DEF After, FirstLeft
  <2>2. b \in Frame /\ Same(c, b) /\ b.defied = c.defied BY DEF Frame, Same
  <2> HIDE DEF b
  <2>3. /\ d \in Frame /\ Same(c, d) /\ d.stage = "peek" /\ d.phase = "load"
        /\ d.snap = Idle /\ d.defied = c.defied
    BY <1>s, <2>2, ToFrame DEF Same
  <2> HIDE DEF d
  <2>4. Staged(d) BY <1>0, <1>6, <2>3 DEF Staged, Rooted, Same
  <2> QED BY <1>6, <2>1, <2>3, <2>4 DEF Flow
<1> QED BY <1>1, <1>2, <1>3, <1>4, <1>5, <1>6 DEF Writing

-----------------------------------------------------------------------------
(* A call in progress is a call, as its stage says.                        *)
LEMMA ActiveFrame ==
  ASSUME Setting, Typed, NEW f \in FrameId, Active(f)
  PROVE  frame[f] \in Frame /\ Staged(frame[f]) /\ Rooted(frame[f])
BY DEF Typed, Framed, Active, Staged

(* A call is not the absence of one.                                       *)
LEMMA FrameIsActive ==
  ASSUME Setting, NEW c \in Frame
  PROVE  c # Idle
BY DEF Setting

(* A call goes on without a change of who waits for whom.                  *)
Alike(c, d) ==
  /\ d \in Frame /\ Staged(d) /\ d.parent = c.parent
  /\ c.stage = "wait" => d.stage = "wait"

(* A step in which every call goes on so keeps Typed.                      *)
LEMMA KeepsTyped ==
  ASSUME Setting, Typed,
         routeState' \in [Node -> RouteState],
         frame' \in [FrameId -> Frame \cup {Idle}],
         DOMAIN check' = FrameId,
         \A g \in FrameId : \/ ~Active(g) /\ ~Active(g)'
                            \/ Active(g) /\ Alike(frame[g], frame'[g]),
         \A g \in FrameId : check'[g] # Idle => At(g, "authorize")'
  PROVE  Typed'
<1>1. Framed' BY DEF Framed, Active, Alike
<1>2. ASSUME NEW f \in FrameId, NEW p \in FrameId, Child(f, p)'
      PROVE  p # f /\ At(p, "wait")' /\ \A g \in FrameId : Child(g, p)' => g = f
  <2>1. \A g \in FrameId : Child(g, p)' => Child(g, p) BY DEF Child, Active, Alike
  <2>2. p # f /\ At(p, "wait") /\ \A g \in FrameId : Child(g, p) => g = f
    BY <1>2, <2>1 DEF Typed, Waited
  <2>3. At(p, "wait")' BY <2>2, FrameIsActive DEF At, Active, Alike
  <2> QED BY <2>1, <2>2, <2>3
<1> QED BY <1>1, <1>2 DEF Typed, Waited, Checked

(* One call moves, and the others stay.                                    *)
LEMMA MoveTyped ==
  ASSUME Setting, Typed, NEW f \in FrameId, Active(f), frame[f].stage \notin {"wait", "authorize"},
         NEW d \in Frame, Staged(d), d.parent = frame[f].parent,
         frame' = [frame EXCEPT ![f] = d],
         routeState' = routeState, check' = check
  PROVE  Typed'
<1>1. frame' \in [FrameId -> Frame \cup {Idle}] BY DEF Typed
<1>2. frame'[f] = d /\ \A g \in FrameId \ {f} : frame'[g] = frame[g] BY DEF Typed
<1>3. ASSUME NEW g \in FrameId
      PROVE  \/ ~Active(g) /\ ~Active(g)'
             \/ Active(g) /\ Alike(frame[g], frame'[g])
  BY <1>2, ActiveFrame DEF Active, Alike
<1>4. ASSUME NEW g \in FrameId, check'[g] # Idle PROVE At(g, "authorize")'
  <2>1. At(g, "authorize") /\ g # f BY <1>4 DEF Typed, Checked, At
  <2> QED BY <1>2, <2>1 DEF At, Active
<1> QED BY <1>1, <1>3, <1>4, KeepsTyped DEF Typed

(* The same call, but that it may be barred no more.                       *)
Lifted(d, e) ==
  /\ e \in Frame /\ Same(d, [e EXCEPT !.barred = d.barred])
  /\ e.stage = d.stage /\ e.phase = d.phase /\ e.snap = d.snap /\ e.answer = d.answer
  /\ e.left = d.left /\ e.defied = d.defied
  /\ e.barred => d.barred

(* Lifting the bar changes nothing else.                                   *)
LEMMA LiftedIs ==
  ASSUME NEW d \in Frame, NEW b \in BOOLEAN, b => d.barred
  PROVE  Lifted(d, [d EXCEPT !.barred = b])
BY DEF Lifted, Same, Frame

(* What a call whose bar may be lifted keeps.                              *)
LEMMA LiftedSame ==
  ASSUME NEW d \in Frame, NEW e, Lifted(d, e)
  PROVE  /\ e \in Frame
         /\ e.node = d.node /\ e.from = d.from /\ e.origin = d.origin /\ e.auth = d.auth
         /\ e.req = d.req /\ e.parent = d.parent /\ e.trail = d.trail /\ e.to = d.to
         /\ e.proxied = d.proxied
         /\ e.stage = d.stage /\ e.phase = d.phase /\ e.snap = d.snap /\ e.answer = d.answer
         /\ e.left = d.left /\ e.defied = d.defied /\ (e.barred => d.barred)
         /\ Staged(d) => Staged(e)
<1>1. /\ e \in Frame
      /\ e.node = d.node /\ e.from = d.from /\ e.origin = d.origin /\ e.auth = d.auth
      /\ e.req = d.req /\ e.parent = d.parent /\ e.trail = d.trail /\ e.to = d.to
      /\ e.proxied = d.proxied
      /\ e.stage = d.stage /\ e.phase = d.phase /\ e.snap = d.snap /\ e.answer = d.answer
      /\ e.left = d.left /\ e.defied = d.defied /\ (e.barred => d.barred)
  BY DEF Lifted, Same, Frame
<1> QED BY <1>1 DEF Staged, Rooted, FirstLeft

(* What Save does: the record of one node, and whom its rules still bar.   *)
LEMMA SaveIs ==
  ASSUME Setting, Typed, NEW f \in FrameId, Active(f), NEW s \in RouteState,
         NEW c \in Frame, c.node = frame[f].node, Save(f, s, c)
  PROVE  /\ routeState' = [routeState EXCEPT ![c.node] = s]
         /\ routeState' \in [Node -> RouteState]
         /\ frame' \in [FrameId -> Frame \cup {Idle}]
         /\ Lifted(c, frame'[f])
         /\ \A g \in FrameId \ {f} : Active(g) => Lifted(frame[g], frame'[g])
         /\ \A g \in FrameId \ {f} : ~Active(g) => ~Active(g)'
         /\ \A g \in FrameId : Active(g)' /\ frame'[g].node = c.node /\ frame'[g].barred =>
                                 frame'[g].from \in s.denyIn
         /\ UNCHANGED <<iamVars, budget>>
<1> DEFINE n == c.node
           old(g) == IF g = f THEN c ELSE frame[g]
           lift(d) == [d EXCEPT !.barred = @ /\ d.from \in s.denyIn]
<1>1. /\ routeState' = [routeState EXCEPT ![n] = s]
      /\ frame' = [g \in FrameId |->
                     IF old(g) # Idle /\ old(g).node = n THEN lift(old(g)) ELSE old(g)]
      /\ UNCHANGED <<iamVars, budget>>
  BY DEF Save
<1>2. routeState' \in [Node -> RouteState] BY <1>1, FrameFields DEF Typed
<1>3. \A g \in FrameId : old(g) \in Frame \cup {Idle} BY DEF Typed
<1>4. ASSUME NEW d \in Frame
      PROVE  Lifted(d, lift(d)) /\ (lift(d).barred => d.from \in s.denyIn)
  <2>1. PICK b \in BOOLEAN : b = (d.barred /\ d.from \in s.denyIn) OBVIOUS
  <2>2. lift(d) = [d EXCEPT !.barred = b] BY <2>1
  <2>3. lift(d).barred = b BY <2>2 DEF Frame
  <2>4. b => d.barred BY <2>1
  <2> QED BY <2>1, <2>2, <2>3, <2>4, LiftedIs
<1>5. ASSUME NEW d \in Frame PROVE Lifted(d, d)
  BY DEF Lifted, Same, Frame
<1>6. \A g \in FrameId : frame'[g] = IF old(g) # Idle /\ old(g).node = n THEN lift(old(g)) ELSE old(g)
  BY <1>1
<1> HIDE DEF lift, old
<1>7. ASSUME NEW g \in FrameId
      PROVE  /\ old(g) # Idle => Lifted(old(g), frame'[g])
             /\ old(g) = Idle => frame'[g] = Idle
             /\ Active(g)' /\ frame'[g].node = n /\ frame'[g].barred => frame'[g].from \in s.denyIn
  <2>1. CASE old(g) = Idle BY <1>6, <2>1 DEF Active
  <2>2. CASE old(g) # Idle /\ old(g).node = n
    <3>1. old(g) \in Frame /\ frame'[g] = lift(old(g)) BY <1>3, <1>6, <2>2
    <3>2. Lifted(old(g), frame'[g]) /\ (frame'[g].barred => old(g).from \in s.denyIn) BY <1>4, <3>1
    <3> QED BY <2>2, <3>1, <3>2, LiftedSame
  <2>3. CASE old(g) # Idle /\ old(g).node # n
    <3>1. old(g) \in Frame /\ frame'[g] = old(g) BY <1>3, <1>6, <2>3
    <3> QED BY <1>5, <2>3, <3>1
  <2> QED BY <2>1, <2>2, <2>3
<1>8. old(f) = c /\ \A g \in FrameId \ {f} : old(g) = frame[g] BY DEF old
<1>9. \A g \in FrameId : frame'[g] \in Frame \cup {Idle}
  BY <1>3, <1>7 DEF Lifted
<1>10. frame' \in [FrameId -> Frame \cup {Idle}] BY <1>1, <1>9
<1> QED BY <1>1, <1>2, <1>7, <1>8, <1>10, FrameIsActive DEF Active

(* Save keeps Typed.                                                       *)
LEMMA SaveTyped ==
  ASSUME Setting, Typed, NEW f \in FrameId, Active(f), NEW s \in RouteState,
         NEW c \in Frame, c.node = frame[f].node, Save(f, s, c),
         Alike(frame[f], c), frame[f].stage = "authorize" => c.stage = "authorize"
  PROVE  Typed'
<1>1. /\ routeState' \in [Node -> RouteState]
      /\ frame' \in [FrameId -> Frame \cup {Idle}]
      /\ Lifted(c, frame'[f])
      /\ \A g \in FrameId \ {f} : Active(g) => Lifted(frame[g], frame'[g])
      /\ \A g \in FrameId \ {f} : ~Active(g) => ~Active(g)'
      /\ UNCHANGED iamVars
  BY SaveIs
<1>2. ASSUME NEW g \in FrameId, Active(g) PROVE Alike(frame[g], frame'[g])
  BY <1>1, <1>2, ActiveFrame, LiftedSame DEF Alike
<1>3. ASSUME NEW g \in FrameId, check'[g] # Idle PROVE At(g, "authorize")'
  <2>1. At(g, "authorize") BY <1>1, <1>3 DEF Typed, Checked, iamVars
  <2>2. frame'[g] \in Frame /\ frame'[g].stage = "authorize"
    BY <1>1, <2>1, ActiveFrame, LiftedSame DEF At
  <2> QED BY <2>2, FrameIsActive DEF At, Active
<1>4. DOMAIN check' = FrameId BY <1>1 DEF Typed, iamVars
<1> QED BY <1>1, <1>2, <1>3, <1>4, KeepsTyped

-----------------------------------------------------------------------------
(* A call that has just come in.                                           *)
Incoming(d, n, from, origin, auth, r, parent, trail) ==
  /\ d \in Frame /\ d.node = n /\ d.from = from /\ d.origin = origin /\ d.auth = auth
  /\ d.req = r /\ d.parent = parent /\ d.trail = Append(trail, n)
  /\ d.to = NoNode /\ ~d.proxied /\ ~d.defied
  /\ d.barred = (from \in routeState[n].denyIn)

(* A new call is one that has just come in.                                *)
LEMMA CallIs ==
  ASSUME Setting, NEW n \in Node, NEW from \in Ends, NEW origin \in Node,
         NEW auth \in Auth, NEW r \in Req, NEW parent \in FrameId \cup {Idle},
         NEW trail \in Seq(Node)
  PROVE  LET d == Call(n, from, origin, auth, r, parent, trail) IN
         /\ Incoming(d, n, from, origin, auth, r, parent, trail)
         /\ d.snap = Idle /\ d.answer = Idle
<1>1. Append(trail, n) \in Seq(Node) OBVIOUS
<1> DEFINE t == Append(trail, n)
           b == from \in routeState[n].denyIn
           d == Call(n, from, origin, auth, r, parent, trail)
<1>2. d = [node |-> n, from |-> from, origin |-> origin, auth |-> auth, req |-> r,
           parent |-> parent, trail |-> t, stage |-> "dispatch", phase |-> "load",
           snap |-> Idle, to |-> NoNode, proxied |-> FALSE, answer |-> Idle, left |-> {},
           barred |-> b, defied |-> FALSE]
  BY DEF Call
<1>3. t \in Seq(Node) /\ b \in BOOLEAN /\ "dispatch" \in Stage BY <1>1, Stages
<1>4. d.trail = t /\ d.barred = b BY <1>2
<1>5. /\ d \in Frame /\ d.node = n /\ d.from = from /\ d.origin = origin /\ d.auth = auth
      /\ d.req = r /\ d.parent = parent
      /\ d.to = NoNode /\ ~d.proxied /\ ~d.defied /\ d.snap = Idle /\ d.answer = Idle
  <2> HIDE DEF t, b
  <2> QED BY <1>2, <1>3 DEF Frame, Ends
<1> QED BY <1>4, <1>5 DEF Incoming

(* So is one that dispatch has sent on, to note its caller.                *)
LEMMA CalledIs ==
  ASSUME Setting, NEW n \in Node, NEW from \in Node, from # n, NEW origin \in Node,
         NEW auth \in Auth, NEW r \in Req, NEW parent \in FrameId,
         NEW trail \in Seq(Node)
  PROVE  LET d == dispatch(Call(n, from, origin, auth, r, parent, trail)) IN
         /\ Incoming(d, n, from, origin, auth, r, parent, trail)
         /\ Staged(d) /\ d.stage = "inbound" /\ d.snap = Idle /\ d.phase = "load"
<1> DEFINE c == Call(n, from, origin, auth, r, parent, trail)
<1>1. Incoming(c, n, from, origin, auth, r, parent, trail) BY CallIs DEF Ends
<1> HIDE DEF c
<1>2. c \in Frame /\ Fresh(c) BY <1>1 DEF Incoming, Rooted, Fresh
<1>3. Flow(c, dispatch(c)) BY <1>2, DispatchFlow
<1>4. c.from \notin {NoNode, c.node} BY <1>1 DEF Incoming, Setting
<1>5. dispatch(c).stage = "inbound" /\ dispatch(c).defied = c.defied BY <1>2, <1>4, DispatchFlow
<1>6. Incoming(dispatch(c), n, from, origin, auth, r, parent, trail)
  BY <1>1, <1>3, <1>5 DEF Incoming, Flow, Same
<1> QED BY <1>3, <1>5, <1>6 DEF c, Flow

(* The call c, waiting for the answer of m.                                *)
Waiting(c, w, m) ==
  /\ w \in Frame /\ Staged(w)
  /\ w.node = c.node /\ w.from = c.from /\ w.req = c.req /\ w.parent = c.parent
  /\ w.trail = c.trail /\ w.proxied = c.proxied /\ w.barred = c.barred /\ w.defied = c.defied
  /\ w.stage = "wait" /\ w.to = m /\ w.snap = Idle /\ w.phase = "load"

(* The call f, as b, calls node m for r: the call w waits, and d has come  *)
(* in.                                                                     *)
CallMade(f, g, c, w, d, m, r) ==
  /\ ~Active(g) /\ frame' = [frame EXCEPT ![f] = w, ![g] = d]
  /\ Waiting(c, w, m)
  /\ Incoming(d, m, c.node, c.origin, c.auth, r, f, c.trail)
  /\ Staged(d) /\ d.stage = "inbound" /\ d.snap = Idle

(* The call c is about to call node m.                                     *)
Calling(c, d, m) ==
  /\ d \in Frame /\ Staged(d)
  /\ d.node = c.node /\ d.from = c.from /\ d.req = c.req /\ d.parent = c.parent
  /\ d.origin = c.origin /\ d.auth = c.auth
  /\ d.trail = c.trail /\ d.proxied = c.proxied /\ d.barred = c.barred /\ d.defied = c.defied
  /\ d.stage = "call" /\ d.to = m /\ d.snap = Idle /\ d.phase = "load"

(* A node that is to call another goes to that stage.                      *)
LEMMA CallPeerIs ==
  ASSUME Setting, NEW c \in Frame, Rooted(c), c.req.method \in {"exec", "learn"}, NEW m \in Node
  PROVE  Calling(c, CallPeer(c, m), m)
<1> DEFINE e == To(c, "call")
           d == CallPeer(c, m)
<1>1. /\ e \in Frame
      /\ e.stage = "call" /\ e.phase = "load" /\ e.snap = Idle
      /\ e.node = c.node /\ e.from = c.from /\ e.origin = c.origin /\ e.auth = c.auth
      /\ e.req = c.req /\ e.parent = c.parent
      /\ e.trail = c.trail /\ e.proxied = c.proxied
      /\ e.barred = c.barred /\ e.defied = c.defied
  <2>1. "call" \in Stage BY Stages DEF Reading
  <2> QED BY <2>1, ToFrame
<1>2. d = [e EXCEPT !.to = m] BY DEF CallPeer
<1> HIDE DEF e, d
<1>3. m \in Ends BY DEF Ends
<1>4. /\ d \in Frame /\ d.to = m
      /\ d.stage = "call" /\ d.phase = "load" /\ d.snap = Idle
      /\ d.node = c.node /\ d.from = c.from /\ d.origin = c.origin /\ d.auth = c.auth
      /\ d.req = c.req /\ d.parent = c.parent
      /\ d.trail = c.trail /\ d.proxied = c.proxied
      /\ d.barred = c.barred /\ d.defied = c.defied
  BY <1>1, <1>2, <1>3 DEF Frame
<1>5. Staged(d) BY <1>4 DEF Staged, Rooted
<1> QED BY <1>4, <1>5 DEF Calling, d

(* What is asked of another node is a request.                             *)
LEMMA OutgoingIs ==
  ASSUME Setting, NEW c \in Frame, Rooted(c), c.req.method \in {"exec", "learn"}
  PROVE  /\ Outgoing(c) \in Req
         /\ c.req.method = "learn" => Outgoing(c) = [method |-> "peers"]
         /\ c.proxied => Outgoing(c) = Exec(c.req.dst, 1, Append(c.req.path, c.node), c.req.inner)
         /\ c.req.method = "exec" /\ ~c.proxied => Outgoing(c) = c.req.inner
<1>1. c.node \in Node /\ c.req \in Req BY FrameFields
<1>2. CASE c.req.method = "learn"
  <2>1. Outgoing(c) = [method |-> "peers"] /\ ~c.proxied BY <1>2 DEF Outgoing, Rooted
  <2> QED BY <1>2, <2>1 DEF Req, Asked
<1>3. CASE c.req.method = "exec" /\ c.proxied
  <2>1. Outgoing(c) = Exec(c.req.dst, 1, Append(c.req.path, c.node), c.req.inner)
    BY <1>3 DEF Outgoing
  <2>2. c.req \in Execs /\ c.req.dst \in Ends /\ c.req.path \in Seq(Node) /\ c.req.inner \in Carried
    BY <1>1, <1>3, Methods DEF Execs
  <2>3. Append(c.req.path, c.node) \in Seq(Node) BY <1>1, <2>2
  <2>4. Exec(c.req.dst, 1, Append(c.req.path, c.node), c.req.inner) \in Execs
    BY <2>2, <2>3 DEF Exec, Execs
  <2> QED BY <1>3, <2>1, <2>4 DEF Req
<1>4. CASE c.req.method = "exec" /\ ~c.proxied
  <2>1. Outgoing(c) = c.req.inner BY <1>4 DEF Outgoing
  <2>2. c.req.inner \in Req BY <1>1, <1>4, Methods DEF Execs, Setting
  <2> QED BY <1>4, <2>1, <2>2
<1> QED BY <1>2, <1>3, <1>4

(* A node that calls another either fails or waits.                        *)
LEMMA CalledOut ==
  ASSUME Setting, Typed, NEW f \in FrameId, callDetailed(f)
  PROVE  LET c == frame[f] IN
         /\ Active(f) /\ c \in Frame /\ Staged(c) /\ Rooted(c)
         /\ c.stage = "call" /\ c.to \in Node /\ c.req.method \in {"exec", "learn"}
         /\ OnlyFrames
         /\ \/ Moves(f, Answered(c, Error))
            \/ \E g \in FrameId, w, d \in Frame : CallMade(f, g, c, w, d, c.to, Outgoing(c))
<1> DEFINE c == frame[f]
           m == c.to
           r == Outgoing(c)
<1>0. Active(f) /\ c.stage = "call" /\ OnlyFrames BY DEF callDetailed, At
<1>1. /\ c \in Frame /\ Staged(c) /\ Rooted(c)
      /\ m \in Node /\ c.req.method \in {"exec", "learn"} /\ r \in Req
  <2>1. c \in Frame /\ Staged(c) /\ Rooted(c) BY <1>0, ActiveFrame
  <2>2. m \in Node /\ c.req.method \in {"exec", "learn"} BY <1>0, <2>1 DEF Staged
  <2> QED BY <2>1, <2>2, OutgoingIs
<1>2. \/ Moves(f, Answered(c, Error))
      \/ /\ CanCall(c.node, m)
         /\ \E g \in FrameId :
              /\ ~Active(g)
              /\ frame' = [frame EXCEPT ![f] = To(c, "wait"),
                             ![g] = dispatch(Call(m, c.node, c.origin, c.auth, r, f, c.trail))]
  BY DEF callDetailed
<1>3. CASE Moves(f, Answered(c, Error)) BY <1>0, <1>1, <1>3
<1>4. CASE /\ CanCall(c.node, m)
           /\ \E g \in FrameId :
                /\ ~Active(g)
                /\ frame' = [frame EXCEPT ![f] = To(c, "wait"),
                               ![g] = dispatch(Call(m, c.node, c.origin, c.auth, r, f, c.trail))]
  <2> DEFINE w == To(c, "wait")
             d == dispatch(Call(m, c.node, c.origin, c.auth, r, f, c.trail))
  <2>1. PICK g \in FrameId : ~Active(g) /\ frame' = [frame EXCEPT ![f] = w, ![g] = d]
    BY <1>4
  <2>2. m # c.node BY <1>1, <1>4, CallsAssumption, FrameFields DEF CanCall, OverSession
  <2>3. /\ Incoming(d, m, c.node, c.origin, c.auth, r, f, c.trail)
        /\ Staged(d) /\ d.stage = "inbound" /\ d.snap = Idle
    <3>1. c.auth \in Auth BY <1>1 DEF Frame
    <3>2. c.node \in Node /\ c.origin \in Node /\ c.trail \in Seq(Node) BY <1>1, FrameFields
    <3> HIDE DEF r, m, c
    <3> QED BY <1>1, <2>2, <3>1, <3>2, CalledIs
  <2>4. Waiting(c, w, m)
    <3>1. /\ w \in Frame
          /\ w.stage = "wait" /\ w.phase = "load" /\ w.snap = Idle
          /\ w.node = c.node /\ w.from = c.from
          /\ w.req = c.req /\ w.parent = c.parent /\ w.to = c.to
          /\ w.trail = c.trail /\ w.proxied = c.proxied
          /\ w.barred = c.barred /\ w.defied = c.defied
      <4>1. c \in Frame /\ "wait" \in Stage BY <1>1, Stages
      <4> HIDE DEF c, m, r
      <4> QED BY <4>1, ToFrame
    <3> HIDE DEF w
    <3>2. Staged(w) BY <1>1, <3>1 DEF Staged, Rooted
    <3> QED BY <3>1, <3>2 DEF Waiting
  <2>5. d \in Frame /\ w \in Frame BY <2>3, <2>4 DEF Incoming, Waiting
  <2> HIDE DEF w, d
  <2>6. CallMade(f, g, c, w, d, m, r) BY <2>1, <2>3, <2>4 DEF CallMade
  <2> QED BY <1>0, <1>1, <2>5, <2>6
<1> QED BY <1>2, <1>3, <1>4

(* A call that is made keeps Typed.                                        *)
LEMMA CallTyped ==
  ASSUME Setting, Typed, NEW f \in FrameId, Active(f), frame[f].stage \notin {"wait", "authorize"},
         NEW g \in FrameId, NEW w \in Frame, NEW d \in Frame,
         ~Active(g), frame' = [frame EXCEPT ![f] = w, ![g] = d],
         Staged(w), w.stage = "wait", w.parent = frame[f].parent,
         Staged(d), d.parent = f,
         routeState' = routeState, check' = check
  PROVE  Typed'
<1>0. f # g OBVIOUS
<1>1. frame'[f] = w /\ frame'[g] = d /\ \A h \in FrameId \ {f, g} : frame'[h] = frame[h]
  BY <1>0 DEF Typed
<1>2. frame' \in [FrameId -> Frame \cup {Idle}] BY DEF Typed
<1>3. Active(f)' /\ Active(g)' BY <1>1, FrameIsActive DEF Active
<1>4. Framed' BY <1>1 DEF Typed, Framed, Active
<1>5. \A h, p \in FrameId : Child(h, p)' => Child(h, p) \/ (h = g /\ p = f)
  BY <1>1, <1>3 DEF Child, Active
<1>6. \A h \in FrameId : ~Child(h, f) BY DEF Typed, Waited, At
<1>7. ASSUME NEW h \in FrameId, NEW p \in FrameId, Child(h, p)'
      PROVE  p # h /\ At(p, "wait")' /\ \A k \in FrameId : Child(k, p)' => k = h
  <2>1. CASE Child(h, p)
    <3>1. p # f BY <1>6, <2>1
    <3>2. p # h /\ At(p, "wait") /\ \A k \in FrameId : Child(k, p) => k = h BY <2>1 DEF Typed, Waited
    <3>3. p # g BY <3>2 DEF At
    <3>4. At(p, "wait")' BY <1>1, <3>1, <3>2, <3>3 DEF At, Active
    <3> QED BY <1>5, <3>1, <3>2, <3>4
  <2>2. CASE h = g /\ p = f
    <3>1. At(p, "wait")' BY <1>1, <1>3, <2>2 DEF At
    <3> QED BY <1>0, <1>5, <1>6, <2>2, <3>1
  <2> QED BY <1>5, <1>7, <2>1, <2>2
<1>8. Checked'
  <2> SUFFICES ASSUME NEW h \in FrameId, check'[h] # Idle PROVE At(h, "authorize")'
    BY DEF Checked
  <2>1. At(h, "authorize") /\ h \notin {f, g} BY DEF Typed, Checked, At
  <2> QED BY <1>1, <2>1 DEF At, Active
<1> QED BY <1>2, <1>4, <1>7, <1>8 DEF Typed, Waited

(* A call ends, or its caller stops to wait for it: the caller goes on,    *)
(* and Typed is kept.                                                      *)
LEMMA ReleaseTyped ==
  ASSUME Setting, Typed, NEW f \in FrameId, NEW p \in FrameId, Child(f, p),
         NEW a \in Frame \cup {Idle}, NEW d \in Frame,
         a # Idle => Staged(a) /\ a.parent = Idle /\ a.stage = frame[f].stage,
         a = Idle => frame[f].stage \notin {"wait", "authorize"},
         Staged(d), d.parent = frame[p].parent,
         frame' = [frame EXCEPT ![f] = a, ![p] = d],
         routeState' = routeState, check' = check
  PROVE  Typed'
<1>0. p # f BY DEF Typed, Waited
<1>1. frame'[f] = a /\ frame'[p] = d /\ \A h \in FrameId \ {f, p} : frame'[h] = frame[h]
  BY <1>0 DEF Typed
<1>2. frame' \in [FrameId -> Frame \cup {Idle}] BY DEF Typed
<1>3. At(p, "wait") /\ \A k \in FrameId : Child(k, p) => k = f BY DEF Typed, Waited
<1>4. Framed' BY <1>1 DEF Typed, Framed, Active
<1>i. Idle \notin FrameId BY DEF Setting
<1>5. \A h, q \in FrameId : Child(h, q)' => Child(h, q) /\ h # f
  BY <1>1, <1>3, <1>i, FrameIsActive DEF Child, Active, At
<1>6. ASSUME NEW h \in FrameId, NEW q \in FrameId, Child(h, q)'
      PROVE  q # h /\ At(q, "wait")' /\ \A k \in FrameId : Child(k, q)' => k = h
  <2>1. Child(h, q) /\ h # f BY <1>5, <1>6
  <2>2. q # p BY <1>3, <2>1
  <2>3. q # h /\ At(q, "wait") /\ \A k \in FrameId : Child(k, q) => k = h BY <2>1 DEF Typed, Waited
  <2>4. At(q, "wait")'
    <3>1. CASE q # f BY <1>1, <2>2, <2>3, <3>1 DEF At, Active
    <3>2. CASE q = f
      <4>1. a # Idle BY <2>3, <3>2 DEF At
      <4> QED BY <1>1, <2>3, <3>2, <4>1 DEF At, Active
    <3> QED BY <3>1, <3>2
  <2> QED BY <1>5, <2>3, <2>4
<1>7. Checked'
  <2> SUFFICES ASSUME NEW h \in FrameId, check'[h] # Idle PROVE At(h, "authorize")'
    BY DEF Checked
  <2>1. At(h, "authorize") /\ h # p BY <1>3 DEF Typed, Checked, At
  <2>2. h = f => a # Idle BY <2>1 DEF At
  <2> QED BY <1>1, <2>1, <2>2 DEF At, Active
<1> QED BY <1>2, <1>4, <1>6, <1>7 DEF Typed, Waited

-----------------------------------------------------------------------------
(* What a stage works with is a route state.                               *)
LEMMA LoadedIs ==
  ASSUME Setting, Typed, NEW f \in FrameId, Active(f), frame[f].phase \in {"load", "use"}
  PROVE  Loaded(f) \in RouteState
<1>1. frame[f] \in Frame /\ Staged(frame[f]) BY ActiveFrame
<1>2. frame[f].phase = "use" => frame[f].snap \in RouteState BY <1>1 DEF Staged
<1>3. routeState[frame[f].node] \in RouteState BY <1>1, FrameFields DEF Typed
<1> QED BY <1>2, <1>3 DEF Loaded

(* Reading the record changes what was read, and nothing else of the       *)
(* call.                                                                   *)
Loads(c, d, phase, s) == d = [c EXCEPT !.phase = phase, !.snap = s]

LEMMA LoadIs ==
  ASSUME Setting, Typed, NEW f \in FrameId, Active(f),
         NEW phase \in {"use", "prune"}, NEW s \in RouteState,
         NEW d, Loads(frame[f], d, phase, s)
  PROVE  /\ d \in Frame /\ Staged(d) /\ Same(frame[f], d)
         /\ d.stage = frame[f].stage /\ d.phase = phase /\ d.snap = s
         /\ d.answer = frame[f].answer /\ d.defied = frame[f].defied /\ d.left = frame[f].left
<1> DEFINE c == frame[f]
<1>1. c \in Frame /\ Staged(c) /\ d = [c EXCEPT !.phase = phase, !.snap = s]
  BY ActiveFrame DEF Loads
<1> HIDE DEF c
<1>2. /\ d \in Frame /\ Same(c, d)
      /\ d.stage = c.stage /\ d.phase = phase /\ d.snap = s
      /\ d.answer = c.answer /\ d.defied = c.defied /\ d.left = c.left
  BY <1>1 DEF Frame, Same
<1>3. Staged(d) BY <1>1, <1>2 DEF Staged, Rooted, Same, FirstLeft
<1> QED BY <1>2, <1>3 DEF c

(* LoadRouteState keeps Typed.                                             *)
LEMMA LoadTyped ==
  ASSUME Setting, Typed, NEW f \in FrameId, LoadRouteState(f)
  PROVE  Typed'
<1>1. Active(f) /\ frame[f].stage \in Writing /\ frame[f].phase = "load"
  BY DEF LoadRouteState, InOrder
<1> DEFINE d == [frame[f] EXCEPT !.phase = "use", !.snap = Loaded(f)]
<1>d. Loads(frame[f], d, "use", Loaded(f)) BY DEF Loads
<1>2. Loaded(f) \in RouteState BY <1>1, LoadedIs
<1>3. frame' = [frame EXCEPT ![f] = d] /\ routeState' = routeState /\ check' = check
  BY DEF LoadRouteState, Moves, OnlyFrames, iamVars
<1> HIDE DEF d
<1>4. d \in Frame /\ Staged(d) /\ Same(frame[f], d) /\ d.stage = frame[f].stage
  BY <1>1, <1>2, <1>d, LoadIs
<1>5. frame[f].stage \notin {"wait", "authorize"} BY <1>1 DEF Writing
<1> QED BY <1>1, <1>4, <1>3, <1>5, MoveTyped DEF Same

(* Correcting and dropping peers keeps the rules, and ViaElse.             *)
LEMMA PrunedIs ==
  ASSUME NEW s \in RouteState, NEW gone \in SUBSET Node, NEW stale \in SUBSET Node,
         \A m \in stale : Known(s, m)
  PROVE  LET t == Pruned(s, gone, stale) IN
         /\ t \in RouteState /\ t.denyIn = s.denyIn /\ (ViaElse(s) => ViaElse(t))
<1> DEFINE q(m) == [s.peers[m] EXCEPT !.connected = FALSE]
           p == [m \in Node |-> IF m \in gone THEN NoPeer
                                ELSE IF m \in stale THEN q(m) ELSE s.peers[m]]
           t == [s EXCEPT !.peers = p]
<1>0. Pruned(s, gone, stale) = t BY DEF Pruned
<1>1. ASSUME NEW m \in Node
      PROVE  /\ p[m] \in Peer \cup {NoPeer}
             /\ p[m] # NoPeer => s.peers[m] # NoPeer /\ p[m].via = s.peers[m].via
  <2>1. s.peers[m] \in Peer \cup {NoPeer} BY RouteFields
  <2>2. m \in stale => q(m) \in Peer /\ q(m).via = s.peers[m].via /\ s.peers[m] # NoPeer
    BY <2>1 DEF Peer, Known
  <2>3. p[m] = IF m \in gone THEN NoPeer ELSE IF m \in stale THEN q(m) ELSE s.peers[m]
    OBVIOUS
  <2> HIDE DEF p, q
  <2> QED BY <2>1, <2>2, <2>3
<1>2. p \in [Node -> Peer \cup {NoPeer}]
  <2>1. p = [m \in Node |-> p[m]] OBVIOUS
  <2> HIDE DEF p
  <2> QED BY <1>1, <2>1
<1> HIDE DEF p
<1>3. t \in RouteState /\ t.denyIn = s.denyIn /\ t.peers = p BY <1>2 DEF RouteState
<1>4. ViaElse(s) => ViaElse(t) BY <1>1, <1>3 DEF ViaElse, Known
<1> QED BY <1>0, <1>3, <1>4

(* What FindExpired does.                                                  *)
LEMMA FindIs ==
  ASSUME Setting, Typed, NEW f \in FrameId, FindExpired(f)
  PROVE  /\ Active(f) /\ frame[f].stage \in Reading /\ frame[f].phase = "load"
         /\ \E s \in RouteState :
              /\ s.denyIn = routeState[frame[f].node].denyIn
              /\ ViaElse(routeState[frame[f].node]) => ViaElse(s)
              /\ frame' = [frame EXCEPT ![f] = [frame[f] EXCEPT !.phase = "prune", !.snap = s]]
         /\ UNCHANGED <<iamVars, routeState>>
<1>1. Active(f) /\ frame[f].stage \in Reading /\ frame[f].phase = "load" BY DEF FindExpired
<1>2. Loaded(f) = routeState[frame[f].node] BY <1>1 DEF Loaded
<1>3. Loaded(f) \in RouteState BY <1>1, LoadedIs
<1>4. PICK gone \in SUBSET Expirable(frame[f].node) :
        Moves(f, [frame[f] EXCEPT !.phase = "prune",
                    !.snap = Pruned(Loaded(f), gone, Stale(frame[f].node))])
  BY DEF FindExpired
<1>5. /\ gone \in SUBSET Node /\ Stale(frame[f].node) \in SUBSET Node
      /\ \A m \in Stale(frame[f].node) : Known(Loaded(f), m)
  BY <1>2, <1>4 DEF Expirable, Stale
<1> DEFINE s == Pruned(Loaded(f), gone, Stale(frame[f].node))
<1>6. s \in RouteState /\ s.denyIn = Loaded(f).denyIn /\ (ViaElse(Loaded(f)) => ViaElse(s))
  BY <1>3, <1>5, PrunedIs
<1>7. frame' = [frame EXCEPT ![f] = [frame[f] EXCEPT !.phase = "prune", !.snap = s]]
  BY <1>4 DEF Moves
<1>8. UNCHANGED <<iamVars, routeState>> BY DEF FindExpired
<1> HIDE DEF s
<1> QED BY <1>1, <1>2, <1>6, <1>7, <1>8

(* FindExpired keeps Typed.                                                *)
LEMMA FindTyped ==
  ASSUME Setting, Typed, NEW f \in FrameId, FindExpired(f)
  PROVE  Typed'
<1>0. frame[f].stage \in Reading => frame[f].stage \notin {"wait", "authorize"} BY DEF Reading, Writing
<1>1. /\ Active(f) /\ frame[f].stage \notin {"wait", "authorize"}
      /\ UNCHANGED <<iamVars, routeState>>
  BY <1>0, FindIs
<1>2. PICK s \in RouteState :
        frame' = [frame EXCEPT ![f] = [frame[f] EXCEPT !.phase = "prune", !.snap = s]]
  BY FindIs
<1> DEFINE d == [frame[f] EXCEPT !.phase = "prune", !.snap = s]
<1>d. Loads(frame[f], d, "prune", s) BY DEF Loads
<1>3. frame' = [frame EXCEPT ![f] = d] BY <1>2
<1> HIDE DEF d
<1>4. d \in Frame /\ Staged(d) /\ Same(frame[f], d)
  BY <1>1, <1>d, LoadIs
<1> QED BY <1>1, <1>4, <1>3, MoveTyped DEF Same, iamVars

(* What SavePruned does.                                                   *)
LEMMA PruneIs ==
  ASSUME Setting, Typed, NEW f \in FrameId, SavePruned(f)
  PROVE  LET c == frame[f]
             d == [c EXCEPT !.phase = "use"]
         IN /\ Active(f) /\ c.phase = "prune" /\ c.snap \in RouteState
            /\ Save(f, c.snap, d)
            /\ d \in Frame /\ Staged(d) /\ Same(c, d) /\ d.stage = c.stage
            /\ d.phase = "use" /\ d.snap = c.snap /\ d.answer = c.answer /\ d.defied = c.defied
            /\ d.left = c.left
<1> DEFINE c == frame[f]
           d == [c EXCEPT !.phase = "use"]
<1>1. Active(f) /\ c.phase = "prune" /\ Save(f, c.snap, d) BY DEF SavePruned
<1>2. c \in Frame /\ Staged(c) BY <1>1, ActiveFrame
<1>3. c.snap \in RouteState BY <1>1, <1>2 DEF Staged
<1> HIDE DEF c
<1>4. /\ d \in Frame /\ Same(c, d) /\ d.stage = c.stage
      /\ d.phase = "use" /\ d.snap = c.snap /\ d.answer = c.answer /\ d.defied = c.defied
      /\ d.left = c.left
  BY <1>2 DEF Frame, Same
<1> HIDE DEF d
<1>5. Staged(d) BY <1>2, <1>3, <1>4 DEF Staged, Rooted, Same, FirstLeft
<1> QED BY <1>1, <1>3, <1>4, <1>5 DEF c, d

(* SavePruned keeps Typed.                                                 *)
LEMMA PruneTyped ==
  ASSUME Setting, Typed, NEW f \in FrameId, SavePruned(f)
  PROVE  Typed'
<1> DEFINE d == [frame[f] EXCEPT !.phase = "use"]
<1>1. /\ Active(f) /\ frame[f].snap \in RouteState
      /\ Save(f, frame[f].snap, d)
      /\ d \in Frame /\ Staged(d) /\ Same(frame[f], d) /\ d.stage = frame[f].stage
  BY PruneIs
<1> HIDE DEF d
<1> QED BY <1>1, SaveTyped DEF Alike, Same

(* SaveRouteState keeps Typed.                                             *)
LEMMA SaveRouteTyped ==
  ASSUME Setting, Typed, NEW f \in FrameId, SaveRouteState(f)
  PROVE  Typed'
<1> DEFINE c == frame[f]
<1>1. Active(f) /\ c.stage \in Writing /\ c.phase = "use" /\ Save(f, Mutated(c), After(c))
  BY DEF SaveRouteState
<1>2. c \in Frame /\ Staged(c) BY <1>1, ActiveFrame
<1>3. c.snap \in RouteState BY <1>1, <1>2 DEF Staged
<1>4. Mutated(c) \in RouteState BY <1>1, <1>2, <1>3, MutatedIs
<1>5. Flow(c, After(c)) BY <1>1, <1>2, AfterFlow
<1>6. c.stage \notin {"wait", "authorize"} BY <1>1 DEF Writing
<1> QED BY <1>1, <1>4, <1>5, <1>6, SaveTyped DEF Alike, Flow, Same

(* A call that goes on along its handler keeps Typed.                      *)
LEMMA FlowTyped ==
  ASSUME Setting, Typed, NEW f \in FrameId, Active(f), frame[f].stage \notin {"wait", "authorize"},
         NEW d, Flow(frame[f], d), Moves(f, d), OnlyFrames
  PROVE  Typed'
BY MoveTyped DEF Flow, Same, Moves, OnlyFrames, iamVars

(* The deny rules fail a call, or let it start with no rule that bars it.  *)
LEMMA EnforceIs ==
  ASSUME Setting, Typed, NEW f \in FrameId, enforceInboundRoutePolicy(f)
  PROVE  /\ At(f, "enforce") /\ OnlyFrames
         /\ \E d : /\ Moves(f, d) /\ Flow(frame[f], d)
                   /\ Starts(frame[f], d, Handled)
                   /\ \/ d.defied = frame[f].defied /\ d.stage = "answer"
                      \/ frame[f].from \notin Loaded(f).denyIn
<1> DEFINE c == frame[f]
<1>1. /\ At(f, "enforce") /\ OnlyFrames
      /\ Moves(f, IF c.from \in Loaded(f).denyIn THEN Answered(c, Error) ELSE invokeHandler(c))
  BY DEF enforceInboundRoutePolicy, Reads
<1>2. c \in Frame /\ Fresh(c) /\ Rooted(c)
  BY <1>1, ActiveFrame DEF At, Fresh, Staged
<1>3. CASE c.from \in Loaded(f).denyIn
  <2>1. Moves(f, Answered(c, Error)) BY <1>1, <1>3
  <2> QED BY <1>1, <1>2, <2>1, FailsFlow DEF Starts
<1>4. CASE c.from \notin Loaded(f).denyIn
  <2>1. Moves(f, invokeHandler(c)) BY <1>1, <1>4
  <2> QED BY <1>1, <1>2, <1>4, <2>1, InvokeFlow
<1> QED BY <1>3, <1>4

(* listPeerSummaries answers for the way the call has come.                *)
LEMMA PeersIs ==
  ASSUME Setting, Typed, NEW f \in FrameId, listPeerSummaries(f)
  PROVE  /\ At(f, "peers") /\ OnlyFrames
         /\ \E a \in Answer : a.trail = frame[f].trail /\ Moves(f, Answered(frame[f], a))
<1>1. At(f, "peers") /\ OnlyFrames BY DEF listPeerSummaries, Reads
<1> DEFINE known == {m \in Node : Known(Loaded(f), m)}
           a == Ok(<<>>, known, frame[f].trail)
<1>2. Moves(f, Answered(frame[f], a)) BY DEF listPeerSummaries
<1>3. a \in Answer /\ a.trail = frame[f].trail
  <2> DEFINE empty == <<>>
  <2>1. empty \in Seq(Node) /\ known \in SUBSET Node OBVIOUS
  <2>2. frame[f].trail \in Seq(Node) BY <1>1, ActiveFrame, FrameFields DEF At
  <2>3. a = Ok(empty, known, frame[f].trail) OBVIOUS
  <2> HIDE DEF empty, known, a
  <2> QED BY <2>1, <2>2, <2>3, OkIs
<1> HIDE DEF a
<1> QED BY <1>1, <1>2, <1>3

(* LearnNext leaves a peer, writes it, or answers.                         *)
LEMMA NextIs ==
  ASSUME Setting, Typed, NEW f \in FrameId, LearnNext(f)
  PROVE  /\ At(f, "peek") /\ OnlyFrames
         /\ \E d : /\ Moves(f, d) /\ Flow(frame[f], d) /\ d.defied = frame[f].defied
                   /\ d.stage \in {"peek", "learnt", "answer"}
<1> DEFINE c == frame[f]
           m == FirstLeft(c)
           known == \/ m \in {c.node, c.to}
                    \/ Loaded(f).peers[m] # NoPeer /\ Loaded(f).peers[m].connected
                    \/ /\ Loaded(f).peers[m] # NoPeer /\ ~Loaded(f).peers[m].suggested
                       /\ (Loaded(f).peers[m].addr \/ Loaded(f).peers[m].via # NoNode)
           less == [c EXCEPT !.left = @ \ {m}]
<1>1. At(f, "peek") /\ OnlyFrames BY DEF LearnNext, Reads
<1>2. c \in Frame /\ Staged(c) /\ Rooted(c) BY <1>1, ActiveFrame DEF At
<1>3. Moves(f, IF c.left = {} THEN Answered(c, Ok(<<>>, {}, c.trail))
               ELSE IF known THEN To(less, "peek") ELSE To(c, "learnt"))
  BY DEF LearnNext, FirstLeft
<1>4. c.req.method = "learn" /\ c.to \in Node BY <1>1, <1>2 DEF At, Staged
<1>5. {"peek", "learnt"} \subseteq Stage BY Stages DEF Reading, Writing
<1>6. CASE c.left = {}
  <2> DEFINE a == Ok(<<>>, {}, c.trail)
  <2>1. Moves(f, Answered(c, a)) BY <1>3, <1>6
  <2>2. a \in Answer
    <3> DEFINE empty == <<>>  none == {}
    <3>1. empty \in Seq(Node) /\ none \in SUBSET Node OBVIOUS
    <3>2. c.trail \in Seq(Node) BY <1>2, FrameFields
    <3>3. a = Ok(empty, none, c.trail) OBVIOUS
    <3> HIDE DEF empty, none, a, c
    <3> QED BY <3>1, <3>2, <3>3, OkIs
  <2> HIDE DEF a
  <2> QED BY <1>1, <1>2, <2>1, <2>2, AnsweredFlow
<1>7. CASE c.left # {} /\ known
  <2>1. Moves(f, To(less, "peek")) BY <1>3, <1>7
  <2>2. less \in Frame /\ Same(c, less) /\ less.defied = c.defied BY <1>2 DEF Frame, Same
  <2> HIDE DEF less, c, known
  <2> DEFINE d == To(less, "peek")
  <2>3. /\ d \in Frame /\ Same(c, d) /\ d.stage = "peek" /\ d.phase = "load"
        /\ d.snap = Idle /\ d.defied = c.defied
    BY <1>5, <2>2, ToFrame DEF Same
  <2> HIDE DEF d
  <2>4. Staged(d) BY <1>2, <1>4, <2>3 DEF Staged, Rooted, Same
  <2> QED BY <1>1, <2>1, <2>3, <2>4 DEF Flow, d, c
<1>8. CASE c.left # {} /\ ~known
  <2>1. Moves(f, To(c, "learnt")) BY <1>3, <1>8
  <2>2. m \notin {c.node, c.to} BY <1>8
  <2> HIDE DEF less, c, known
  <2> DEFINE d == To(c, "learnt")
  <2>3. /\ d \in Frame /\ Same(c, d) /\ d.stage = "learnt" /\ d.phase = "load"
        /\ d.snap = Idle /\ d.defied = c.defied /\ d.left = c.left
    BY <1>2, <1>5, ToFrame DEF Same
  <2> HIDE DEF d
  <2>4. Staged(d) BY <1>2, <1>4, <1>8, <2>2, <2>3 DEF Staged, Rooted, Same, FirstLeft
  <2> QED BY <1>1, <2>1, <2>3, <2>4 DEF Flow, d, c
<1> QED BY <1>6, <1>7, <1>8

-----------------------------------------------------------------------------
(* learn goes on to call the node it learns from, with its own authority.  *)
LEMMA LearnIs ==
  ASSUME Setting, Typed, NEW f \in FrameId, learn(f)
  PROVE  LET c == frame[f] IN
         /\ At(f, "learn") /\ OnlyFrames /\ c.req.method = "learn"
         /\ \E d \in Frame :
              /\ Staged(d) /\ d.parent = c.parent /\ d.node = c.node /\ d.trail = c.trail
              /\ d.from = c.from /\ d.req = c.req
              /\ d.defied = c.defied /\ d.barred = c.barred /\ ~d.proxied
              /\ d.stage = "call" /\ d.snap = Idle /\ d.phase = "load"
              /\ Moves(f, d)
<1> DEFINE c == frame[f]
           b == [c EXCEPT !.origin = c.node, !.auth = makeInternalAuth]
           m == c.req.peer
           d == CallPeer(b, m)
<1>1. At(f, "learn") /\ Moves(f, d) /\ OnlyFrames BY DEF learn
<1>2. Active(f) /\ c \in Frame /\ Staged(c) /\ Fresh(c) BY <1>1, ActiveFrame DEF At, Staged, Fresh
<1>3. c.req.method = "learn" BY <1>1, <1>2 DEF At, Staged
<1>4. m \in Node BY <1>2, <1>3, FrameFields, Methods
<1> HIDE DEF c, m, d
<1>6. /\ b \in Frame /\ b.parent = c.parent /\ b.node = c.node /\ b.trail = c.trail
      /\ b.req = c.req /\ b.defied = c.defied /\ b.barred = c.barred
      /\ b.proxied = c.proxied /\ b.from = c.from
  BY <1>2 DEF Frame, Auth
<1> HIDE DEF b
<1>7. Rooted(b) /\ ~b.proxied BY <1>2, <1>6 DEF Rooted, Fresh
<1>8. Calling(b, d, m) BY <1>3, <1>4, <1>6, <1>7, CallPeerIs DEF d
<1>9. /\ d \in Frame /\ Staged(d) /\ d.parent = c.parent /\ d.node = c.node
      /\ d.trail = c.trail /\ d.from = c.from /\ d.req = c.req
      /\ d.defied = c.defied /\ d.barred = c.barred /\ ~d.proxied
      /\ d.stage = "call" /\ d.snap = Idle /\ d.phase = "load"
  BY <1>6, <1>7, <1>8 DEF Calling
<1> QED BY <1>1, <1>3, <1>9 DEF c

(* learn keeps Typed.                                                      *)
LEMMA LearnTyped ==
  ASSUME Setting, Typed, NEW f \in FrameId, learn(f)
  PROVE  Typed'
<1>1. At(f, "learn") /\ OnlyFrames BY LearnIs
<1>2. Active(f) /\ frame[f].stage \notin {"wait", "authorize"} BY <1>1 DEF At
<1>3. PICK d \in Frame : Staged(d) /\ d.parent = frame[f].parent /\ Moves(f, d) BY LearnIs
<1> QED BY <1>1, <1>2, <1>3, MoveTyped DEF Moves, OnlyFrames, iamVars

(* The call of another node keeps Typed.                                   *)
LEMMA CalledTyped ==
  ASSUME Setting, Typed, NEW f \in FrameId, callDetailed(f)
  PROVE  Typed'
<1> DEFINE c == frame[f]
           m == c.to
           r == Outgoing(c)
<1>1. /\ Active(f) /\ c \in Frame /\ Rooted(c) /\ c.stage = "call" /\ OnlyFrames
      /\ \/ Moves(f, Answered(c, Error))
         \/ \E g \in FrameId, w, d \in Frame : CallMade(f, g, c, w, d, m, r)
  BY CalledOut
<1>2. frame[f].stage \notin {"wait", "authorize"} BY <1>1
<1> HIDE DEF r, m
<1>3. CASE Moves(f, Answered(c, Error))
  <2>1. LET d == Answered(c, Error) IN d \in Frame /\ Staged(d) /\ d.parent = c.parent
    BY <1>1, FailsFlow DEF Flow, Same
  <2> QED BY <1>1, <1>2, <1>3, <2>1, MoveTyped DEF Moves, OnlyFrames, iamVars
<1>4. CASE \E g \in FrameId, w, d \in Frame : CallMade(f, g, c, w, d, m, r)
  <2>1. PICK g \in FrameId, w \in Frame, d \in Frame : CallMade(f, g, c, w, d, m, r) BY <1>4
  <2>2. /\ ~Active(g) /\ frame' = [frame EXCEPT ![f] = w, ![g] = d]
        /\ Staged(w) /\ w.stage = "wait" /\ w.parent = frame[f].parent
        /\ Staged(d) /\ d.parent = f
    BY <2>1 DEF CallMade, Waiting, Incoming
  <2> QED BY <1>1, <1>2, <2>2, CallTyped DEF OnlyFrames, iamVars
<1> QED BY <1>1, <1>3, <1>4

(* The proxy for a node is another node.                                   *)
LEMMA ProxyIs ==
  ASSUME Setting, NEW s \in RouteState, NEW dst \in Node
  PROVE  /\ ProxyFor(s, dst) \in Ends
         /\ ViaElse(s) => ProxyFor(s, dst) # dst
<1>1. s.routes[dst] \in Ends BY RouteFields
<1>2. Known(s, dst) => s.peers[dst] \in Peer BY RouteFields DEF Known
<1>3. Known(s, dst) => s.peers[dst].via \in Ends BY <1>2 DEF Peer, Ends
<1> QED BY <1>1, <1>3 DEF ProxyFor, ViaElse, Ends, Setting

(* exec f runs what it carries where it is, as the call that is here.      *)
RunsInner(f, here) ==
  LET c == frame[f] IN
  /\ c.req.dst \in {NoNode, c.node}
  /\ here \in Frame /\ Fresh(here)
  /\ here.parent = c.parent /\ here.node = c.node /\ here.trail = c.trail
  /\ here.from = c.from /\ here.barred = c.barred
  /\ here.req = c.req.inner /\ here.defied = c.defied
  /\ Moves(f, invokeHandler(here))

(* exec f, with its destination dst and its proxy settled in d, goes on to *)
(* call the node d.to.                                                     *)
CallsOn(f, d, dst) ==
  LET c == frame[f] IN
  /\ d.parent = c.parent /\ d.node = c.node /\ d.trail = c.trail
  /\ d.from = c.from /\ d.origin = c.origin /\ d.auth = c.auth
  /\ d.defied = c.defied /\ d.barred = c.barred
  /\ d.req = [c.req EXCEPT !.dst = dst] /\ dst # c.node
  /\ Staged(d) /\ d.stage = "call" /\ d.snap = Idle /\ d.phase = "load"
  /\ \/ d.proxied /\ c.req.hop = 0 /\ (ViaElse(Loaded(f)) => d.to # dst)
     \/ ~d.proxied
  /\ Moves(f, d)

(* The three ways of executeRouted: here, not at all, or by a call of      *)
(* another node, which is the proxy or the destination itself.             *)
LEMMA ExecutedIs ==
  ASSUME Setting, Typed, NEW f \in FrameId, executeRouted(f)
  PROVE  /\ At(f, "route") /\ OnlyFrames /\ frame[f].req \in Execs
         /\ Loaded(f) \in RouteState
         /\ \/ RunsInner(f, [frame[f] EXCEPT !.req = frame[f].req.inner])
            \/ Moves(f, Answered(frame[f], Error))
            \/ \E d \in Frame, dst \in Node : CallsOn(f, d, dst)
<1> DEFINE c == frame[f]
           n == c.node
           s == Loaded(f)
           dst == IF c.req.dst # NoNode THEN c.req.dst ELSE s.default
           proxy == ProxyFor(s, dst)
<1>1. At(f, "route") /\ c.phase \in {"load", "use"} /\ OnlyFrames
  BY DEF executeRouted, Reads, InOrder
<1>2. Active(f) /\ c \in Frame /\ Staged(c) /\ Fresh(c) /\ Rooted(c)
  BY <1>1, ActiveFrame DEF At, Staged, Fresh
<1>3. c.req \in Execs BY <1>1, <1>2, FrameFields, Methods DEF At, Staged
<1>4. s \in RouteState BY <1>1, <1>2, LoadedIs
<1>5. /\ c.req.dst \in Ends /\ c.req.hop \in Nat /\ c.req.path \in Seq(Node)
      /\ c.req.inner \in Req /\ c.req.method = "exec"
  BY <1>3 DEF Execs, Setting
<1>6. dst \in Ends BY <1>4, <1>5, RouteFields
<1>7. \/ dst \in {NoNode, n} /\ Moves(f, invokeHandler([c EXCEPT !.req = c.req.inner]))
      \/ /\ dst \notin {NoNode, n} /\ proxy # NoNode
         /\ IF c.req.hop > 0 \/ proxy \in s.denyOut
            THEN Moves(f, Answered(c, Error))
            ELSE Moves(f, CallPeer([c EXCEPT !.proxied = TRUE, !.req.dst = dst], proxy))
      \/ /\ dst \notin {NoNode, n} /\ proxy = NoNode
         /\ IF dst \in s.denyOut /\ dst \notin Reverse[n]
            THEN Moves(f, Answered(c, Error))
            ELSE Moves(f, CallPeer([c EXCEPT !.req.dst = dst], dst))
  BY DEF executeRouted
<1>d. ASSUME NEW k \in Node PROVE [c.req EXCEPT !.dst = k] \in Execs
  BY <1>3 DEF Execs, Ends
<1>8. CASE dst \in {NoNode, n} /\ Moves(f, invokeHandler([c EXCEPT !.req = c.req.inner]))
  <2> DEFINE here == [c EXCEPT !.req = c.req.inner]
  <2>1. c.req.dst \in {NoNode, n} BY <1>8
  <2>2. Moves(f, invokeHandler(here)) BY <1>8
  <2>3. /\ here \in Frame /\ here.parent = c.parent /\ here.node = c.node /\ here.trail = c.trail
        /\ here.from = c.from /\ here.barred = c.barred /\ here.proxied = c.proxied
        /\ here.req = c.req.inner /\ here.defied = c.defied
    <3> HIDE DEF c
    <3> QED BY <1>2, <1>5 DEF Frame
  <2> HIDE DEF here
  <2>4. Fresh(here) BY <1>2, <2>3 DEF Fresh, Rooted
  <2> HIDE DEF c, n, s, dst, proxy
  <2>5. RunsInner(f, here) BY <2>1, <2>2, <2>3, <2>4 DEF RunsInner, c, n
  <2> QED BY <1>1, <1>3, <1>4, <2>5 DEF here, c, s
<1>9. CASE Moves(f, Answered(c, Error))
  <2> HIDE DEF c, n, s, dst, proxy
  <2> QED BY <1>1, <1>3, <1>4, <1>9 DEF c, s
<1>10. CASE /\ dst \notin {NoNode, n} /\ proxy # NoNode /\ ~(c.req.hop > 0 \/ proxy \in s.denyOut)
            /\ Moves(f, CallPeer([c EXCEPT !.proxied = TRUE, !.req.dst = dst], proxy))
  <2> DEFINE b == [c EXCEPT !.proxied = TRUE, !.req.dst = dst]
             d == CallPeer(b, proxy)
  <2>1. dst \in Node /\ dst # n BY <1>6, <1>10 DEF Ends
  <2>2. proxy \in Node /\ (ViaElse(s) => proxy # dst) BY <1>4, <1>10, <2>1, ProxyIs DEF Ends
  <2>3. Moves(f, d) BY <1>10
  <2>4. c.req.hop = 0 BY <1>5, <1>10
  <2> HIDE DEF s, dst, proxy, d
  <2> DEFINE q == [c.req EXCEPT !.dst = dst]
  <2>6. q \in Req /\ q.method = "exec" /\ q.dst = dst /\ q.hop = c.req.hop
    BY <1>3, <1>d, <2>1 DEF Req, Execs
  <2>7. /\ b \in Frame /\ b.parent = c.parent /\ b.node = c.node /\ b.trail = c.trail
        /\ b.from = c.from /\ b.origin = c.origin /\ b.auth = c.auth
        /\ b.defied = c.defied /\ b.barred = c.barred /\ b.req = q /\ b.proxied
    <3>1. b = [c EXCEPT !.proxied = TRUE, !.req = q] OBVIOUS
    <3> HIDE DEF b, c, q
    <3> QED BY <1>2, <2>6, <3>1 DEF Frame
  <2> HIDE DEF b
  <2>8. Rooted(b) BY <1>2, <2>1, <2>4, <2>6, <2>7 DEF Rooted
  <2>9. Calling(b, d, proxy) BY <2>2, <2>6, <2>7, <2>8, CallPeerIs DEF d
  <2> HIDE DEF c, n, q
  <2>10. d \in Frame /\ CallsOn(f, d, dst)
    BY <2>1, <2>2, <2>3, <2>4, <2>7, <2>9 DEF CallsOn, Calling, c, n, q, s
  <2> QED BY <1>1, <1>3, <1>4, <2>1, <2>10 DEF c, s
<1>11. CASE /\ dst \notin {NoNode, n} /\ Moves(f, CallPeer([c EXCEPT !.req.dst = dst], dst))
  <2> DEFINE b == [c EXCEPT !.req.dst = dst]
             d == CallPeer(b, dst)
  <2>1. dst \in Node /\ dst # n BY <1>6, <1>11 DEF Ends
  <2>3. Moves(f, d) BY <1>11
  <2> HIDE DEF s, dst, proxy, d
  <2> DEFINE q == [c.req EXCEPT !.dst = dst]
  <2>6. q \in Req /\ q.method = "exec" /\ q.dst = dst BY <1>3, <1>d, <2>1 DEF Req, Execs
  <2>7. /\ b \in Frame /\ b.parent = c.parent /\ b.node = c.node /\ b.trail = c.trail
        /\ b.from = c.from /\ b.origin = c.origin /\ b.auth = c.auth
        /\ b.defied = c.defied /\ b.barred = c.barred /\ b.req = q /\ b.proxied = c.proxied
    <3>1. b = [c EXCEPT !.req = q] OBVIOUS
    <3> HIDE DEF b, c, q
    <3> QED BY <1>2, <2>6, <3>1 DEF Frame
  <2> HIDE DEF b
  <2>8. Rooted(b) /\ ~b.proxied BY <1>2, <2>7 DEF Rooted, Fresh
  <2>9. Calling(b, d, dst) BY <2>1, <2>6, <2>7, <2>8, CallPeerIs DEF d
  <2> HIDE DEF c, n, q
  <2>10. d \in Frame /\ CallsOn(f, d, dst)
    BY <2>1, <2>3, <2>7, <2>8, <2>9 DEF CallsOn, Calling, c, n, q
  <2> QED BY <1>1, <1>3, <1>4, <2>1, <2>10 DEF c, s
<1> HIDE DEF s, dst, proxy, n, c
<1> QED BY <1>7, <1>8, <1>9, <1>10, <1>11

(* executeRouted keeps Typed.                                              *)
LEMMA ExecutedTyped ==
  ASSUME Setting, Typed, NEW f \in FrameId, executeRouted(f)
  PROVE  Typed'
<1> DEFINE c == frame[f]
           here == [c EXCEPT !.req = c.req.inner]
<1>1. At(f, "route") /\ OnlyFrames BY ExecutedIs
<1>2. Active(f) /\ c.stage \notin {"wait", "authorize"} BY <1>1 DEF At
<1>3. c \in Frame /\ Rooted(c) BY <1>2, ActiveFrame
<1>4. ASSUME NEW b \in Frame, Rooted(b), b.parent = c.parent, Moves(f, Answered(b, Error))
      PROVE  Typed'
  <2>1. LET d == Answered(b, Error) IN d \in Frame /\ Staged(d) /\ d.parent = b.parent
    BY <1>4, FailsFlow DEF Flow, Same
  <2> QED BY <1>1, <1>2, <1>4, <2>1, MoveTyped DEF Moves, OnlyFrames, iamVars
<1>5. ASSUME here \in Frame, Fresh(here), here.parent = c.parent, Moves(f, invokeHandler(here))
      PROVE  Typed'
  <2> HIDE DEF here
  <2>1. LET d == invokeHandler(here) IN d \in Frame /\ Staged(d) /\ d.parent = here.parent
    BY <1>5, InvokeFlow DEF Flow, Same
  <2> QED BY <1>1, <1>2, <1>5, <2>1, MoveTyped DEF Moves, OnlyFrames, iamVars
<1>7. \/ RunsInner(f, here)
      \/ Moves(f, Answered(c, Error))
      \/ \E d \in Frame, dst \in Node : CallsOn(f, d, dst)
  BY ExecutedIs
<1> HIDE DEF here
<1>8. CASE RunsInner(f, here) BY <1>5, <1>8 DEF RunsInner
<1>9. CASE Moves(f, Answered(c, Error)) BY <1>3, <1>4, <1>9
<1>10. CASE \E d \in Frame, dst \in Node : CallsOn(f, d, dst)
  <2>1. PICK d \in Frame : Staged(d) /\ d.parent = c.parent /\ Moves(f, d) BY <1>10 DEF CallsOn
  <2> QED BY <1>1, <1>2, <2>1, MoveTyped DEF Moves, OnlyFrames, iamVars
<1> QED BY <1>7, <1>8, <1>9, <1>10

(* authorizeRpc waits for the evaluation, and then starts the method or    *)
(* fails.                                                                  *)
LEMMA AuthorizeIs ==
  ASSUME Setting, Typed, NEW f \in FrameId, authorizeRpc(f)
  PROVE  /\ At(f, "authorize") /\ UNCHANGED <<routeState, budget>>
         /\ DOMAIN check' = FrameId
         /\ \A g \in FrameId \ {f} : check'[g] = check[g]
         /\ \/ UNCHANGED frame
            \/ /\ check'[f] = Idle
               /\ \E d : /\ Moves(f, d) /\ Flow(frame[f], d) /\ Starts(frame[f], d, Handled)
<1> DEFINE c == frame[f]
<1>1. At(f, "authorize") /\ UNCHANGED <<routeState, budget>> BY DEF authorizeRpc
<1>2. c \in Frame /\ Fresh(c) /\ Rooted(c) BY <1>1, ActiveFrame DEF At, Fresh, Staged
<1>3. CASE /\ check[f] = Idle
           /\ BeginCheck(f, [user |-> c.auth.user, claimed |-> c.auth.groups,
                             command |-> c.req.method, mask |-> {}, scope |-> c.auth.scope])
           /\ UNCHANGED frame
  <2>1. PICK q : check' = [check EXCEPT ![f] = q] BY <1>3 DEF BeginCheck
  <2> QED BY <1>1, <1>3, <2>1 DEF Typed
<1>4. CASE /\ check' = [check EXCEPT ![f] = Idle]
           /\ Moves(f, IF check[f].phase = "allowed" THEN Run(c) ELSE Answered(c, Error))
  <2>1. /\ DOMAIN check' = FrameId /\ check'[f] = Idle
        /\ \A g \in FrameId \ {f} : check'[g] = check[g]
    BY <1>4 DEF Typed
  <2>2. CASE Moves(f, Run(c)) BY <1>1, <1>2, <2>1, <2>2, RunFlow
  <2>3. CASE Moves(f, Answered(c, Error)) BY <1>1, <1>2, <2>1, <2>3, FailsFlow DEF Starts
  <2> QED BY <1>4, <2>2, <2>3
<1> QED BY <1>3, <1>4 DEF authorizeRpc

(* authorizeRpc keeps Typed.                                               *)
LEMMA AuthorizeTyped ==
  ASSUME Setting, Typed, NEW f \in FrameId, authorizeRpc(f)
  PROVE  Typed'
<1>1. /\ At(f, "authorize") /\ routeState' = routeState
      /\ DOMAIN check' = FrameId
      /\ \A g \in FrameId \ {f} : check'[g] = check[g]
      /\ \/ UNCHANGED frame
         \/ /\ check'[f] = Idle
            /\ \E d : Moves(f, d) /\ Flow(frame[f], d)
  BY AuthorizeIs
<1>2. CASE UNCHANGED frame
  <2>1. \A g \in FrameId : check'[g] # Idle => At(g, "authorize")'
    BY <1>1, <1>2 DEF Typed, Checked, At, Active
  <2>2. \A g \in FrameId : Active(g) => Alike(frame[g], frame'[g])
    BY <1>2, ActiveFrame DEF Alike
  <2> QED BY <1>1, <1>2, <2>1, <2>2, KeepsTyped DEF Typed, Active
<1>3. CASE check'[f] = Idle /\ \E d : Moves(f, d) /\ Flow(frame[f], d)
  <2>1. PICK d : Moves(f, d) /\ Flow(frame[f], d) BY <1>3
  <2>2. d \in Frame /\ Staged(d) /\ d.parent = frame[f].parent BY <2>1 DEF Flow, Same
  <2>3. frame' \in [FrameId -> Frame \cup {Idle}] BY <2>1, <2>2 DEF Typed, Moves
  <2>4. frame'[f] = d /\ \A g \in FrameId \ {f} : frame'[g] = frame[g]
    BY <2>1 DEF Typed, Moves
  <2>5. \A g \in FrameId : check'[g] # Idle => At(g, "authorize")'
    BY <1>1, <1>3, <2>4 DEF Typed, Checked, At, Active
  <2>6. ASSUME NEW g \in FrameId
        PROVE  \/ ~Active(g) /\ ~Active(g)'
               \/ Active(g) /\ Alike(frame[g], frame'[g])
    BY <1>1, <2>2, <2>4, ActiveFrame DEF Active, Alike, At
  <2> QED BY <1>1, <2>3, <2>5, <2>6, KeepsTyped DEF Typed
<1> QED BY <1>1, <1>2, <1>3

-----------------------------------------------------------------------------
(* The caller p goes on, as d, with the answer a.                          *)
Resumed(p, d, a) ==
  /\ d \in Frame /\ Staged(d) /\ Same(p, d) /\ d.snap = Idle /\ d.defied = p.defied
  /\ \/ d.stage = "answer" /\ d.answer = Error
     \/ /\ d.stage = "outbound" /\ a.ok
        /\ \/ /\ p.req.method = "learn" \/ p.proxied
              /\ d.answer = a
           \/ /\ p.req \in Execs /\ ~p.proxied
              /\ d.answer = Ok(p.req.path \o <<p.node, p.to>>, {}, a.trail)

(* What Return makes of the caller.                                        *)
LEMMA ResumeIs ==
  ASSUME Setting, NEW p \in Frame, Staged(p), p.stage = "wait", NEW a \in Answer
  PROVE  LET direct == Ok(p.req.path \o <<p.node, p.to>>, {}, a.trail)
             d == IF ~a.ok THEN Answered(p, Error)
                  ELSE [To(p, "outbound") EXCEPT
                          !.left = a.peers,
                          !.answer = IF p.req.method = "learn" \/ p.proxied THEN a ELSE direct]
         IN Resumed(p, d, a)
<1> DEFINE direct == Ok(p.req.path \o <<p.node, p.to>>, {}, a.trail)
           e == To(p, "outbound")
           x == IF p.req.method = "learn" \/ p.proxied THEN a ELSE direct
           d == [e EXCEPT !.left = a.peers, !.answer = x]
<1>0. Rooted(p) BY DEF Staged
<1>1. CASE ~a.ok
  <2> DEFINE b == Answered(p, Error)
  <2>1. Flow(p, b) /\ b.stage = "answer" /\ b.answer = Error /\ b.defied = p.defied
    BY <1>0, Errors, AnsweredFlow
  <2> HIDE DEF b
  <2>2. Resumed(p, b, a) BY <2>1 DEF Resumed, Flow
  <2> QED BY <1>1, <2>2 DEF b
<1>2. CASE a.ok
  <2>0. p.to \in Node /\ p.req.method \in {"exec", "learn"} BY DEF Staged
  <2>1. p.req.method # "learn" => p.req \in Execs BY <2>0, FrameFields, Methods
  <2>2. x \in Answer
    <3>1. CASE p.req.method = "learn" \/ p.proxied BY <3>1
    <3>2. CASE ~(p.req.method = "learn" \/ p.proxied)
      <4> DEFINE path == p.req.path \o <<p.node, p.to>>
                 none == {}
                 trail == a.trail
      <4>1. p.req.path \in Seq(Node) /\ p.node \in Node BY <2>1, <3>2, FrameFields DEF Execs
      <4>2. path \in Seq(Node) BY <2>0, <4>1
      <4>3. none \in SUBSET Node /\ trail \in Seq(Node) BY DEF Answer
      <4>4. x = Ok(path, none, trail) BY <3>2
      <4> HIDE DEF path, none, trail, x
      <4> QED BY <4>2, <4>3, <4>4, OkIs
    <3> QED BY <3>1, <3>2
  <2>3. a.peers \in SUBSET Node BY DEF Answer
  <2>4. e \in Frame /\ Same(p, e) /\ e.snap = Idle /\ e.defied = p.defied /\ e.stage = "outbound"
        /\ e.phase = "load"
    BY ToFrame, Stages DEF Same, Reading, Writing
  <2> HIDE DEF e
  <2>5. \/ /\ p.req.method = "learn" \/ p.proxied
           /\ x = a
        \/ p.req \in Execs /\ ~p.proxied /\ x = direct
    BY <2>1
  <2> HIDE DEF x, direct
  <2>6. d \in Frame /\ Same(p, d) /\ d.snap = Idle /\ d.defied = p.defied /\ d.stage = "outbound"
        /\ d.phase = "load" /\ d.answer = x
    BY <2>2, <2>3, <2>4 DEF Frame, Same
  <2> HIDE DEF d
  <2>7. Staged(d) BY <1>0, <2>0, <2>2, <2>6 DEF Staged, Rooted, Same
  <2>8. Resumed(p, d, a) BY <1>2, <2>5, <2>6, <2>7 DEF Resumed, direct
  <2> QED BY <1>2, <2>8 DEF d, e, x, direct
<1> QED BY <1>1, <1>2 DEF Answer

(* What Return does: the call is over, and its caller, if it still waits,  *)
(* goes on.                                                                *)
LEMMA ReturnIs ==
  ASSUME Setting, Typed, NEW f \in FrameId, Return(f)
  PROVE  /\ At(f, "answer") /\ OnlyFrames /\ frame[f].answer \in Answer
         /\ \/ frame[f].parent = Idle /\ frame' = [frame EXCEPT ![f] = Idle]
            \/ \E p \in FrameId, d \in Frame :
                 /\ Child(f, p) /\ Resumed(frame[p], d, frame[f].answer)
                 /\ frame' = [frame EXCEPT ![f] = Idle, ![p] = d]
<1> DEFINE c == frame[f]
<1>1. At(f, "answer") /\ OnlyFrames BY DEF Return
<1>2. c \in Frame /\ Staged(c) BY <1>1, ActiveFrame DEF At
<1>3. c.answer \in Answer BY <1>1, <1>2 DEF At, Staged
<1>4. CASE c.parent = Idle BY <1>1, <1>3, <1>4 DEF Return, Moves
<1>5. CASE c.parent # Idle
  <2>1. PICK p \in FrameId : p = c.parent BY <1>2, <1>5, FrameFields
  <2>2. Child(f, p) BY <1>1, <2>1 DEF Child, At
  <2>3. At(p, "wait") BY <2>2 DEF Typed, Waited
  <2>4. frame[p] \in Frame /\ Staged(frame[p]) /\ frame[p].stage = "wait"
    BY <2>3, ActiveFrame DEF At
  <2> DEFINE direct == Ok(frame[p].req.path \o <<frame[p].node, frame[p].to>>, {}, c.answer.trail)
             d == IF ~c.answer.ok THEN Answered(frame[p], Error)
                  ELSE [To(frame[p], "outbound") EXCEPT
                          !.left = c.answer.peers,
                          !.answer = IF frame[p].req.method = "learn" \/ frame[p].proxied
                                     THEN c.answer ELSE direct]
  <2>5. Resumed(frame[p], d, c.answer) BY <1>3, <2>4, ResumeIs
  <2>6. frame' = [frame EXCEPT ![f] = Idle, ![p] = d] BY <1>5, <2>1 DEF Return
  <2>7. d \in Frame BY <2>5 DEF Resumed
  <2> HIDE DEF d, c
  <2> QED BY <1>1, <1>3, <2>2, <2>5, <2>6, <2>7 DEF c
<1> QED BY <1>4, <1>5

(* A call that nobody waits for ends.                                      *)
LEMMA EndTyped ==
  ASSUME Setting, Typed, NEW f \in FrameId, At(f, "answer"),
         frame' = [frame EXCEPT ![f] = Idle], routeState' = routeState, check' = check
  PROVE  Typed'
<1>1. frame'[f] = Idle /\ \A g \in FrameId \ {f} : frame'[g] = frame[g] BY DEF Typed
<1>2. frame' \in [FrameId -> Frame \cup {Idle}] BY DEF Typed
<1>3. Framed' BY <1>1 DEF Typed, Framed, Active
<1>4. \A g, p \in FrameId : Child(g, p)' => Child(g, p) BY <1>1 DEF Child, Active
<1>5. ASSUME NEW g \in FrameId, NEW p \in FrameId, Child(g, p)'
      PROVE  g # p /\ At(p, "wait")' /\ \A h \in FrameId : Child(h, p)' => h = g
  <2>1. g # p /\ At(p, "wait") /\ \A h \in FrameId : Child(h, p) => h = g
    BY <1>4, <1>5 DEF Typed, Waited
  <2>2. p # f BY <2>1 DEF At
  <2> QED BY <1>1, <1>4, <2>1, <2>2 DEF At, Active
<1>6. Checked' BY <1>1 DEF Typed, Checked, At, Active
<1> QED BY <1>2, <1>3, <1>5, <1>6 DEF Typed, Waited

(* Return keeps Typed.                                                     *)
LEMMA ReturnTyped ==
  ASSUME Setting, Typed, NEW f \in FrameId, Return(f)
  PROVE  Typed'
<1>1. At(f, "answer") /\ routeState' = routeState /\ check' = check
  BY ReturnIs DEF OnlyFrames, iamVars
<1>2. CASE frame' = [frame EXCEPT ![f] = Idle] BY <1>1, <1>2, EndTyped
<1>3. CASE \E p \in FrameId, d \in Frame :
             /\ Child(f, p) /\ Resumed(frame[p], d, frame[f].answer)
             /\ frame' = [frame EXCEPT ![f] = Idle, ![p] = d]
  <2>1. PICK p \in FrameId, d \in Frame :
             /\ Child(f, p) /\ Resumed(frame[p], d, frame[f].answer)
             /\ frame' = [frame EXCEPT ![f] = Idle, ![p] = d]
    BY <1>3
  <2>2. Staged(d) /\ d.parent = frame[p].parent BY <2>1 DEF Resumed, Same
  <2>3. frame[f].stage \notin {"wait", "authorize"} BY <1>1 DEF At
  <2> QED BY <1>1, <2>1, <2>2, <2>3, ReleaseTyped
<1> QED BY <1>2, <1>3, ReturnIs

(* What GiveUp does: the caller fails, and its callee is left alone.       *)
LEMMA GiveUpIs ==
  ASSUME Setting, Typed, NEW f \in FrameId, GiveUp(f)
  PROVE  /\ Active(f) /\ UNCHANGED <<iamVars, routeState>>
         /\ \E p \in FrameId, a, d \in Frame :
              /\ Child(f, p) /\ frame' = [frame EXCEPT ![f] = a, ![p] = d]
              /\ a = [frame[f] EXCEPT !.parent = Idle]
              /\ Flow(frame[p], d) /\ d.defied = frame[p].defied
              /\ d.stage = "answer" /\ d.answer = Error
<1>1. /\ Active(f) /\ frame[f].parent # Idle /\ UNCHANGED <<iamVars, routeState>>
      /\ frame' = [frame EXCEPT ![f].parent = Idle, ![frame[f].parent] = Answered(@, Error)]
  BY DEF GiveUp
<1>2. frame[f] \in Frame BY <1>1, ActiveFrame
<1>3. PICK p \in FrameId : p = frame[f].parent BY <1>1, <1>2, FrameFields
<1>4. Child(f, p) BY <1>1, <1>3 DEF Child
<1>5. p # f /\ At(p, "wait") BY <1>4 DEF Typed, Waited
<1>6. frame[p] \in Frame /\ Rooted(frame[p]) BY <1>5, ActiveFrame DEF At
<1> DEFINE a == [frame[f] EXCEPT !.parent = Idle]
           d == Answered(frame[p], Error)
<1>7. frame' = [frame EXCEPT ![f] = a, ![p] = d] BY <1>1, <1>3, <1>5 DEF Typed
<1>8. a \in Frame BY <1>2 DEF Frame
<1>9. /\ Flow(frame[p], d) /\ d.defied = frame[p].defied
      /\ d.stage = "answer" /\ d.answer = Error
  BY <1>6, Errors, AnsweredFlow
<1>10. d \in Frame BY <1>9 DEF Flow
<1> HIDE DEF d
<1> QED BY <1>1, <1>4, <1>7, <1>8, <1>9, <1>10

(* A call whose caller no longer waits is otherwise the same.              *)
LEMMA OrphanIs ==
  ASSUME Setting, NEW c \in Frame, NEW a \in Frame, a = [c EXCEPT !.parent = Idle]
  PROVE  /\ a.node = c.node /\ a.from = c.from /\ a.origin = c.origin /\ a.auth = c.auth
         /\ a.req = c.req /\ a.trail = c.trail /\ a.to = c.to
         /\ a.proxied = c.proxied /\ a.stage = c.stage /\ a.phase = c.phase /\ a.snap = c.snap
         /\ a.answer = c.answer /\ a.left = c.left /\ a.barred = c.barred /\ a.defied = c.defied
         /\ a.parent = Idle
         /\ Staged(c) => Staged(a)
<1>1. /\ a.node = c.node /\ a.from = c.from /\ a.origin = c.origin /\ a.auth = c.auth
      /\ a.req = c.req /\ a.trail = c.trail /\ a.to = c.to
      /\ a.proxied = c.proxied /\ a.stage = c.stage /\ a.phase = c.phase /\ a.snap = c.snap
      /\ a.answer = c.answer /\ a.left = c.left /\ a.barred = c.barred /\ a.defied = c.defied
      /\ a.parent = Idle
  BY DEF Frame
<1> QED BY <1>1 DEF Staged, Rooted, FirstLeft

(* GiveUp keeps Typed.                                                     *)
LEMMA GiveUpTyped ==
  ASSUME Setting, Typed, NEW f \in FrameId, GiveUp(f)
  PROVE  Typed'
<1>1. Active(f) /\ routeState' = routeState /\ check' = check BY GiveUpIs DEF iamVars
<1>2. PICK p \in FrameId, a \in Frame, d \in Frame :
        /\ Child(f, p) /\ frame' = [frame EXCEPT ![f] = a, ![p] = d]
        /\ a = [frame[f] EXCEPT !.parent = Idle]
        /\ Flow(frame[p], d)
  BY GiveUpIs
<1>3. frame[f] \in Frame /\ Staged(frame[f]) BY <1>1, ActiveFrame
<1>4. Staged(a) /\ a.parent = Idle /\ a.stage = frame[f].stage BY <1>2, <1>3, OrphanIs
<1>5. Staged(d) /\ d.parent = frame[p].parent BY <1>2 DEF Flow, Same
<1>6. a # Idle BY FrameIsActive
<1> QED BY <1>1, <1>2, <1>4, <1>5, <1>6, ReleaseTyped

(* What Request does: a call comes in at one node, and goes through        *)
(* dispatch.                                                               *)
LEMMA RequestIs ==
  ASSUME Setting, Typed, NEW f \in FrameId, Request(f)
  PROVE  /\ ~Active(f) /\ UNCHANGED <<iamVars, routeState>>
         /\ \E r \in Requests, c, d \in Frame :
              /\ frame' = [frame EXCEPT ![f] = d]
              /\ Incoming(c, r.node, NoNode, r.node, r.auth, r.req, Idle, <<>>)
              /\ Fresh(c) /\ d = dispatch(c)
<1>1. ~Active(f) /\ UNCHANGED <<iamVars, routeState>> BY DEF Request
<1>2. PICK r \in Requests :
        Moves(f, dispatch(Call(r.node, NoNode, r.node, r.auth, r.req, Idle, <<>>)))
  BY DEF Request
<1> DEFINE c == Call(r.node, NoNode, r.node, r.auth, r.req, Idle, <<>>)
<1>3. Incoming(c, r.node, NoNode, r.node, r.auth, r.req, Idle, <<>>)
  <2>1. /\ r.node \in Node /\ r.req \in Req /\ r.auth \in Auth
        /\ NoNode \in Ends /\ Idle \in FrameId \cup {Idle}
    BY DEF Setting, Ends, Auth
  <2> DEFINE empty == <<>>
  <2>2. empty \in Seq(Node) OBVIOUS
  <2>3. c = Call(r.node, NoNode, r.node, r.auth, r.req, Idle, empty) OBVIOUS
  <2> HIDE DEF empty, c
  <2>4. Incoming(c, r.node, NoNode, r.node, r.auth, r.req, Idle, empty)
    BY <2>1, <2>2, <2>3, CallIs
  <2> QED BY <2>4 DEF empty
<1> HIDE DEF c
<1>4. Fresh(c) /\ c \in Frame BY <1>3 DEF Incoming, Fresh, Rooted, Setting
<1>5. dispatch(c) \in Frame BY <1>4, DispatchFlow DEF Flow
<1> QED BY <1>1, <1>2, <1>3, <1>4, <1>5 DEF Moves, c

(* Request keeps Typed.                                                    *)
LEMMA RequestTyped ==
  ASSUME Setting, Typed, NEW f \in FrameId, Request(f)
  PROVE  Typed'
<1>1. ~Active(f) /\ routeState' = routeState /\ check' = check BY RequestIs DEF iamVars
<1>2. PICK r \in Requests, c \in Frame, d \in Frame :
        /\ frame' = [frame EXCEPT ![f] = d]
        /\ Incoming(c, r.node, NoNode, r.node, r.auth, r.req, Idle, <<>>)
        /\ Fresh(c) /\ d = dispatch(c)
  BY RequestIs
<1>3. Staged(d) /\ d.parent = Idle BY <1>2, DispatchFlow DEF Flow, Same, Incoming
<1>4. frame'[f] = d /\ \A g \in FrameId \ {f} : frame'[g] = frame[g] BY <1>2 DEF Typed
<1>5. frame' \in [FrameId -> Frame \cup {Idle}] BY <1>2 DEF Typed
<1>6. Framed' BY <1>3, <1>4 DEF Typed, Framed, Active
<1>i. Idle \notin FrameId BY DEF Setting
<1>7. \A g, p \in FrameId : Child(g, p)' => Child(g, p) BY <1>3, <1>4, <1>i DEF Child, Active
<1>8. ASSUME NEW g \in FrameId, NEW p \in FrameId, Child(g, p)'
      PROVE  g # p /\ At(p, "wait")' /\ \A h \in FrameId : Child(h, p)' => h = g
  <2>1. g # p /\ At(p, "wait") /\ \A h \in FrameId : Child(h, p) => h = g
    BY <1>7, <1>8 DEF Typed, Waited
  <2>2. p # f BY <1>1, <2>1 DEF At
  <2> QED BY <1>4, <1>7, <2>1, <2>2 DEF At, Active
<1>9. Checked'
  <2>1. \A g \in FrameId : check[g] # Idle => g # f BY <1>1 DEF Typed, Checked, At
  <2> QED BY <1>1, <1>4, <2>1 DEF Typed, Checked, At, Active
<1> QED BY <1>1, <1>5, <1>6, <1>8, <1>9 DEF Typed, Waited

-----------------------------------------------------------------------------
(* The evaluations and the administrators leave the calls alone.           *)
LEMMA QuietIs ==
  ASSUME Setting, Typed,
         \/ \E f \in FrameId : WithIam(CheckStep(f))
         \/ \E a \in Admin : WithIam(AdminStep(a))
  PROVE  /\ UNCHANGED callVars /\ DOMAIN check' = FrameId
         /\ \A g \in FrameId : check'[g] # Idle => check[g] # Idle
<1>1. ASSUME NEW f \in FrameId, CheckStep(f)
      PROVE  check[f] # Idle /\ \E k : check' = [check EXCEPT ![f] = k]
  <2>1. CASE ListSubjects(f) BY <2>1 DEF ListSubjects, CheckBecomes
  <2>2. CASE PoseQuery(f) BY <2>2 DEF PoseQuery, CheckBecomes
  <2>3. CASE WalkQuery(f) BY <2>3 DEF WalkQuery, CheckBecomes
  <2>4. CASE ReadGrant(f) BY <2>4 DEF ReadGrant, CheckBecomes
  <2>5. CASE Decide(f) BY <2>5 DEF Decide, CheckBecomes
  <2> QED BY <1>1, <2>1, <2>2, <2>3, <2>4, <2>5 DEF CheckStep
<1>2. ASSUME NEW a \in Admin, AdminStep(a) PROVE check' = check
  BY <1>2 DEF AdminStep, BeginAdmin, ReadGroup, ReadChild, LookForCycle, WriteGroup, DeleteGroup,
     ListParents, Unlink, SetGrant, AbandonAdmin
<1>3. CASE \E f \in FrameId : WithIam(CheckStep(f))
  <2>1. PICK f \in FrameId : CheckStep(f) /\ UNCHANGED callVars BY <1>3 DEF WithIam
  <2>2. PICK k : check' = [check EXCEPT ![f] = k] BY <1>1, <2>1
  <2>3. check[f] # Idle BY <1>1, <2>1
  <2> QED BY <2>1, <2>2, <2>3 DEF Typed
<1>4. CASE \E a \in Admin : WithIam(AdminStep(a))
  BY <1>2, <1>4 DEF WithIam, Typed
<1> QED BY <1>3, <1>4

(* So they keep Typed.                                                     *)
LEMMA QuietTyped ==
  ASSUME Setting, Typed, UNCHANGED callVars, DOMAIN check' = FrameId,
         \A g \in FrameId : check'[g] # Idle => check[g] # Idle
  PROVE  Typed'
BY DEF Typed, callVars, Framed, Waited, Checked, Child, At, Active

(* The first state is typed.                                               *)
LEMMA InitTyped == ASSUME Setting, Init PROVE Typed
BY CallsAssumption DEF Init, IamInit, Typed, Setting, Framed, Waited, Checked, Child, At, Active

(* Every step of a call keeps Typed.                                       *)
LEMMA FrameStepTyped ==
  ASSUME Setting, Typed, NEW f \in FrameId, FrameStep(f)
  PROVE  Typed'
<1>1. CASE LoadRouteState(f) BY <1>1, LoadTyped
<1>2. CASE FindExpired(f) BY <1>2, FindTyped
<1>3. CASE SavePruned(f) BY <1>3, PruneTyped
<1>4. CASE SaveRouteState(f) BY <1>4, SaveRouteTyped
<1>5. CASE enforceInboundRoutePolicy(f)
  <2>1. At(f, "enforce") /\ OnlyFrames /\ \E d : Moves(f, d) /\ Flow(frame[f], d)
    BY <1>5, EnforceIs
  <2> QED BY <2>1, FlowTyped DEF At
<1>6. CASE authorizeRpc(f) BY <1>6, AuthorizeTyped
<1>7. CASE listPeerSummaries(f)
  <2>1. At(f, "peers") /\ OnlyFrames BY <1>7, PeersIs
  <2>2. PICK a \in Answer : Moves(f, Answered(frame[f], a)) BY <1>7, PeersIs
  <2>3. Flow(frame[f], Answered(frame[f], a)) BY <2>1, ActiveFrame, AnsweredFlow DEF At
  <2> QED BY <2>1, <2>2, <2>3, FlowTyped DEF At
<1>8. CASE executeRouted(f) BY <1>8, ExecutedTyped
<1>9. CASE learn(f) BY <1>9, LearnTyped
<1>10. CASE LearnNext(f)
  <2>1. At(f, "peek") /\ OnlyFrames /\ \E d : Moves(f, d) /\ Flow(frame[f], d)
    BY <1>10, NextIs
  <2> QED BY <2>1, FlowTyped DEF At
<1>11. CASE Return(f) BY <1>11, ReturnTyped
<1>12. CASE callDetailed(f) BY <1>12, CalledTyped
<1> QED BY <1>1, <1>2, <1>3, <1>4, <1>5, <1>6, <1>7, <1>8, <1>9, <1>10, <1>11, <1>12 DEF FrameStep

(* So does every step.                                                     *)
LEMMA NextTyped == ASSUME Setting, Typed, Next PROVE Typed'
<1>1. CASE \E f \in FrameId : Request(f) BY <1>1, RequestTyped
<1>2. CASE \E f \in FrameId : FrameStep(f) BY <1>2, FrameStepTyped
<1>3. CASE \E f \in FrameId : GiveUp(f) BY <1>3, GiveUpTyped
<1>4. CASE \/ \E f \in FrameId : WithIam(CheckStep(f))
           \/ \E a \in Admin : WithIam(AdminStep(a))
  BY <1>4, QuietIs, QuietTyped
<1> QED BY <1>1, <1>2, <1>3, <1>4 DEF Next

(* The inductive invariant implies the one the run checks.                 *)
LEMMA TypedIsTypeOK == ASSUME Setting, Typed PROVE TypeOK
<1> SUFFICES ASSUME NEW f \in FrameId, Active(f)
             PROVE  /\ frame[f].node \in Node /\ frame[f].from \in Node \cup {NoNode}
                    /\ frame[f].parent # Idle => frame[frame[f].parent].stage = "wait"
                    /\ frame[f].stage \in Reading \cup {"authorize", "learn", "wait", "answer"}
                    /\ check[f] # Idle => frame[f].stage = "authorize"
  BY DEF TypeOK, Typed
<1>1. frame[f] \in Frame /\ Staged(frame[f]) BY ActiveFrame
<1>2. frame[f].parent # Idle => Child(f, frame[f].parent) /\ frame[f].parent \in FrameId
  BY <1>1, FrameFields DEF Child
<1>3. frame[f].parent # Idle => At(frame[f].parent, "wait") BY <1>2 DEF Typed, Waited
<1>4. frame[f].stage \in Stage \ {"dispatch"} BY <1>1, FrameFields DEF Staged
<1> QED BY <1>1, <1>3, <1>4, FrameFields DEF Ends, Stage, At, Typed, Checked

(* Every call is always where its handler may be, waits for one other at   *)
(* most, and is itself waited for by one.                                  *)
THEOREM AlwaysTyped == ASSUME Setting PROVE Spec => []Typed
<1>1. Init => Typed BY InitTyped
<1>2. Typed /\ UNCHANGED vars => Typed'
  BY QuietTyped DEF vars, callVars, iamVars, Typed
<1>3. Typed /\ Next => Typed' BY NextTyped
<1> QED BY <1>1, <1>2, <1>3, PTL DEF Spec

(* Every record and call keeps its type, and whoever is waited for is      *)
(* waited for in the stage that does.                                      *)
THEOREM TypeCorrect == ASSUME Setting PROVE Spec => []TypeOK
<1>1. Typed => TypeOK BY TypedIsTypeOK
<1> QED BY <1>1, AlwaysTyped, PTL

-----------------------------------------------------------------------------
(* A barred caller is not past the deny rules, and was not let past.       *)
Unheard(c) ==
  /\ c.barred /\ c.stage = "enforce" /\ c.phase = "use" => c.from \in c.snap.denyIn
  /\ c.stage \in Handled => ~c.barred
  /\ ~c.defied

(* A call is barred only while a rule of its node says so.                 *)
Barring(c) == c.barred => c.from \in routeState[c.node].denyIn

(* The inductive invariant behind DenyInHolds: a barred call is not past   *)
(* the rules, and the record it was last read from, or will be, bars it    *)
(* too.                                                                    *)
RulesBind == \A f \in FrameId : Active(f) => Barring(frame[f]) /\ Unheard(frame[f])

(* A call that dispatch sends on is still unheard.                         *)
LEMMA FlowUnheard ==
  ASSUME NEW c, NEW d, Flow(c, d), Unheard(c),
         c.barred => d.defied = c.defied /\ d.stage \notin Handled
  PROVE  Unheard(d)
BY DEF Flow, Unheard, Same

(* One call moves, and the route states stay.                              *)
LEMMA MoveBinds ==
  ASSUME Setting, Typed, RulesBind, NEW f \in FrameId, Active(f),
         NEW d \in Frame, d.node = frame[f].node, d.from = frame[f].from, d.barred = frame[f].barred,
         Unheard(d), frame' = [frame EXCEPT ![f] = d], routeState' = routeState
  PROVE  RulesBind'
<1>1. frame'[f] = d /\ \A g \in FrameId \ {f} : frame'[g] = frame[g] BY DEF Typed
<1>2. Barring(frame[f]) BY DEF RulesBind
<1>3. Barring(d)' BY <1>2 DEF Barring
<1> QED BY <1>1, <1>3 DEF RulesBind, Active, Barring

(* A call that no rule bars, and that goes on, keeps RulesBind.            *)
LEMMA FlowBinds ==
  ASSUME Setting, Typed, RulesBind, NEW f \in FrameId, Active(f),
         NEW d, Flow(frame[f], d), Moves(f, d), OnlyFrames,
         frame[f].barred => d.defied = frame[f].defied /\ d.stage \notin Handled
  PROVE  RulesBind'
<1>1. Unheard(d) BY FlowUnheard DEF RulesBind
<1>2. /\ d \in Frame /\ d.node = frame[f].node /\ d.from = frame[f].from
      /\ d.barred = frame[f].barred
  BY DEF Flow, Same
<1> QED BY <1>1, <1>2, MoveBinds DEF Moves, OnlyFrames

(* So does any call that fails.                                            *)
LEMMA FailBinds ==
  ASSUME Setting, Typed, RulesBind, NEW f \in FrameId, Active(f),
         NEW b \in Frame, Rooted(b), b.node = frame[f].node, b.from = frame[f].from,
         b.barred = frame[f].barred, b.defied = frame[f].defied,
         Moves(f, Answered(b, Error)), OnlyFrames
  PROVE  RulesBind'
<1> DEFINE d == Answered(b, Error)
<1>1. Flow(b, d) /\ d.stage = "answer" /\ d.defied = b.defied BY FailsFlow
<1> HIDE DEF d
<1>2. /\ d \in Frame /\ d.node = frame[f].node /\ d.from = frame[f].from
      /\ d.barred = frame[f].barred /\ Unheard(d)
  BY <1>1 DEF Flow, Same, RulesBind, Unheard, Handled
<1>3. frame' = [frame EXCEPT ![f] = d] /\ routeState' = routeState BY DEF Moves, OnlyFrames, d
<1> QED BY <1>2, <1>3, MoveBinds

(* A record that is written bars whoever is still barred.                  *)
LEMMA SaveBinds ==
  ASSUME Setting, Typed, RulesBind, NEW f \in FrameId, Active(f), NEW s \in RouteState,
         NEW c \in Frame, c.node = frame[f].node, Save(f, s, c),
         \A e \in Frame : Lifted(c, e) /\ (e.barred => e.from \in s.denyIn) => Unheard(e)
  PROVE  RulesBind'
<1>1. /\ routeState' = [routeState EXCEPT ![c.node] = s]
      /\ Lifted(c, frame'[f])
      /\ \A g \in FrameId \ {f} : Active(g) => Lifted(frame[g], frame'[g])
      /\ \A g \in FrameId \ {f} : ~Active(g) => ~Active(g)'
      /\ \A g \in FrameId : Active(g)' /\ frame'[g].node = c.node /\ frame'[g].barred =>
                              frame'[g].from \in s.denyIn
  BY SaveIs
<1>2. c.node \in Node BY FrameFields
<1>3. routeState'[c.node] = s /\ \A n \in Node : n # c.node => routeState'[n] = routeState[n]
  BY <1>1, <1>2 DEF Typed
<1>4. ASSUME NEW g \in FrameId, Active(g)' PROVE Barring(frame[g])' /\ Unheard(frame'[g])
  <2>1. CASE g = f
    <3>1. Lifted(c, frame'[f]) /\ frame'[f] \in Frame /\ frame'[f].node = c.node
      BY <1>1, LiftedSame
    <3>2. frame'[f].barred => frame'[f].from \in s.denyIn BY <1>1, <1>4, <2>1, <3>1
    <3> QED BY <1>3, <2>1, <3>1, <3>2 DEF Barring
  <2>2. CASE g # f
    <3>1. Active(g) /\ Lifted(frame[g], frame'[g]) BY <1>1, <1>4, <2>2
    <3>2. frame[g] \in Frame BY <3>1, ActiveFrame
    <3> DEFINE d == frame[g]  e == frame'[g]
    <3>3. /\ e.node = d.node /\ e.from = d.from /\ e.stage = d.stage /\ e.phase = d.phase
          /\ e.snap = d.snap /\ e.defied = d.defied /\ (e.barred => d.barred)
          /\ e \in Frame
      BY <3>1, <3>2, LiftedSame
    <3>4. Barring(d) /\ Unheard(d) BY <3>1 DEF RulesBind
    <3>5. e.node \in Node BY <3>3, FrameFields
    <3>6. e.node = c.node /\ e.barred => e.from \in s.denyIn BY <1>1, <1>4
    <3> HIDE DEF d, e
    <3>7. Unheard(e) BY <3>3, <3>4 DEF Unheard
    <3>8. e.barred => e.from \in routeState'[e.node].denyIn
      BY <1>3, <3>3, <3>4, <3>5, <3>6 DEF Barring
    <3> QED BY <3>7, <3>8 DEF Barring, d, e
  <2> QED BY <2>1, <2>2
<1> QED BY <1>4 DEF RulesBind

(* The two steps that write the record keep RulesBind: what was read       *)
(* before is written back with its rules, and who is not in them is        *)
(* barred no more.                                                         *)
LEMMA SavesBind ==
  ASSUME Setting, Typed, RulesBind, NEW f \in FrameId, SavePruned(f) \/ SaveRouteState(f)
  PROVE  RulesBind'
<1>1. CASE SavePruned(f)
  <2> DEFINE c == frame[f]
             d == [c EXCEPT !.phase = "use"]
  <2>1. /\ Active(f) /\ c.snap \in RouteState /\ Save(f, c.snap, d)
        /\ d \in Frame /\ Same(c, d) /\ d.stage = c.stage
        /\ d.phase = "use" /\ d.snap = c.snap /\ d.defied = c.defied
    BY <1>1, PruneIs
  <2>2. Unheard(c) BY <2>1 DEF RulesBind
  <2> HIDE DEF d, c
  <2>3. ASSUME NEW e \in Frame, Lifted(d, e), e.barred => e.from \in c.snap.denyIn
        PROVE  Unheard(e)
    <3>1. /\ e.from = d.from /\ e.stage = d.stage /\ e.phase = d.phase
          /\ e.snap = d.snap /\ e.defied = d.defied /\ (e.barred => d.barred)
      BY <2>1, <2>3, LiftedSame
    <3> QED BY <2>1, <2>2, <2>3, <3>1 DEF Unheard, Same
  <2> QED BY <2>1, <2>3, SaveBinds DEF c, Same
<1>2. CASE SaveRouteState(f)
  <2> DEFINE c == frame[f]
             d == After(c)
  <2>1. Active(f) /\ c.stage \in Writing /\ c.phase = "use" /\ Save(f, Mutated(c), d)
    BY <1>2 DEF SaveRouteState
  <2>2. c \in Frame /\ Staged(c) BY <2>1, ActiveFrame
  <2>3. c.snap \in RouteState BY <2>1, <2>2 DEF Staged
  <2>4. Mutated(c) \in RouteState BY <2>1, <2>2, <2>3, MutatedIs
  <2>5. Flow(c, d) BY <2>1, <2>2, AfterFlow
  <2>6. Unheard(c) BY <2>1 DEF RulesBind
  <2>7. c.barred => d.defied = c.defied /\ d.stage \notin Handled
    <3>1. CASE c.stage = "edit" BY <2>6, <3>1 DEF Unheard, Handled
    <3>2. CASE c.stage # "edit"
      BY <2>1, <2>2, <3>2, AfterFlow DEF Writing, Handled
    <3> QED BY <3>1, <3>2
  <2>8. Unheard(d) BY <2>5, <2>6, <2>7, FlowUnheard
  <2>9. d \in Frame /\ d.node = c.node /\ d.phase = "load" BY <2>5 DEF Flow, Same
  <2> HIDE DEF d
  <2>10. ASSUME NEW e \in Frame, Lifted(d, e) PROVE Unheard(e)
    <3>1. /\ e.from = d.from /\ e.stage = d.stage /\ e.phase = d.phase
          /\ e.snap = d.snap /\ e.defied = d.defied /\ (e.barred => d.barred)
      BY <2>9, <2>10, LiftedSame
    <3> QED BY <2>8, <3>1 DEF Unheard
  <2> QED BY <2>1, <2>4, <2>9, <2>10, SaveBinds
<1> QED BY <1>1, <1>2

(* A call that is made is barred as the rules of its node say, and goes    *)
(* to them first.                                                          *)
LEMMA CallBinds ==
  ASSUME Setting, Typed, RulesBind, NEW f \in FrameId, Active(f), NEW m \in Node, NEW r \in Req,
         NEW g \in FrameId, NEW w \in Frame, NEW d \in Frame,
         CallMade(f, g, frame[f], w, d, m, r), OnlyFrames
  PROVE  RulesBind'
<1> DEFINE b == frame[f]
<1>1. /\ ~Active(g) /\ frame' = [frame EXCEPT ![f] = w, ![g] = d]
      /\ w.node = b.node /\ w.from = b.from /\ w.barred = b.barred
      /\ ~w.defied /\ w.stage = "wait"
      /\ d.node = m /\ d.from = b.node /\ d.barred = (b.node \in routeState[m].denyIn)
      /\ ~d.defied /\ d.stage = "inbound"
  BY DEF CallMade, Waiting, Incoming, RulesBind, Unheard
<1>b. Barring(b) BY DEF RulesBind
<1> HIDE DEF b
<1>2. frame'[f] = w /\ frame'[g] = d /\ \A h \in FrameId \ {f, g} : frame'[h] = frame[h]
  BY <1>1 DEF Typed
<1>3. Unheard(w) /\ Unheard(d) BY <1>1 DEF Unheard, Handled
<1>4. routeState' = routeState BY DEF OnlyFrames
<1>5. Barring(w)' /\ Barring(d)' BY <1>1, <1>b, <1>4 DEF Barring
<1> QED BY <1>2, <1>3, <1>4, <1>5 DEF RulesBind, Active, Barring

(* executeRouted and learn keep RulesBind.                                 *)
LEMMA CallsBind ==
  ASSUME Setting, Typed, RulesBind, NEW f \in FrameId, executeRouted(f) \/ learn(f)
  PROVE  RulesBind'
<1>1. CASE executeRouted(f)
  <2> DEFINE c == frame[f]
             here == [c EXCEPT !.req = c.req.inner]
  <2>1. At(f, "route") /\ OnlyFrames BY <1>1, ExecutedIs
  <2>2. Active(f) /\ c \in Frame /\ Rooted(c) BY <2>1, ActiveFrame DEF At
  <2>3. ~c.barred /\ ~c.defied BY <2>1 DEF RulesBind, Unheard, Handled, At
  <2>4. \/ RunsInner(f, here)
        \/ Moves(f, Answered(c, Error))
        \/ \E d \in Frame, dst \in Node : CallsOn(f, d, dst)
    BY <1>1, ExecutedIs
  <2> HIDE DEF here
  <2>5. CASE RunsInner(f, here)
    <3> DEFINE d == invokeHandler(here)
    <3>0. /\ here \in Frame /\ Fresh(here)
          /\ here.node = c.node
          /\ here.from = c.from /\ here.barred = c.barred /\ here.defied = c.defied
          /\ Moves(f, invokeHandler(here))
      BY <2>5 DEF RunsInner
    <3>1. Flow(here, d) BY <3>0, InvokeFlow
    <3> HIDE DEF d
    <3>2. ~d.barred /\ ~d.defied /\ d \in Frame /\ d.node = c.node /\ d.from = c.from /\ d.barred = c.barred
      BY <2>3, <3>0, <3>1 DEF Flow, Same
    <3>3. Unheard(d) BY <3>2 DEF Unheard
    <3>4. frame' = [frame EXCEPT ![f] = d] /\ routeState' = routeState
      BY <2>1, <3>0 DEF Moves, OnlyFrames, d
    <3> QED BY <2>2, <3>2, <3>3, <3>4, MoveBinds
  <2>6. CASE Moves(f, Answered(c, Error)) BY <2>1, <2>2, <2>6, FailBinds
  <2>7. CASE \E d \in Frame, dst \in Node : CallsOn(f, d, dst)
    <3>1. PICK d \in Frame :
            /\ d.node = c.node /\ d.from = c.from /\ d.defied = c.defied /\ d.barred = c.barred
            /\ Moves(f, d)
      BY <2>7 DEF CallsOn
    <3>2. Unheard(d) BY <2>3, <3>1 DEF Unheard
    <3> QED BY <2>1, <2>2, <3>1, <3>2, MoveBinds DEF Moves, OnlyFrames
  <2> QED BY <2>4, <2>5, <2>6, <2>7
<1>2. CASE learn(f)
  <2> DEFINE c == frame[f]
  <2>1. At(f, "learn") /\ OnlyFrames BY <1>2, LearnIs
  <2>2. PICK d \in Frame :
          /\ d.node = c.node /\ d.from = c.from /\ d.defied = c.defied /\ d.barred = c.barred
          /\ Moves(f, d)
    BY <1>2, LearnIs
  <2>3. ~c.barred /\ ~c.defied BY <2>1 DEF RulesBind, Unheard, Handled, At
  <2>4. Unheard(d) BY <2>2, <2>3 DEF Unheard
  <2> QED BY <2>1, <2>2, <2>4, MoveBinds DEF Moves, OnlyFrames, At
<1> QED BY <1>1, <1>2

(* The call of another node keeps RulesBind.                               *)
LEMMA CalledBinds ==
  ASSUME Setting, Typed, RulesBind, NEW f \in FrameId, callDetailed(f)
  PROVE  RulesBind'
<1> DEFINE c == frame[f]
           m == c.to
           r == Outgoing(c)
<1>1. /\ Active(f) /\ c \in Frame /\ Rooted(c) /\ m \in Node /\ OnlyFrames
      /\ c.req.method \in {"exec", "learn"}
      /\ \/ Moves(f, Answered(c, Error))
         \/ \E g \in FrameId, w, d \in Frame : CallMade(f, g, c, w, d, m, r)
  BY CalledOut
<1>2. r \in Req BY <1>1, OutgoingIs
<1> HIDE DEF m, r
<1>3. CASE Moves(f, Answered(c, Error)) BY <1>1, <1>3, FailBinds
<1>4. CASE \E g \in FrameId, w, d \in Frame : CallMade(f, g, c, w, d, m, r)
  BY <1>1, <1>2, <1>4, CallBinds
<1> QED BY <1>1, <1>3, <1>4

(* Return keeps RulesBind.                                                 *)
LEMMA ReturnBinds ==
  ASSUME Setting, Typed, RulesBind, NEW f \in FrameId, Return(f)
  PROVE  RulesBind'
<1>1. routeState' = routeState BY ReturnIs DEF OnlyFrames
<1>2. CASE frame' = [frame EXCEPT ![f] = Idle]
  <2>1. frame'[f] = Idle /\ \A g \in FrameId \ {f} : frame'[g] = frame[g] BY <1>2 DEF Typed
  <2> QED BY <1>1, <2>1 DEF RulesBind, Active, Barring
<1>3. CASE \E p \in FrameId, d \in Frame :
             /\ Child(f, p) /\ Resumed(frame[p], d, frame[f].answer)
             /\ frame' = [frame EXCEPT ![f] = Idle, ![p] = d]
  <2>1. PICK p \in FrameId, d \in Frame :
             /\ Child(f, p) /\ Resumed(frame[p], d, frame[f].answer)
             /\ frame' = [frame EXCEPT ![f] = Idle, ![p] = d]
    BY <1>3
  <2>2. p # f /\ Active(p) BY <2>1 DEF Typed, Waited, At
  <2>3. /\ frame'[f] = Idle /\ frame'[p] = d
        /\ \A g \in FrameId \ {f, p} : frame'[g] = frame[g]
    BY <2>1, <2>2 DEF Typed
  <2>4. /\ d.node = frame[p].node /\ d.from = frame[p].from /\ d.barred = frame[p].barred
        /\ d.defied = frame[p].defied /\ d.stage \in {"answer", "outbound"}
    BY <2>1 DEF Resumed, Same
  <2>5. Barring(frame[p]) /\ Unheard(frame[p]) BY <2>2 DEF RulesBind
  <2>6. Unheard(d) BY <2>4, <2>5 DEF Unheard, Handled
  <2>7. Barring(d)' BY <1>1, <2>4, <2>5 DEF Barring
  <2> QED BY <1>1, <2>3, <2>6, <2>7 DEF RulesBind, Active, Barring
<1> QED BY <1>2, <1>3, ReturnIs

(* GiveUp keeps RulesBind.                                                 *)
LEMMA GiveUpBinds ==
  ASSUME Setting, Typed, RulesBind, NEW f \in FrameId, GiveUp(f)
  PROVE  RulesBind'
<1>1. Active(f) /\ routeState' = routeState BY GiveUpIs
<1>2. PICK p \in FrameId, a \in Frame, d \in Frame :
        /\ Child(f, p) /\ frame' = [frame EXCEPT ![f] = a, ![p] = d]
        /\ a = [frame[f] EXCEPT !.parent = Idle]
        /\ Flow(frame[p], d) /\ d.defied = frame[p].defied /\ d.stage = "answer"
  BY GiveUpIs
<1>3. p # f /\ Active(p) BY <1>2 DEF Typed, Waited, At
<1>4. /\ frame'[f] = a /\ frame'[p] = d
      /\ \A g \in FrameId \ {f, p} : frame'[g] = frame[g]
  BY <1>2, <1>3 DEF Typed
<1>5. /\ Barring(frame[p]) /\ Unheard(frame[p]) /\ Barring(frame[f]) /\ Unheard(frame[f])
  BY <1>1, <1>3 DEF RulesBind
<1>6. Unheard(d) BY <1>2, <1>5, FlowUnheard DEF Handled
<1>7. Barring(d)' BY <1>1, <1>2, <1>5 DEF Barring, Flow, Same
<1>8. frame[f] \in Frame BY <1>1, ActiveFrame
<1>9. /\ a.node = frame[f].node /\ a.from = frame[f].from /\ a.stage = frame[f].stage
      /\ a.phase = frame[f].phase /\ a.snap = frame[f].snap
      /\ a.barred = frame[f].barred /\ a.defied = frame[f].defied
  BY <1>2, <1>8, OrphanIs
<1>10. Unheard(a) BY <1>5, <1>9 DEF Unheard
<1>11. Barring(a)' BY <1>1, <1>5, <1>9 DEF Barring
<1> QED BY <1>1, <1>4, <1>6, <1>7, <1>10, <1>11 DEF RulesBind, Active, Barring

(* Request keeps RulesBind: operators are no nodes, and no rule bars       *)
(* them.                                                                   *)
LEMMA RequestBinds ==
  ASSUME Setting, Typed, RulesBind, NEW f \in FrameId, Request(f)
  PROVE  RulesBind'
<1>1. ~Active(f) /\ routeState' = routeState BY RequestIs
<1>2. PICK r \in Requests, c \in Frame, d \in Frame :
        /\ frame' = [frame EXCEPT ![f] = d]
        /\ Incoming(c, r.node, NoNode, r.node, r.auth, r.req, Idle, <<>>)
        /\ Fresh(c) /\ d = dispatch(c)
  BY RequestIs
<1>3. r.node \in Node /\ routeState[r.node] \in RouteState BY DEF Setting, Typed
<1>4. NoNode \notin routeState[r.node].denyIn BY <1>3, RouteFields DEF Setting
<1>5. ~c.barred /\ ~c.defied BY <1>2, <1>4 DEF Incoming
<1>6. Flow(c, d) BY <1>2, DispatchFlow
<1>7. ~d.barred /\ ~d.defied BY <1>5, <1>6 DEF Flow, Same
<1>8. frame'[f] = d /\ \A g \in FrameId \ {f} : frame'[g] = frame[g] BY <1>2 DEF Typed
<1> QED BY <1>1, <1>7, <1>8 DEF RulesBind, Active, Barring, Unheard

(* LoadRouteState keeps RulesBind.                                         *)
LEMMA LoadBinds ==
  ASSUME Setting, Typed, RulesBind, NEW f \in FrameId, LoadRouteState(f)
  PROVE  RulesBind'
<1>0. Active(f) /\ frame[f].stage \in Writing /\ frame[f].phase = "load"
  BY DEF LoadRouteState, InOrder
<1>2. PICK s \in RouteState : s = Loaded(f) BY <1>0, LoadedIs
<1> DEFINE d == [frame[f] EXCEPT !.phase = "use", !.snap = s]
<1>d. Loads(frame[f], d, "use", s) BY DEF Loads
<1>1. /\ Active(f) /\ frame[f].stage \in Writing /\ frame[f].phase = "load"
      /\ Moves(f, d) /\ routeState' = routeState
  BY <1>0, <1>2 DEF LoadRouteState, OnlyFrames
<1> HIDE DEF d
<1>3. d \in Frame /\ Same(frame[f], d) /\ d.stage = frame[f].stage /\ d.defied = frame[f].defied
  BY <1>1, <1>d, LoadIs
<1>4. Unheard(d)
  <2>1. Unheard(frame[f]) BY <1>1 DEF RulesBind
  <2> QED BY <1>1, <1>3, <2>1 DEF Unheard, Same, Writing
<1> QED BY <1>1, <1>3, <1>4, MoveBinds DEF Same, Moves

(* FindExpired keeps RulesBind.                                            *)
LEMMA FindBinds ==
  ASSUME Setting, Typed, RulesBind, NEW f \in FrameId, FindExpired(f)
  PROVE  RulesBind'
<1>1. Active(f) /\ routeState' = routeState BY FindIs
<1>2. PICK s \in RouteState :
        frame' = [frame EXCEPT ![f] = [frame[f] EXCEPT !.phase = "prune", !.snap = s]]
  BY FindIs
<1> DEFINE d == [frame[f] EXCEPT !.phase = "prune", !.snap = s]
<1>d. Loads(frame[f], d, "prune", s) BY DEF Loads
<1>3. frame' = [frame EXCEPT ![f] = d] BY <1>2
<1> HIDE DEF d
<1>4. /\ d \in Frame /\ Same(frame[f], d) /\ d.stage = frame[f].stage
      /\ d.defied = frame[f].defied /\ d.phase = "prune"
  BY <1>1, <1>d, LoadIs
<1>5. Unheard(d)
  <2>1. Unheard(frame[f]) BY <1>1 DEF RulesBind
  <2> QED BY <1>4, <2>1 DEF Unheard, Same
<1> QED BY <1>1, <1>4, <1>3, <1>5, MoveBinds DEF Same

(* Every step keeps RulesBind.                                             *)
LEMMA NextBinds ==
  ASSUME Setting, Typed, RulesBind, Next
  PROVE  RulesBind'
<1>1. ASSUME NEW f \in FrameId, FrameStep(f) PROVE RulesBind'
  <2>1. CASE LoadRouteState(f) BY <2>1, LoadBinds
  <2>2. CASE FindExpired(f) BY <2>2, FindBinds
  <2>3. CASE SavePruned(f) \/ SaveRouteState(f) BY <2>3, SavesBind
  <2>4. CASE enforceInboundRoutePolicy(f)
    <3>1. At(f, "enforce") /\ OnlyFrames BY <2>4, EnforceIs
    <3>2. PICK d : /\ Moves(f, d) /\ Flow(frame[f], d)
                   /\ \/ d.defied = frame[f].defied /\ d.stage = "answer"
                      \/ frame[f].from \notin Loaded(f).denyIn
      BY <2>4, EnforceIs
    <3>3. frame[f].phase \in {"load", "use"}
      BY <2>4 DEF enforceInboundRoutePolicy, Reads, InOrder
    <3>4. frame[f].barred => frame[f].from \in Loaded(f).denyIn
      BY <3>1, <3>3 DEF RulesBind, Unheard, Barring, Loaded, At
    <3> QED BY <3>1, <3>2, <3>4, FlowBinds DEF At, Handled
  <2>5. CASE authorizeRpc(f)
    <3>1. /\ At(f, "authorize") /\ routeState' = routeState
          /\ \/ UNCHANGED frame
             \/ \E d : Moves(f, d) /\ Flow(frame[f], d)
      BY <2>5, AuthorizeIs
    <3>2. ~frame[f].barred BY <3>1 DEF RulesBind, Unheard, Handled, At
    <3>3. CASE UNCHANGED frame BY <3>1, <3>3 DEF RulesBind, Active, Barring
    <3>4. CASE \E d : Moves(f, d) /\ Flow(frame[f], d)
      <4>1. PICK d : Moves(f, d) /\ Flow(frame[f], d) BY <3>4
      <4>2. Unheard(d) BY <3>1, <3>2, <4>1, FlowUnheard DEF RulesBind, At
      <4>3. d \in Frame /\ d.node = frame[f].node /\ d.from = frame[f].from /\ d.barred = frame[f].barred
        BY <4>1 DEF Flow, Same
      <4> QED BY <3>1, <4>1, <4>2, <4>3, MoveBinds DEF Moves, At
    <3> QED BY <3>1, <3>3, <3>4
  <2>6. CASE listPeerSummaries(f)
    <3>1. At(f, "peers") /\ OnlyFrames BY <2>6, PeersIs
    <3>2. PICK a \in Answer : Moves(f, Answered(frame[f], a)) BY <2>6, PeersIs
    <3>3. Flow(frame[f], Answered(frame[f], a)) BY <3>1, ActiveFrame, AnsweredFlow DEF At
    <3>4. ~frame[f].barred BY <3>1 DEF RulesBind, Unheard, Handled, At
    <3> QED BY <3>1, <3>2, <3>3, <3>4, FlowBinds DEF At
  <2>7. CASE executeRouted(f) \/ learn(f) BY <2>7, CallsBind
  <2>8. CASE LearnNext(f)
    <3>1. At(f, "peek") /\ OnlyFrames BY <2>8, NextIs
    <3>2. PICK d : /\ Moves(f, d) /\ Flow(frame[f], d) /\ d.defied = frame[f].defied
                   /\ d.stage \in {"peek", "learnt", "answer"}
      BY <2>8, NextIs
    <3>3. d.stage \notin Handled BY <3>2 DEF Handled
    <3> QED BY <3>1, <3>2, <3>3, FlowBinds DEF At
  <2>9. CASE Return(f) BY <2>9, ReturnBinds
  <2>10. CASE callDetailed(f) BY <2>10, CalledBinds
  <2> QED BY <1>1, <2>1, <2>2, <2>3, <2>4, <2>5, <2>6, <2>7, <2>8, <2>9, <2>10 DEF FrameStep
<1>2. CASE \E f \in FrameId : Request(f) BY <1>2, RequestBinds
<1>3. CASE \E f \in FrameId : GiveUp(f) BY <1>3, GiveUpBinds
<1>4. CASE \/ \E f \in FrameId : WithIam(CheckStep(f))
           \/ \E a \in Admin : WithIam(AdminStep(a))
  <2>1. UNCHANGED callVars BY <1>4, QuietIs
  <2> QED BY <2>1 DEF callVars, RulesBind, Active, Barring
<1> QED BY <1>1, <1>2, <1>3, <1>4 DEF Next

(* A node runs nothing for a caller that a rule of its own bars from the   *)
(* time the call came in until it would be run, whichever records other    *)
(* calls write meanwhile.                                                  *)
THEOREM DenyInHoldsAlways == ASSUME Setting PROVE Spec => []DenyInHolds
<1>1. Init => RulesBind BY DEF Init, RulesBind, Active
<1>2. RulesBind /\ UNCHANGED vars => RulesBind'
  BY DEF vars, callVars, RulesBind, Active, Barring
<1>3. Typed /\ RulesBind /\ Next => RulesBind' BY NextBinds
<1>4. RulesBind => DenyInHolds BY DEF RulesBind, DenyInHolds, Unheard
<1> QED BY <1>1, <1>2, <1>3, <1>4, AlwaysTyped, PTL DEF Spec

-----------------------------------------------------------------------------
(* Where the call is, what way it has come and what it asks for stay.      *)
Kin(c, d) == d.node = c.node /\ d.trail = c.trail /\ d.req = c.req

(* The call g is there, and stays what it is.                              *)
Stays(g) == Active(g) /\ Kin(frame[g], frame'[g])

(* The call g runs what its exec carries.                                  *)
RunsHere(g) ==
  LET c == frame[g] IN
  /\ At(g, "route") /\ c.req \in Execs /\ c.req.dst \in {NoNode, c.node}
  /\ frame'[g].node = c.node /\ frame'[g].trail = c.trail /\ frame'[g].req = c.req.inner

(* The call g passes its exec on, and now knows where to.                  *)
IsSent(g) ==
  LET c == frame[g] IN
  /\ At(g, "route") /\ c.req \in Execs
  /\ frame'[g].node = c.node /\ frame'[g].trail = c.trail
  /\ \E dst \in Node \ {c.node} : frame'[g].req = [c.req EXCEPT !.dst = dst]

(* The call g comes from an operator or an application.                    *)
IsAsked(g) ==
  LET d == frame'[g] IN
  /\ ~Active(g) /\ d.trail = <<d.node>>
  /\ \E r \in Requests : d.req = r.req

(* The call g is made by another: by learn, by exec for what it carries,   *)
(* or by exec over a proxy.                                                *)
IsCalled(g) ==
  LET d == frame'[g] IN
  /\ ~Active(g)
  /\ \E p \in FrameId :
       LET c == frame[p] IN
       /\ At(p, "call") /\ d.node = c.to /\ d.trail = Append(c.trail, d.node)
       /\ \/ c.req.method = "learn" /\ d.req = [method |-> "peers"]
          \/ c.req \in Execs /\ ~c.proxied /\ d.req = c.req.inner
          \/ /\ c.req \in Execs /\ c.proxied /\ c.req.hop = 0 /\ c.req.dst \in Node
             /\ d.req = Exec(c.req.dst, 1, Append(c.req.path, c.node), c.req.inner)

(* How a call comes about.                                                 *)
Comes(g) == Stays(g) \/ RunsHere(g) \/ IsSent(g) \/ IsAsked(g) \/ IsCalled(g)

(* One call moves.                                                         *)
LEMMA MoveComes ==
  ASSUME Setting, Typed, NEW f \in FrameId, NEW d,
         frame' = [frame EXCEPT ![f] = d], Comes(f)
  PROVE  \A g \in FrameId : Active(g)' => Comes(g)
<1>1. \A g \in FrameId \ {f} : frame'[g] = frame[g] BY DEF Typed
<1> QED BY <1>1 DEF Comes, Stays, Kin, Active

(* One call moves, and stays what it is.                                   *)
LEMMA KinComes ==
  ASSUME Setting, Typed, NEW f \in FrameId, Active(f), NEW d, Kin(frame[f], d),
         frame' = [frame EXCEPT ![f] = d]
  PROVE  \A g \in FrameId : Active(g)' => Comes(g)
<1>1. frame'[f] = d BY DEF Typed
<1>2. Comes(f) BY <1>1 DEF Comes, Stays
<1> QED BY <1>2, MoveComes

(* A record is written, and every call stays what it is.                   *)
LEMMA SaveComes ==
  ASSUME Setting, Typed, NEW f \in FrameId, Active(f), NEW s \in RouteState,
         NEW c \in Frame, Kin(frame[f], c), Save(f, s, c)
  PROVE  \A g \in FrameId : Active(g)' => Comes(g)
<1>1. c.node = frame[f].node BY DEF Kin
<1>2. /\ Lifted(c, frame'[f])
      /\ \A g \in FrameId \ {f} : Active(g) => Lifted(frame[g], frame'[g])
      /\ \A g \in FrameId \ {f} : ~Active(g) => ~Active(g)'
  BY <1>1, SaveIs
<1>3. ASSUME NEW g \in FrameId, Active(g)' PROVE Stays(g)
  <2>1. CASE g = f BY <1>2, <2>1, LiftedSame DEF Stays, Kin
  <2>2. CASE g # f BY <1>2, <1>3, <2>2, ActiveFrame, LiftedSame DEF Stays, Kin
  <2> QED BY <2>1, <2>2
<1> QED BY <1>3 DEF Comes

(* What a call that is made, and its caller, ask for and have behind       *)
(* them.                                                                   *)
LEMMA CallComes ==
  ASSUME Setting, Typed, NEW f \in FrameId, Active(f), NEW b \in Frame, NEW m \in Node,
         NEW r \in Req, NEW g \in FrameId, NEW w \in Frame, NEW d \in Frame,
         CallMade(f, g, b, w, d, m, r)
  PROVE  /\ frame'[f].node = b.node /\ frame'[f].trail = b.trail /\ frame'[f].req = b.req
         /\ ~Active(g) /\ frame'[g].node = m /\ frame'[g].trail = Append(b.trail, m)
         /\ frame'[g].req = r
         /\ \A h \in FrameId \ {f, g} : frame'[h] = frame[h]
<1>1. /\ ~Active(g) /\ frame' = [frame EXCEPT ![f] = w, ![g] = d]
      /\ w.node = b.node /\ w.trail = b.trail /\ w.req = b.req
      /\ d.node = m /\ d.trail = Append(b.trail, m) /\ d.req = r
  BY DEF CallMade, Waiting, Incoming
<1>2. frame'[f] = w /\ frame'[g] = d /\ \A h \in FrameId \ {f, g} : frame'[h] = frame[h]
  BY <1>1 DEF Typed
<1> QED BY <1>1, <1>2

(* learn makes the call that it is going to make.                          *)
LEMMA LearnComes ==
  ASSUME Setting, Typed, NEW f \in FrameId, learn(f)
  PROVE  \A g \in FrameId : Active(g)' => Comes(g)
<1>1. Active(f) BY LearnIs DEF At
<1>2. PICK d \in Frame : Kin(frame[f], d) /\ Moves(f, d) BY LearnIs DEF Kin
<1> QED BY <1>1, <1>2, KinComes DEF Moves

(* How a call of another node comes about.                                 *)
LEMMA CalledComes ==
  ASSUME Setting, Typed, NEW f \in FrameId, callDetailed(f)
  PROVE  \A g \in FrameId : Active(g)' => Comes(g)
<1> DEFINE c == frame[f]
           m == c.to
           r == Outgoing(c)
<1>1. /\ Active(f) /\ c \in Frame /\ Rooted(c) /\ c.stage = "call" /\ m \in Node
      /\ c.req.method \in {"exec", "learn"}
      /\ \/ Moves(f, Answered(c, Error))
         \/ \E g \in FrameId, w, d \in Frame : CallMade(f, g, c, w, d, m, r)
  BY CalledOut
<1>2. /\ r \in Req
      /\ c.req.method = "learn" => r = [method |-> "peers"]
      /\ c.proxied => r = Exec(c.req.dst, 1, Append(c.req.path, c.node), c.req.inner)
      /\ c.req.method = "exec" /\ ~c.proxied => r = c.req.inner
  BY <1>1, OutgoingIs
<1>3. c.req.method = "exec" => c.req \in Execs BY <1>1, FrameFields, Methods
<1> HIDE DEF r, m
<1>4. CASE Moves(f, Answered(c, Error))
  <2>1. Kin(c, Answered(c, Error)) BY <1>1, FailsFlow DEF Flow, Same, Kin
  <2> QED BY <1>1, <1>4, <2>1, KinComes DEF Moves
<1>5. CASE \E g \in FrameId, w, d \in Frame : CallMade(f, g, c, w, d, m, r)
  <2>1. PICK g \in FrameId, w \in Frame, d \in Frame : CallMade(f, g, c, w, d, m, r) BY <1>5
  <2>2. /\ frame'[f].node = c.node /\ frame'[f].trail = c.trail /\ frame'[f].req = c.req
        /\ ~Active(g) /\ frame'[g].node = m /\ frame'[g].trail = Append(c.trail, m)
        /\ frame'[g].req = r
        /\ \A h \in FrameId \ {f, g} : frame'[h] = frame[h]
    BY <1>1, <1>2, <2>1, CallComes
  <2>3. Stays(f) BY <1>1, <2>2 DEF Stays, Kin
  <2>4. IsCalled(g)
    <3>1. \/ c.req.method = "learn" /\ r = [method |-> "peers"]
          \/ c.req \in Execs /\ ~c.proxied /\ r = c.req.inner
          \/ /\ c.req \in Execs /\ c.proxied /\ c.req.hop = 0 /\ c.req.dst \in Node
             /\ r = Exec(c.req.dst, 1, Append(c.req.path, c.node), c.req.inner)
      BY <1>1, <1>2, <1>3 DEF Rooted
    <3>2. At(f, "call") /\ m = c.to BY <1>1 DEF At, m
    <3> QED BY <2>2, <3>1, <3>2 DEF IsCalled
  <2>5. \A h \in FrameId \ {f, g} : Active(h)' => Stays(h) BY <2>2 DEF Stays, Kin, Active
  <2> QED BY <2>3, <2>4, <2>5 DEF Comes
<1> QED BY <1>1, <1>4, <1>5

(* How executeRouted passes a call on.                                     *)
LEMMA ExecutedComes ==
  ASSUME Setting, Typed, NEW f \in FrameId, executeRouted(f)
  PROVE  \A g \in FrameId : Active(g)' => Comes(g)
<1> DEFINE c == frame[f]
           here == [c EXCEPT !.req = c.req.inner]
<1>1. At(f, "route") /\ c.req \in Execs BY ExecutedIs
<1>2. Active(f) /\ c \in Frame /\ Rooted(c) /\ Staged(c) BY <1>1, ActiveFrame DEF At
<1>3. CASE Moves(f, Answered(c, Error))
  <2>1. Kin(c, Answered(c, Error)) BY <1>2, FailsFlow DEF Flow, Same, Kin
  <2> QED BY <1>2, <1>3, <2>1, KinComes DEF Moves
<1>4. CASE /\ c.req.dst \in {NoNode, c.node} /\ here \in Frame /\ Fresh(here)
           /\ here.node = c.node /\ here.trail = c.trail /\ here.req = c.req.inner
           /\ Moves(f, invokeHandler(here))
  <2> HIDE DEF here
  <2>1. Kin(here, invokeHandler(here)) BY <1>4, InvokeFlow DEF Flow, Same, Kin
  <2>2. frame' = [frame EXCEPT ![f] = invokeHandler(here)] BY <1>4 DEF Moves
  <2>3. frame'[f] = invokeHandler(here) BY <2>2 DEF Typed
  <2>4. RunsHere(f) BY <1>1, <1>4, <2>1, <2>3 DEF RunsHere, Kin
  <2> QED BY <2>2, <2>4, MoveComes DEF Comes
<1>6. \/ RunsInner(f, here)
      \/ Moves(f, Answered(c, Error))
      \/ \E d \in Frame, dst \in Node : CallsOn(f, d, dst)
  BY ExecutedIs
<1> HIDE DEF here
<1>7. CASE RunsInner(f, here) BY <1>4, <1>7 DEF RunsInner
<1>8. CASE \E d \in Frame, dst \in Node : CallsOn(f, d, dst)
  <2>1. PICK d \in Frame, dst \in Node :
          /\ d.node = c.node /\ d.trail = c.trail
          /\ d.req = [c.req EXCEPT !.dst = dst] /\ dst # c.node
          /\ Moves(f, d)
    BY <1>8 DEF CallsOn
  <2>2. frame' = [frame EXCEPT ![f] = d] BY <2>1 DEF Moves
  <2>3. frame'[f] = d BY <2>2 DEF Typed
  <2>4. IsSent(f) BY <1>1, <2>1, <2>3 DEF IsSent
  <2> QED BY <2>2, <2>4, MoveComes DEF Comes
<1> QED BY <1>3, <1>6, <1>7, <1>8

(* Every call comes about in one of these ways, whatever the step.         *)
LEMMA NextComes ==
  ASSUME Setting, Typed, Next
  PROVE  \A g \in FrameId : Active(g)' => Comes(g)
<1>1. ASSUME NEW f \in FrameId, FrameStep(f) PROVE \A g \in FrameId : Active(g)' => Comes(g)
  <2>0. ASSUME NEW d, Active(f), Flow(frame[f], d), Moves(f, d)
        PROVE  \A g \in FrameId : Active(g)' => Comes(g)
    BY <2>0, KinComes DEF Flow, Same, Kin, Moves
  <2>1. CASE LoadRouteState(f)
    <3>0. Active(f) /\ frame[f].phase = "load" BY <2>1 DEF LoadRouteState, InOrder
    <3>1. PICK s \in RouteState : s = Loaded(f) BY <3>0, LoadedIs
    <3> DEFINE d == [frame[f] EXCEPT !.phase = "use", !.snap = s]
    <3>d. Loads(frame[f], d, "use", s) BY DEF Loads
    <3>2. frame' = [frame EXCEPT ![f] = d] BY <2>1, <3>1 DEF LoadRouteState, Moves
    <3> HIDE DEF d
    <3>3. Same(frame[f], d) BY <3>0, <3>d, LoadIs
    <3> QED BY <3>0, <3>2, <3>3, KinComes DEF Same, Kin
  <2>2. CASE FindExpired(f)
    <3>1. Active(f) BY <2>2, FindIs
    <3>2. PICK s \in RouteState :
            frame' = [frame EXCEPT ![f] = [frame[f] EXCEPT !.phase = "prune", !.snap = s]]
      BY <2>2, FindIs
    <3> DEFINE d == [frame[f] EXCEPT !.phase = "prune", !.snap = s]
    <3>d. Loads(frame[f], d, "prune", s) BY DEF Loads
    <3>3. frame' = [frame EXCEPT ![f] = d] BY <3>2
    <3> HIDE DEF d
    <3>4. Same(frame[f], d) BY <3>1, <3>d, LoadIs
    <3> QED BY <3>1, <3>4, <3>3, KinComes DEF Same, Kin
  <2>3. CASE SavePruned(f)
    <3> DEFINE d == [frame[f] EXCEPT !.phase = "use"]
    <3>1. /\ Active(f) /\ frame[f].snap \in RouteState /\ Save(f, frame[f].snap, d)
          /\ d \in Frame /\ Same(frame[f], d)
      BY <2>3, PruneIs
    <3> HIDE DEF d
    <3> QED BY <3>1, SaveComes DEF Same, Kin
  <2>4. CASE SaveRouteState(f)
    <3> DEFINE c == frame[f]
    <3>1. Active(f) /\ c.stage \in Writing /\ c.phase = "use" /\ Save(f, Mutated(c), After(c))
      BY <2>4 DEF SaveRouteState
    <3>2. c \in Frame /\ Staged(c) BY <3>1, ActiveFrame
    <3>3. c.snap \in RouteState BY <3>1, <3>2 DEF Staged
    <3>4. Mutated(c) \in RouteState BY <3>1, <3>2, <3>3, MutatedIs
    <3>5. Flow(c, After(c)) BY <3>1, <3>2, AfterFlow
    <3> QED BY <3>1, <3>4, <3>5, SaveComes DEF Flow, Same, Kin
  <2>5. CASE enforceInboundRoutePolicy(f) BY <2>0, <2>5, EnforceIs DEF At
  <2>6. CASE authorizeRpc(f)
    <3>1. /\ At(f, "authorize")
          /\ \/ UNCHANGED frame
             \/ \E d : Moves(f, d) /\ Flow(frame[f], d)
      BY <2>6, AuthorizeIs
    <3>2. CASE UNCHANGED frame BY <3>2 DEF Comes, Stays, Kin, Active
    <3>3. CASE \E d : Moves(f, d) /\ Flow(frame[f], d) BY <2>0, <3>1, <3>3 DEF At
    <3> QED BY <3>1, <3>2, <3>3
  <2>7. CASE listPeerSummaries(f)
    <3>1. At(f, "peers") BY <2>7, PeersIs
    <3>2. PICK a \in Answer : Moves(f, Answered(frame[f], a)) BY <2>7, PeersIs
    <3>3. Flow(frame[f], Answered(frame[f], a)) BY <3>1, ActiveFrame, AnsweredFlow DEF At
    <3> QED BY <2>0, <3>1, <3>2, <3>3 DEF At
  <2>8. CASE executeRouted(f) BY <2>8, ExecutedComes
  <2>9. CASE learn(f) BY <2>9, LearnComes
  <2>10. CASE LearnNext(f) BY <2>0, <2>10, NextIs DEF At
  <2>11. CASE Return(f)
    <3>1. CASE frame' = [frame EXCEPT ![f] = Idle]
      <4>1. frame'[f] = Idle /\ \A g \in FrameId \ {f} : frame'[g] = frame[g] BY <3>1 DEF Typed
      <4> QED BY <4>1 DEF Comes, Stays, Kin, Active
    <3>2. CASE \E p \in FrameId, d \in Frame :
                 /\ Child(f, p) /\ Resumed(frame[p], d, frame[f].answer)
                 /\ frame' = [frame EXCEPT ![f] = Idle, ![p] = d]
      <4>1. PICK p \in FrameId, d \in Frame :
                 /\ Child(f, p) /\ Resumed(frame[p], d, frame[f].answer)
                 /\ frame' = [frame EXCEPT ![f] = Idle, ![p] = d]
        BY <3>2
      <4>2. p # f /\ Active(p) BY <4>1 DEF Typed, Waited, At
      <4>3. /\ frame'[f] = Idle /\ frame'[p] = d
            /\ \A g \in FrameId \ {f, p} : frame'[g] = frame[g]
        BY <4>1, <4>2 DEF Typed
      <4>4. Kin(frame[p], d) BY <4>1 DEF Resumed, Same, Kin
      <4> QED BY <4>2, <4>3, <4>4 DEF Comes, Stays, Kin, Active
    <3> QED BY <2>11, <3>1, <3>2, ReturnIs
  <2>12. CASE callDetailed(f) BY <2>12, CalledComes
  <2> QED BY <1>1, <2>1, <2>2, <2>3, <2>4, <2>5, <2>6, <2>7, <2>8, <2>9, <2>10, <2>11, <2>12
     DEF FrameStep
<1>2. ASSUME NEW f \in FrameId, Request(f) PROVE \A g \in FrameId : Active(g)' => Comes(g)
  <2>1. PICK r \in Requests, c \in Frame, d \in Frame :
          /\ frame' = [frame EXCEPT ![f] = d]
          /\ Incoming(c, r.node, NoNode, r.node, r.auth, r.req, Idle, <<>>)
          /\ Fresh(c) /\ d = dispatch(c)
    BY <1>2, RequestIs
  <2>2. ~Active(f) BY <1>2, RequestIs
  <2>3. frame'[f] = d BY <2>1 DEF Typed
  <2>4. Flow(c, d) BY <2>1, DispatchFlow
  <2>5. c.trail = <<c.node>> /\ c.req = r.req BY <2>1 DEF Incoming
  <2>6. d.trail = <<d.node>> /\ d.req = r.req BY <2>4, <2>5 DEF Flow, Same
  <2>7. IsAsked(f) BY <2>2, <2>3, <2>6 DEF IsAsked
  <2> QED BY <2>1, <2>7, MoveComes DEF Comes
<1>3. ASSUME NEW f \in FrameId, GiveUp(f) PROVE \A g \in FrameId : Active(g)' => Comes(g)
  <2>1. Active(f) /\ frame[f] \in Frame BY <1>3, GiveUpIs, ActiveFrame
  <2>2. PICK p \in FrameId, a \in Frame, d \in Frame :
          /\ Child(f, p) /\ frame' = [frame EXCEPT ![f] = a, ![p] = d]
          /\ a = [frame[f] EXCEPT !.parent = Idle]
          /\ Flow(frame[p], d)
    BY <1>3, GiveUpIs
  <2>3. p # f /\ Active(p) BY <2>2 DEF Typed, Waited, At
  <2>4. /\ frame'[f] = a /\ frame'[p] = d
        /\ \A g \in FrameId \ {f, p} : frame'[g] = frame[g]
    BY <2>2, <2>3 DEF Typed
  <2>5. Kin(frame[p], d) BY <2>2 DEF Flow, Same, Kin
  <2>6. Kin(frame[f], a) BY <2>1, <2>2, OrphanIs DEF Kin
  <2> QED BY <2>1, <2>3, <2>4, <2>5, <2>6 DEF Comes, Stays, Active, Kin
<1>4. CASE \/ \E f \in FrameId : WithIam(CheckStep(f))
           \/ \E a \in Admin : WithIam(AdminStep(a))
  <2>1. UNCHANGED callVars BY <1>4, QuietIs
  <2> QED BY <2>1 DEF callVars, Comes, Stays, Kin, Active
<1> QED BY <1>1, <1>2, <1>3, <1>4 DEF Next

-----------------------------------------------------------------------------
(* What operators ask for does not say how far it has come, and what exec  *)
(* carries makes no calls of its own.                                      *)
Plain ==
  \A r \in Requests : r.req.method = "exec" =>
    /\ r.req.hop = 0 /\ r.req.path = <<>>
    /\ r.req.inner.method \notin {"exec", "learn"}

(* One more element.                                                       *)
LEMMA AppendLen ==
  ASSUME NEW S, NEW s \in Seq(S), NEW x
  PROVE  Len(Append(s, x)) = Len(s) + 1 /\ Len(s) \in Nat
OBVIOUS

(* How far a call has come: one node for each call, and one more for the   *)
(* proxy.                                                                  *)
Counted(c) ==
  /\ Len(c.trail) <= 3
  /\ c.req.method = "learn" => Len(c.trail) = 1
  /\ c.req.method = "exec" =>
       /\ c.req.inner.method \notin {"exec", "learn"}
       /\ \/ c.req.hop = 0 /\ Len(c.trail) = 1
          \/ c.req.hop = 1 /\ Len(c.trail) = 2

(* Every call is so.                                                       *)
AllCounted == \A f \in FrameId : Active(f) => Counted(frame[f])

(* Every step keeps the calls counted.                                     *)
LEMMA NextCounted ==
  ASSUME Setting, Plain, Typed, AllCounted, Next
  PROVE  AllCounted'
<1> SUFFICES ASSUME NEW g \in FrameId, Active(g)' PROVE Counted(frame'[g])
  BY DEF AllCounted
<1>1. CASE Stays(g) BY <1>1 DEF Stays, Kin, AllCounted, Counted
<1>2. CASE RunsHere(g)
  <2>1. Counted(frame[g]) /\ frame[g].req.method = "exec"
    BY <1>2 DEF RunsHere, AllCounted, At, Execs
  <2> QED BY <1>2, <2>1 DEF RunsHere, Counted
<1>3. CASE IsSent(g)
  <2>1. Counted(frame[g]) /\ frame[g].req \in Execs BY <1>3 DEF IsSent, AllCounted, At
  <2>2. PICK dst \in Node : frame'[g].req = [frame[g].req EXCEPT !.dst = dst] BY <1>3 DEF IsSent
  <2>3. /\ frame'[g].req.method = frame[g].req.method /\ frame'[g].req.hop = frame[g].req.hop
        /\ frame'[g].req.inner = frame[g].req.inner
    BY <2>1, <2>2 DEF Execs
  <2> QED BY <1>3, <2>1, <2>3 DEF IsSent, Counted
<1>4. CASE IsAsked(g)
  <2>1. PICK r \in Requests : frame'[g].req = r.req BY <1>4 DEF IsAsked
  <2>2. Len(frame'[g].trail) = 1 BY <1>4 DEF IsAsked
  <2> QED BY <2>1, <2>2 DEF Plain, Counted
<1>5. CASE IsCalled(g)
  <2> DEFINE d == frame'[g]
  <2>1. PICK p \in FrameId :
       LET c == frame[p] IN
       /\ At(p, "call") /\ d.trail = Append(c.trail, d.node)
       /\ \/ c.req.method = "learn" /\ d.req = [method |-> "peers"]
          \/ c.req \in Execs /\ d.req = c.req.inner
          \/ /\ c.req \in Execs /\ c.req.hop = 0
             /\ d.req = Exec(c.req.dst, 1, Append(c.req.path, c.node), c.req.inner)
    BY <1>5 DEF IsCalled
  <2> DEFINE c == frame[p]
  <2>2. Active(p) /\ c \in Frame /\ Staged(c) /\ c.trail \in Seq(Node)
    BY <2>1, ActiveFrame, FrameFields DEF At
  <2>3. Counted(c) BY <2>2 DEF AllCounted
  <2>4. /\ Len(c.trail) = 1 => Len(d.trail) = 2
        /\ Len(c.trail) = 2 => Len(d.trail) = 3
    <3>1. c.trail \in Seq(Node) /\ d.trail = Append(c.trail, d.node) BY <2>1, <2>2
    <3> HIDE DEF c, d
    <3>2. Len(Append(c.trail, d.node)) = Len(c.trail) + 1 BY <3>1, AppendLen
    <3> QED BY <3>1, <3>2
  <2>a. /\ Len(d.trail) = 2 => Len(d.trail) <= 3
        /\ Len(d.trail) = 3 => Len(d.trail) <= 3
    <3>1. ASSUME NEW k, k \in {2, 3} PROVE k <= 3 BY <3>1
    <3> QED BY <3>1
  <2>5. CASE c.req.method = "learn" /\ d.req = [method |-> "peers"]
    <3>1. c.req.method = "learn" BY <2>5
    <3>2. d.req.method = "peers" BY <2>5
    <3> HIDE DEF c, d
    <3>3. Len(c.trail) \in Nat /\ Len(c.trail) = 1 BY <2>2, <2>3, <3>1 DEF Counted
    <3>4. Counted(d) BY <2>4, <2>a, <3>2, <3>3 DEF Counted
    <3> QED BY <3>4 DEF d
  <2>6. CASE c.req \in Execs /\ d.req = c.req.inner
    <3>1. c.req.method = "exec" BY <2>6 DEF Execs
    <3> HIDE DEF c, d
    <3>2. d.req.method \notin {"exec", "learn"} BY <2>3, <2>6, <3>1 DEF Counted
    <3>3. Len(c.trail) \in {1, 2} BY <2>3, <3>1 DEF Counted
    <3>4. Counted(d) BY <2>4, <2>a, <3>2, <3>3 DEF Counted
    <3> QED BY <3>4 DEF d
  <2>7. CASE /\ c.req \in Execs /\ c.req.hop = 0
             /\ d.req = Exec(c.req.dst, 1, Append(c.req.path, c.node), c.req.inner)
    <3>1. c.req.method = "exec" BY <2>7 DEF Execs
    <3>2. d.req.method = "exec" /\ d.req.hop = 1 /\ d.req.inner = c.req.inner
      BY <2>7 DEF Exec
    <3>3. c.req.hop = 0 BY <2>7
    <3> HIDE DEF c, d
    <3>5. Len(c.trail) = 1 /\ c.req.inner.method \notin {"exec", "learn"}
      BY <2>3, <3>1, <3>3 DEF Counted
    <3>6. Len(d.trail) = 2 BY <2>4, <3>5
    <3>4. Counted(d) BY <2>a, <3>2, <3>5, <3>6 DEF Counted
    <3> QED BY <3>4 DEF d
  <2> QED BY <2>1, <2>5, <2>6, <2>7
<1> QED BY <1>1, <1>2, <1>3, <1>4, <1>5, NextComes DEF Comes

(* A call goes over one proxy at most, whatever the routes of the nodes    *)
(* are and however they change or are learnt while it is under way.        *)
THEOREM OneProxyHopAlways == ASSUME Setting, Plain PROVE Spec => []OneProxyHop
<1>1. Init => AllCounted BY DEF Init, AllCounted, Active
<1>2. AllCounted /\ UNCHANGED vars => AllCounted'
  BY DEF vars, callVars, AllCounted, Active
<1>3. Typed /\ AllCounted /\ Next => AllCounted' BY NextCounted
<1>4. AllCounted => OneProxyHop BY DEF AllCounted, OneProxyHop, Counted
<1> QED BY <1>1, <1>2, <1>3, <1>4, AlwaysTyped, PTL DEF Spec

-----------------------------------------------------------------------------
(* The path that exec carries is the way it has come, and who has it from  *)
(* a proxy is not to run it.                                               *)
Traced(c) ==
  c.req.method = "exec" =>
    /\ c.trail = Append(c.req.path, c.node)
    /\ c.req.hop = 1 => c.req.dst \notin {NoNode, c.node}

(* Every call is so.                                                       *)
AllTraced == \A f \in FrameId : Active(f) => Traced(frame[f])

(* No node reaches a peer over that peer.                                  *)
RoutesElse == \A n \in Node : ViaElse(routeState[n])

(* The answer of exec reports the way that was gone, and every other one   *)
(* was answered at the end of its own.                                     *)
Honest(c) ==
  /\ /\ c.stage \in {"outbound", "via", "answer"}
     /\ c.req.method = "exec" /\ c.answer.ok
     => c.answer.path = c.answer.trail
  /\ c.stage = "answer" /\ Plainly(c) /\ c.answer.ok => c.answer.trail = c.trail

(* What was read has no peer over itself, the proxy is not the             *)
(* destination, and the answer is honest.                                  *)
Sound(c) == (c.snap # Idle => ViaElse(c.snap)) /\ Elsewhere(c) /\ Honest(c)

(* Every call is so.                                                       *)
AllSound == \A f \in FrameId : Active(f) => Sound(frame[f])

(* The call c is at the node that q calls, one further; it is an exec if   *)
(* it came over a proxy.                                                   *)
Heeds(c, q) ==
  /\ c.trail = Append(q.trail, q.to)
  /\ q.req.method = "exec" => (q.proxied <=> c.req.method = "exec")
  /\ c.req.method # "learn"
  /\ c.req.method = "exec" => c.req.hop = 1

(* Every call is of the line of the one that waits for it.                 *)
Lineage == \A f, p \in FrameId : Child(f, p) => Heeds(frame[f], frame[p])

(* The inductive invariant behind PathIsTrue.                              *)
PathSafe == AllCounted /\ AllTraced /\ RoutesElse /\ AllSound /\ Lineage

(* Every step keeps the calls traced.                                      *)
LEMMA NextTraced ==
  ASSUME Setting, Plain, Typed, PathSafe, Next
  PROVE  AllTraced'
<1> SUFFICES ASSUME NEW g \in FrameId, Active(g)' PROVE Traced(frame'[g])
  BY DEF AllTraced
<1>1. CASE Stays(g) BY <1>1 DEF Stays, Kin, PathSafe, AllTraced, Traced
<1>2. CASE RunsHere(g)
  <2>1. Counted(frame[g]) /\ frame[g].req.method = "exec"
    BY <1>2 DEF RunsHere, PathSafe, AllCounted, At, Execs
  <2> QED BY <1>2, <2>1 DEF RunsHere, Counted, Traced
<1>3. CASE IsSent(g)
  <2>1. Traced(frame[g]) /\ frame[g].req \in Execs BY <1>3 DEF IsSent, PathSafe, AllTraced, At
  <2>2. PICK dst \in Node \ {frame[g].node} : frame'[g].req = [frame[g].req EXCEPT !.dst = dst]
    BY <1>3 DEF IsSent
  <2>3. /\ frame[g].req.method = "exec"
        /\ frame'[g].req.path = frame[g].req.path /\ frame'[g].req.dst = dst
    BY <2>1, <2>2 DEF Execs
  <2>4. dst # NoNode BY DEF Setting
  <2> QED BY <1>3, <2>1, <2>2, <2>3, <2>4 DEF IsSent, Traced
<1>4. CASE IsAsked(g)
  <2>1. PICK r \in Requests : frame'[g].req = r.req BY <1>4 DEF IsAsked
  <2>2. frame'[g].trail = <<frame'[g].node>> BY <1>4 DEF IsAsked
  <2>3. <<frame'[g].node>> = Append(<<>>, frame'[g].node) OBVIOUS
  <2> QED BY <2>1, <2>2, <2>3 DEF Plain, Traced
<1>5. CASE IsCalled(g)
  <2> DEFINE d == frame'[g]
  <2>1. PICK p \in FrameId :
       LET c == frame[p] IN
       /\ At(p, "call") /\ d.node = c.to /\ d.trail = Append(c.trail, d.node)
       /\ \/ c.req.method = "learn" /\ d.req = [method |-> "peers"]
          \/ c.req \in Execs /\ d.req = c.req.inner
          \/ /\ c.req \in Execs /\ c.proxied /\ c.req.dst \in Node
             /\ d.req = Exec(c.req.dst, 1, Append(c.req.path, c.node), c.req.inner)
    BY <1>5 DEF IsCalled
  <2> DEFINE c == frame[p]
  <2>2. Active(p) BY <2>1 DEF At
  <2>3. Counted(c) /\ Traced(c) /\ Sound(c)
    BY <2>2 DEF PathSafe, AllCounted, AllTraced, AllSound
  <2>4. CASE d.req = [method |-> "peers"]
    <3>1. d.req.method = "peers" BY <2>4
    <3> QED BY <3>1 DEF Traced
  <2>5. CASE c.req \in Execs /\ d.req = c.req.inner
    <3>1. c.req.method = "exec" BY <2>5 DEF Execs
    <3>2. d.req.method # "exec" BY <2>3, <2>5, <3>1 DEF Counted
    <3> QED BY <3>2 DEF Traced
  <2>6. CASE /\ c.req \in Execs /\ c.proxied /\ c.req.dst \in Node
             /\ d.req = Exec(c.req.dst, 1, Append(c.req.path, c.node), c.req.inner)
    <3>1. c.req.dst # d.node BY <2>1, <2>3, <2>6 DEF Sound, Elsewhere, At
    <3>2. d.req.dst = c.req.dst /\ d.req.path = Append(c.req.path, c.node) BY <2>6 DEF Exec
    <3>3. c.req.method = "exec" BY <2>6 DEF Execs
    <3>4. d.req.path = c.trail BY <2>3, <3>2, <3>3 DEF Traced
    <3>5. d.trail = Append(d.req.path, d.node) BY <2>1, <3>4
    <3>6. c.req.dst # NoNode BY <2>6 DEF Setting
    <3> HIDE DEF c, d
    <3>7. Traced(d) BY <3>1, <3>2, <3>5, <3>6 DEF Traced
    <3> QED BY <3>7 DEF d
  <2> QED BY <2>1, <2>4, <2>5, <2>6
<1> QED BY <1>1, <1>2, <1>3, <1>4, <1>5, NextComes DEF Comes

(* A call is sound when it has just started on something, or was answered  *)
(* at once.                                                                *)
LEMMA StartsSound ==
  ASSUME Setting, NEW c \in Frame, NEW d, NEW S, Flow(c, d), Starts(c, d, S),
         S \cap {"call", "outbound", "via", "answer"} = {}
  PROVE  Sound(d)
<1>1. d.snap = Idle /\ d.stage # "wait" /\ Same(c, d) BY DEF Flow
<1>2. d.stage \notin {"call", "outbound", "via"} BY DEF Starts
<1>3. Elsewhere(d) BY <1>1, <1>2 DEF Elsewhere
<1>4. CASE d.stage \in S BY <1>1, <1>3, <1>4 DEF Sound, Honest
<1>5. CASE d.stage = "answer" /\ d.answer = Error
  BY <1>1, <1>3, <1>5, Errors DEF Sound, Honest
<1>6. CASE d.stage = "answer" /\ Plainly(c) /\ d.answer.trail = c.trail
  <2>1. Plainly(d) /\ d.answer.trail = d.trail BY <1>1, <1>6 DEF Same, Plainly
  <2> QED BY <1>1, <1>3, <1>6, <2>1 DEF Sound, Honest, Plainly
<1> QED BY <1>4, <1>5, <1>6 DEF Starts, Answering

(* A call that fails is sound.                                             *)
LEMMA FailsSound ==
  ASSUME Setting, NEW c \in Frame, Rooted(c)
  PROVE  Sound(Answered(c, Error))
<1> DEFINE none == {}
<1>1. Flow(c, Answered(c, Error)) /\ Starts(c, Answered(c, Error), none) BY FailsFlow
<1>2. none \cap {"call", "outbound", "via", "answer"} = {} OBVIOUS
<1> HIDE DEF none
<1> QED BY <1>1, <1>2, StartsSound

(* A call that starts its method is sound.                                 *)
LEMMA HandledSound ==
  ASSUME Setting, NEW c \in Frame, NEW d, Flow(c, d), Starts(c, d, Handled)
  PROVE  Sound(d)
<1>1. Handled \cap {"call", "outbound", "via", "answer"} = {} BY DEF Handled
<1> QED BY <1>1, StartsSound

(* The two parts of PathSafe about what is read, written and answered.     *)
Sounds == RoutesElse /\ AllSound

(* One call moves, and the route states stay.                              *)
LEMMA MoveSound ==
  ASSUME Setting, Typed, Sounds, NEW f \in FrameId, NEW d, Sound(d),
         frame' = [frame EXCEPT ![f] = d], routeState' = routeState
  PROVE  Sounds'
<1>1. frame'[f] = d /\ \A g \in FrameId \ {f} : frame'[g] = frame[g] BY DEF Typed
<1> QED BY <1>1 DEF Sounds, RoutesElse, AllSound, Active

(* A record without a peer over itself is written.                         *)
LEMMA SaveSound ==
  ASSUME Setting, Typed, Sounds, NEW f \in FrameId, Active(f), NEW s \in RouteState, ViaElse(s),
         NEW c \in Frame, Sound(c), c.node = frame[f].node, Save(f, s, c)
  PROVE  Sounds'
<1>1. /\ routeState' = [routeState EXCEPT ![c.node] = s]
      /\ Lifted(c, frame'[f])
      /\ \A g \in FrameId \ {f} : Active(g) => Lifted(frame[g], frame'[g])
      /\ \A g \in FrameId \ {f} : ~Active(g) => ~Active(g)'
  BY SaveIs
<1>2. RoutesElse' BY <1>1 DEF Sounds, RoutesElse, Typed
<1>3. ASSUME NEW d \in Frame, NEW e, Lifted(d, e), Sound(d) PROVE Sound(e)
  BY <1>3, LiftedSame DEF Sound, Elsewhere, Honest, Plainly
<1>4. ASSUME NEW g \in FrameId, Active(g)' PROVE Sound(frame'[g])
  <2>1. CASE g = f BY <1>1, <1>3, <2>1
  <2>2. CASE g # f
    <3>1. Active(g) /\ Lifted(frame[g], frame'[g]) BY <1>1, <1>4, <2>2
    <3>2. frame[g] \in Frame /\ Sound(frame[g]) BY <3>1, ActiveFrame DEF Sounds, AllSound
    <3> QED BY <1>3, <3>1, <3>2
  <2> QED BY <2>1, <2>2
<1> QED BY <1>2, <1>4 DEF Sounds, AllSound

(* Reading the record keeps Sounds.                                        *)
LEMMA LoadSound ==
  ASSUME Setting, Typed, Sounds, NEW f \in FrameId, LoadRouteState(f) \/ FindExpired(f)
  PROVE  Sounds'
<1>1. Active(f) /\ frame[f].phase = "load" /\ routeState' = routeState
  BY FindIs DEF LoadRouteState, InOrder, OnlyFrames
<1>2. frame[f] \in Frame /\ Sound(frame[f]) BY <1>1, ActiveFrame DEF Sounds, AllSound
<1>3. frame[f].node \in Node BY <1>2, FrameFields
<1>4. ASSUME NEW s \in RouteState, ViaElse(s), NEW d, Same(frame[f], d),
             d.stage = frame[f].stage, d.snap = s, d.answer = frame[f].answer,
             frame' = [frame EXCEPT ![f] = d]
      PROVE  Sounds'
  <2>1. Sound(d) BY <1>2, <1>4 DEF Sound, Elsewhere, Honest, Plainly, Same
  <2> QED BY <1>1, <1>4, <2>1, MoveSound
<1>5. CASE LoadRouteState(f)
  <2>1. Loaded(f) = routeState[frame[f].node] BY <1>1 DEF Loaded
  <2>2. PICK s \in RouteState : s = Loaded(f) BY <1>1, LoadedIs
  <2>3. ViaElse(s) BY <1>3, <2>1, <2>2 DEF Sounds, RoutesElse
  <2> DEFINE d == [frame[f] EXCEPT !.phase = "use", !.snap = s]
  <2>d. Loads(frame[f], d, "use", s) BY DEF Loads
  <2>4. frame' = [frame EXCEPT ![f] = d] BY <1>5, <2>2 DEF LoadRouteState, Moves
  <2> HIDE DEF d
  <2>5. /\ Same(frame[f], d) /\ d.stage = frame[f].stage /\ d.snap = s
        /\ d.answer = frame[f].answer
    BY <1>1, <2>d, LoadIs
  <2> QED BY <1>4, <2>3, <2>4, <2>5
<1>6. CASE FindExpired(f)
  <2>1. PICK s \in RouteState :
          /\ ViaElse(routeState[frame[f].node]) => ViaElse(s)
          /\ frame' = [frame EXCEPT ![f] = [frame[f] EXCEPT !.phase = "prune", !.snap = s]]
    BY <1>6, FindIs
  <2>2. ViaElse(s) BY <1>3, <2>1 DEF Sounds, RoutesElse
  <2> DEFINE d == [frame[f] EXCEPT !.phase = "prune", !.snap = s]
  <2>d. Loads(frame[f], d, "prune", s) BY DEF Loads
  <2>4. frame' = [frame EXCEPT ![f] = d] BY <2>1
  <2> HIDE DEF d
  <2>5. /\ Same(frame[f], d) /\ d.stage = frame[f].stage /\ d.snap = s
        /\ d.answer = frame[f].answer
    BY <1>1, <2>d, LoadIs
  <2> QED BY <1>4, <2>2, <2>4, <2>5
<1> QED BY <1>5, <1>6

(* The two steps that write the record keep Sounds.                        *)
LEMMA SavesSound ==
  ASSUME Setting, Typed, Sounds, NEW f \in FrameId, SavePruned(f) \/ SaveRouteState(f)
  PROVE  Sounds'
<1> DEFINE c == frame[f]
<1>1. CASE SavePruned(f)
  <2> DEFINE d == [c EXCEPT !.phase = "use"]
  <2>1. /\ Active(f) /\ c.snap \in RouteState /\ Save(f, c.snap, d)
        /\ d \in Frame /\ Same(c, d) /\ d.stage = c.stage /\ d.snap = c.snap /\ d.answer = c.answer
    BY <1>1, PruneIs
  <2>2. Sound(c) BY <2>1 DEF Sounds, AllSound
  <2>3. c.snap # Idle BY <2>1 DEF Setting
  <2> HIDE DEF d, c
  <2>4. ViaElse(c.snap) BY <2>2, <2>3 DEF Sound
  <2>5. Sound(d) /\ d.node = c.node
    BY <2>1, <2>2 DEF Sound, Elsewhere, Honest, Plainly, Same
  <2> QED BY <2>1, <2>4, <2>5, SaveSound DEF c
<1>2. CASE SaveRouteState(f)
  <2> DEFINE d == After(c)
             none == {}
  <2>1. Active(f) /\ c.stage \in Writing /\ c.phase = "use" /\ Save(f, Mutated(c), d)
    BY <1>2 DEF SaveRouteState
  <2>2. c \in Frame /\ Staged(c) /\ Sound(c) BY <2>1, ActiveFrame DEF Sounds, AllSound
  <2>3. c.snap \in RouteState /\ c.snap # Idle BY <2>1, <2>2 DEF Staged, Setting
  <2>4. Mutated(c) \in RouteState /\ ViaElse(Mutated(c))
    BY <2>1, <2>2, <2>3, MutatedIs DEF Sound
  <2>5. Flow(c, d) BY <2>1, <2>2, AfterFlow
  <2>6. Sound(d)
    <3>1. CASE c.stage \in {"inbound", "origin"}
      <4>1. d.stage \in {"enforce", "origin"} BY <2>1, <2>2, <3>1, AfterFlow
      <4> HIDE DEF d, c
      <4> QED BY <2>5, <4>1 DEF Sound, Elsewhere, Honest, Flow
    <3>2. CASE c.stage = "edit"
      <4>1. Starts(c, d, none) BY <2>1, <2>2, <3>2, AfterFlow
      <4>2. none \cap {"call", "outbound", "via", "answer"} = {} OBVIOUS
      <4> HIDE DEF d, c, none
      <4> QED BY <2>2, <2>5, <4>1, <4>2, StartsSound
    <3>3. CASE c.stage \in {"outbound", "via", "learnt"}
      <4>1. /\ d.stage \in {"peek", "via", "answer"}
            /\ d.stage \in {"via", "answer"} => c.stage # "learnt" /\ d.answer = c.answer
        BY <2>1, <2>2, <3>3, AfterFlow
      <4>2. Same(c, d) /\ d.snap = Idle BY <2>5 DEF Flow
      <4>3. c.stage \in {"outbound", "via"} => ~Plainly(c) BY <2>2 DEF Staged, Plainly
      <4> HIDE DEF d, c
      <4>4. CASE d.stage = "peek" BY <4>2, <4>4 DEF Sound, Elsewhere, Honest
      <4>5. CASE d.stage \in {"via", "answer"}
        <5>1. c.stage \in {"outbound", "via"} /\ d.answer = c.answer BY <3>3, <4>1, <4>5
        <5>2. ~Plainly(d) BY <4>2, <4>3, <5>1 DEF Plainly, Same
        <5>3. Honest(d) BY <2>2, <4>2, <5>1, <5>2 DEF Sound, Honest, Same
        <5>4. Elsewhere(d) BY <2>2, <4>2, <5>1 DEF Sound, Elsewhere, Same
        <5> QED BY <4>2, <5>3, <5>4 DEF Sound
      <4> QED BY <4>1, <4>4, <4>5
    <3> QED BY <2>1, <3>1, <3>2, <3>3 DEF Writing
  <2>7. d \in Frame /\ d.node = c.node BY <2>5 DEF Flow, Same
  <2> HIDE DEF d
  <2> QED BY <2>1, <2>4, <2>6, <2>7, SaveSound
<1> QED BY <1>1, <1>2

(* A call that is made keeps Sounds, if its proxy is not its destination.  *)
LEMMA CallSound ==
  ASSUME Setting, Typed, Sounds, NEW f \in FrameId, NEW b \in Frame, NEW m \in Node, NEW r \in Req,
         NEW g \in FrameId, NEW w \in Frame, NEW d \in Frame, CallMade(f, g, b, w, d, m, r),
         b.proxied => b.req.dst # m, routeState' = routeState, Active(f)
  PROVE  Sounds'
<1>1. /\ ~Active(g) /\ frame' = [frame EXCEPT ![f] = w, ![g] = d]
      /\ w.stage = "wait" /\ w.to = m /\ w.snap = Idle /\ w.req = b.req /\ w.proxied = b.proxied
      /\ d.stage = "inbound" /\ d.snap = Idle
  BY DEF CallMade, Waiting
<1>2. frame'[f] = w /\ frame'[g] = d /\ \A h \in FrameId \ {f, g} : frame'[h] = frame[h]
  BY <1>1 DEF Typed
<1>3. Sound(w) /\ Sound(d) BY <1>1 DEF Sound, Elsewhere, Honest
<1> QED BY <1>2, <1>3 DEF Sounds, RoutesElse, AllSound, Active

(* executeRouted keeps Sounds: the proxy it takes is not the destination.  *)
LEMMA ExecutedSound ==
  ASSUME Setting, Typed, Sounds, NEW f \in FrameId, executeRouted(f)
  PROVE  Sounds'
<1> DEFINE c == frame[f]
           here == [c EXCEPT !.req = c.req.inner]
<1>1. At(f, "route") /\ OnlyFrames /\ c.req \in Execs BY ExecutedIs
<1>2. Active(f) /\ c \in Frame /\ Rooted(c) /\ Staged(c) /\ Sound(c) /\ routeState' = routeState
  BY <1>1, ActiveFrame DEF At, OnlyFrames, Sounds, AllSound
<1>3. CASE Moves(f, Answered(c, Error))
  BY <1>2, <1>3, FailsSound, MoveSound DEF Moves
<1>4. CASE here \in Frame /\ Fresh(here) /\ Moves(f, invokeHandler(here))
  <2> HIDE DEF here
  <2>1. Sound(invokeHandler(here)) BY <1>4, InvokeFlow, HandledSound
  <2> QED BY <1>2, <1>4, <2>1, MoveSound DEF Moves
<1>6. \/ RunsInner(f, here)
      \/ Moves(f, Answered(c, Error))
      \/ \E d \in Frame, dst \in Node : CallsOn(f, d, dst)
  BY ExecutedIs
<1> HIDE DEF here
<1>7. CASE RunsInner(f, here) BY <1>4, <1>7 DEF RunsInner
<1>8. CASE \E d \in Frame, dst \in Node : CallsOn(f, d, dst)
  <2>1. PICK d \in Frame, dst \in Node : CallsOn(f, d, dst) BY <1>8
  <2>2. /\ d.req = [c.req EXCEPT !.dst = dst] /\ d.stage = "call" /\ d.snap = Idle
        /\ d.proxied => (ViaElse(Loaded(f)) => d.to # dst)
        /\ Moves(f, d)
    BY <2>1 DEF CallsOn
  <2>3. d.req.dst = dst BY <1>1, <2>2 DEF Execs
  <2>4. ViaElse(Loaded(f))
    <3>1. c.phase = "use" => c.snap # Idle
      <4>1. Idle \notin RouteState BY DEF Setting
      <4> QED BY <1>2, <4>1 DEF Staged
    <3>2. c.node \in Node BY <1>2, FrameFields
    <3> QED BY <1>2, <3>1, <3>2 DEF Loaded, Sounds, RoutesElse, Sound
  <2>5. Sound(d) BY <2>2, <2>3, <2>4 DEF Sound, Elsewhere, Honest
  <2> QED BY <1>2, <2>2, <2>5, MoveSound DEF Moves
<1> QED BY <1>3, <1>6, <1>7, <1>8

(* learn keeps Sounds.                                                     *)
LEMMA LearnSound ==
  ASSUME Setting, Typed, Sounds, NEW f \in FrameId, learn(f)
  PROVE  Sounds'
<1>1. routeState' = routeState BY LearnIs DEF OnlyFrames
<1>2. PICK d \in Frame :
        /\ ~d.proxied /\ d.stage = "call" /\ d.snap = Idle
        /\ Moves(f, d)
  BY LearnIs
<1>3. Sound(d) BY <1>2 DEF Sound, Elsewhere, Honest
<1> QED BY <1>1, <1>2, <1>3, MoveSound DEF Moves

(* The call of another node keeps Sounds.                                  *)
LEMMA CalledSound ==
  ASSUME Setting, Typed, Sounds, NEW f \in FrameId, callDetailed(f)
  PROVE  Sounds'
<1> DEFINE c == frame[f]
           m == c.to
           r == Outgoing(c)
<1>1. /\ Active(f) /\ c \in Frame /\ Rooted(c) /\ c.stage = "call" /\ m \in Node
      /\ c.req.method \in {"exec", "learn"} /\ OnlyFrames
      /\ \/ Moves(f, Answered(c, Error))
         \/ \E g \in FrameId, w, d \in Frame : CallMade(f, g, c, w, d, m, r)
  BY CalledOut
<1>2. r \in Req /\ routeState' = routeState BY <1>1, OutgoingIs DEF OnlyFrames
<1>3. c.proxied => c.req.dst # m BY <1>1 DEF Sounds, AllSound, Sound, Elsewhere
<1> HIDE DEF m, r
<1>4. CASE Moves(f, Answered(c, Error)) BY <1>1, <1>2, <1>4, FailsSound, MoveSound DEF Moves
<1>5. CASE \E g \in FrameId, w, d \in Frame : CallMade(f, g, c, w, d, m, r)
  BY <1>1, <1>2, <1>3, <1>5, CallSound
<1> QED BY <1>1, <1>4, <1>5

(* A sequence and two more elements.                                       *)
LEMMA AppendTwo ==
  ASSUME NEW S, NEW s \in Seq(S), NEW a \in S, NEW b \in S
  PROVE  s \o <<a, b>> = Append(Append(s, a), b)
OBVIOUS

(* The caller that goes on with an answer reports it as it came, or the    *)
(* way of its direct call.                                                 *)
LEMMA ResumeSound ==
  ASSUME Setting, Typed, PathSafe, NEW f \in FrameId, NEW p \in FrameId, Child(f, p), At(f, "answer"),
         NEW d \in Frame, Resumed(frame[p], d, frame[f].answer)
  PROVE  Sound(d)
<1> DEFINE c == frame[f]
           q == frame[p]
<1>1. Active(f) /\ Active(p) /\ q.stage = "wait" BY DEF Child, Typed, Waited, At
<1>2. c \in Frame /\ q \in Frame /\ Staged(q) BY <1>1, ActiveFrame
<1>3. Sound(c) /\ Sound(q) /\ Traced(q) /\ Heeds(c, q)
  BY <1>1 DEF PathSafe, AllSound, AllTraced, Lineage
<1>4. c.stage = "answer" BY DEF At
<1>5. Resumed(q, d, c.answer) OBVIOUS
<1>6. q.to \in Node BY <1>1, <1>2 DEF Staged
<1> HIDE DEF c, q
<1>7. Same(q, d) /\ d.snap = Idle BY <1>5 DEF Resumed
<1>8. Elsewhere(d) BY <1>1, <1>3, <1>7 DEF Sound, Elsewhere, Same
<1>9. CASE d.stage = "answer" /\ d.answer = Error
  BY <1>7, <1>8, <1>9, Errors DEF Sound, Honest
<1>10. CASE /\ d.stage = "outbound" /\ c.answer.ok
            /\ q.req.method = "learn" \/ q.proxied
            /\ d.answer = c.answer
  <2>1. CASE q.req.method = "learn" BY <1>7, <1>8, <1>10, <2>1 DEF Sound, Honest, Same
  <2>2. CASE q.req.method = "exec" /\ q.proxied
    <3>1. c.req.method = "exec" BY <1>3, <2>2 DEF Heeds
    <3>2. c.answer.path = c.answer.trail BY <1>3, <1>4, <1>10, <3>1 DEF Sound, Honest
    <3> QED BY <1>7, <1>8, <1>10, <2>2, <3>2 DEF Sound, Honest
  <2>3. q.proxied => q.req.method = "exec" BY <1>2 DEF Staged, Rooted
  <2> QED BY <1>10, <2>1, <2>2, <2>3
<1>11. CASE /\ d.stage = "outbound" /\ c.answer.ok
            /\ q.req \in Execs /\ ~q.proxied
            /\ d.answer = Ok(q.req.path \o <<q.node, q.to>>, {}, c.answer.trail)
  <2>1. q.req.method = "exec" /\ q.req.path \in Seq(Node) BY <1>11 DEF Execs
  <2>2. Plainly(c) BY <1>3, <1>11, <2>1 DEF Heeds, Plainly
  <2>3. c.answer.trail = Append(Append(q.req.path, q.node), q.to)
    BY <1>3, <1>4, <1>11, <2>1, <2>2 DEF Sound, Honest, Heeds, Traced
  <2>4. q.node \in Node BY <1>2, FrameFields
  <2>5. q.req.path \o <<q.node, q.to>> = c.answer.trail
    <3>1. \A s \in Seq(Node), a, b \in Node : s \o <<a, b>> = Append(Append(s, a), b)
      BY AppendTwo
    <3>2. q.req.path \o <<q.node, q.to>> = Append(Append(q.req.path, q.node), q.to)
      BY <1>6, <2>1, <2>4, <3>1, Zenon
    <3> QED BY <2>3, <3>2
  <2>6. d.answer.path = q.req.path \o <<q.node, q.to>> /\ d.answer.trail = c.answer.trail
    BY <1>11 DEF Ok
  <2> QED BY <1>7, <1>8, <1>11, <2>5, <2>6 DEF Sound, Honest
<1> QED BY <1>5, <1>9, <1>10, <1>11 DEF Resumed

(* Every step keeps Sounds.                                                *)
LEMMA NextSound ==
  ASSUME Setting, Plain, Typed, PathSafe, Next
  PROVE  Sounds'
<1>0. Sounds BY DEF PathSafe, Sounds
<1>1. ASSUME NEW f \in FrameId, FrameStep(f) PROVE Sounds'
  <2>1. CASE LoadRouteState(f) \/ FindExpired(f) BY <1>0, <2>1, LoadSound
  <2>2. CASE SavePruned(f) \/ SaveRouteState(f) BY <1>0, <2>2, SavesSound
  <2>3. CASE enforceInboundRoutePolicy(f)
    <3>1. At(f, "enforce") /\ OnlyFrames BY <2>3, EnforceIs
    <3>2. PICK d : Moves(f, d) /\ Flow(frame[f], d) /\ Starts(frame[f], d, Handled)
      BY <2>3, EnforceIs
    <3>3. Sound(d) BY <3>1, <3>2, ActiveFrame, HandledSound DEF At
    <3> QED BY <1>0, <3>1, <3>2, <3>3, MoveSound DEF Moves, OnlyFrames
  <2>4. CASE authorizeRpc(f)
    <3>1. /\ At(f, "authorize") /\ UNCHANGED <<routeState, budget>>
          /\ \/ UNCHANGED frame
             \/ \E d : Moves(f, d) /\ Flow(frame[f], d) /\ Starts(frame[f], d, Handled)
      BY <2>4, AuthorizeIs
    <3>2. CASE UNCHANGED frame BY <1>0, <3>1, <3>2 DEF Sounds, RoutesElse, AllSound, Active
    <3>3. CASE \E d : Moves(f, d) /\ Flow(frame[f], d) /\ Starts(frame[f], d, Handled)
      <4>1. PICK d : Moves(f, d) /\ Flow(frame[f], d) /\ Starts(frame[f], d, Handled) BY <3>3
      <4>2. Sound(d) BY <3>1, <4>1, ActiveFrame, HandledSound DEF At
      <4> QED BY <1>0, <3>1, <4>1, <4>2, MoveSound DEF Moves
    <3> QED BY <3>1, <3>2, <3>3
  <2>5. CASE listPeerSummaries(f)
    <3>1. At(f, "peers") /\ OnlyFrames BY <2>5, PeersIs
    <3>2. PICK a \in Answer : a.trail = frame[f].trail /\ Moves(f, Answered(frame[f], a))
      BY <2>5, PeersIs
    <3>3. frame[f] \in Frame /\ Rooted(frame[f]) /\ frame[f].req.method = "peers"
      BY <3>1, ActiveFrame DEF At, Staged
    <3> DEFINE d == Answered(frame[f], a)
    <3>4. Flow(frame[f], d) /\ d.stage = "answer" /\ d.answer = a
      BY <3>3, AnsweredFlow
    <3>5. frame' = [frame EXCEPT ![f] = d] BY <3>2 DEF Moves
    <3> HIDE DEF d
    <3>6. Starts(frame[f], d, Handled) BY <3>2, <3>3, <3>4 DEF Starts, Answering, Plainly
    <3>7. Sound(d) BY <3>3, <3>4, <3>6, HandledSound
    <3> QED BY <1>0, <3>1, <3>5, <3>7, MoveSound DEF OnlyFrames
  <2>6. CASE executeRouted(f) BY <1>0, <2>6, ExecutedSound
  <2>7. CASE learn(f) BY <1>0, <2>7, LearnSound
  <2>8. CASE LearnNext(f)
    <3>1. At(f, "peek") /\ OnlyFrames BY <2>8, NextIs
    <3>2. PICK d : Moves(f, d) /\ Flow(frame[f], d) /\ d.stage \in {"peek", "learnt", "answer"}
      BY <2>8, NextIs
    <3>3. frame[f].req.method = "learn" BY <3>1, ActiveFrame DEF At, Staged
    <3>4. Sound(d) BY <3>2, <3>3 DEF Flow, Same, Sound, Elsewhere, Honest, Plainly
    <3> QED BY <1>0, <3>1, <3>2, <3>4, MoveSound DEF Moves, OnlyFrames
  <2>9. CASE Return(f)
    <3>1. At(f, "answer") /\ OnlyFrames /\ frame[f].answer \in Answer BY <2>9, ReturnIs
    <3>2. CASE frame' = [frame EXCEPT ![f] = Idle]
      <4>1. frame'[f] = Idle /\ \A g \in FrameId \ {f} : frame'[g] = frame[g] BY <3>2 DEF Typed
      <4> QED BY <1>0, <3>1, <4>1 DEF Sounds, RoutesElse, AllSound, Active, OnlyFrames
    <3>3. CASE \E p \in FrameId, d \in Frame :
                 /\ Child(f, p) /\ Resumed(frame[p], d, frame[f].answer)
                 /\ frame' = [frame EXCEPT ![f] = Idle, ![p] = d]
      <4>1. PICK p \in FrameId, d \in Frame :
                 /\ Child(f, p) /\ Resumed(frame[p], d, frame[f].answer)
                 /\ frame' = [frame EXCEPT ![f] = Idle, ![p] = d]
        BY <3>3
      <4>2. p # f /\ At(p, "wait") BY <4>1 DEF Typed, Waited
      <4>3. /\ frame'[f] = Idle /\ frame'[p] = d
            /\ \A g \in FrameId \ {f, p} : frame'[g] = frame[g]
        BY <4>1, <4>2 DEF Typed
      <4>4. Sound(d) BY <3>1, <4>1, <4>2, ResumeSound DEF At, PathSafe, Sounds
      <4> QED BY <1>0, <3>1, <4>3, <4>4 DEF Sounds, RoutesElse, AllSound, Active, OnlyFrames
    <3> QED BY <2>9, <3>2, <3>3, ReturnIs
  <2>10. CASE callDetailed(f) BY <1>0, <2>10, CalledSound
  <2> QED BY <1>1, <2>1, <2>2, <2>3, <2>4, <2>5, <2>6, <2>7, <2>8, <2>9, <2>10 DEF FrameStep
<1>2. ASSUME NEW f \in FrameId, Request(f) PROVE Sounds'
  <2>1. PICK r \in Requests, c \in Frame, d \in Frame :
          /\ frame' = [frame EXCEPT ![f] = d]
          /\ Fresh(c) /\ d = dispatch(c)
    BY <1>2, RequestIs
  <2>2. routeState' = routeState BY <1>2, RequestIs
  <2> DEFINE S == Handled \cup {"enforce", "origin", "inbound"}
  <2>3. S \cap {"call", "outbound", "via", "answer"} = {} BY DEF Handled
  <2>4. Flow(c, d) /\ Starts(c, d, S) BY <2>1, DispatchFlow
  <2> HIDE DEF S
  <2>5. Sound(d) BY <2>3, <2>4, StartsSound
  <2> QED BY <1>0, <2>1, <2>2, <2>5, MoveSound
<1>3. ASSUME NEW f \in FrameId, GiveUp(f) PROVE Sounds'
  <2>1. Active(f) /\ frame[f] \in Frame /\ routeState' = routeState BY <1>3, GiveUpIs, ActiveFrame
  <2>2. PICK p \in FrameId, a \in Frame, d \in Frame :
          /\ Child(f, p) /\ frame' = [frame EXCEPT ![f] = a, ![p] = d]
          /\ a = [frame[f] EXCEPT !.parent = Idle]
          /\ Flow(frame[p], d) /\ d.stage = "answer" /\ d.answer = Error
    BY <1>3, GiveUpIs
  <2>3. p # f /\ Active(p) BY <2>2 DEF Typed, Waited, At
  <2>4. /\ frame'[f] = a /\ frame'[p] = d
        /\ \A g \in FrameId \ {f, p} : frame'[g] = frame[g]
    BY <2>2, <2>3 DEF Typed
  <2>5. Sound(d) BY <2>2, Errors DEF Flow, Sound, Elsewhere, Honest
  <2>6. Sound(frame[f]) BY <1>0, <2>1 DEF Sounds, AllSound
  <2>7. Sound(a) BY <2>1, <2>2, <2>6, OrphanIs DEF Sound, Elsewhere, Honest, Plainly
  <2> QED BY <1>0, <2>1, <2>4, <2>5, <2>7 DEF Sounds, RoutesElse, AllSound, Active
<1>4. CASE \/ \E f \in FrameId : WithIam(CheckStep(f))
           \/ \E a \in Admin : WithIam(AdminStep(a))
  <2>1. UNCHANGED callVars BY <1>4, QuietIs
  <2> QED BY <1>0, <2>1 DEF callVars, Sounds, RoutesElse, AllSound, Active
<1> QED BY <1>1, <1>2, <1>3, <1>4 DEF Next

(* What a call that another waits for does not lose.                       *)
AsChild(c, d) ==
  /\ d.trail = c.trail
  /\ \/ d.req = c.req
     \/ c.req \in Execs /\ \E dst \in Node : d.req = [c.req EXCEPT !.dst = dst]

(* What a call that waits for another does not lose.                       *)
AsParent(c, d) ==
  /\ d.trail = c.trail /\ d.to = c.to /\ d.proxied = c.proxied /\ d.req = c.req

(* With these kept, a call stays of the line of its caller.                *)
LEMMA HeedsKept ==
  ASSUME NEW c, NEW q, NEW d, NEW r, Heeds(c, q), AsChild(c, d), AsParent(q, r)
  PROVE  Heeds(d, r)
<1>1. d.req.method = c.req.method /\ (c.req.method = "exec" => d.req.hop = c.req.hop)
  <2>1. CASE d.req = c.req BY <2>1
  <2>2. CASE c.req \in Execs /\ \E dst \in Node : d.req = [c.req EXCEPT !.dst = dst]
    BY <2>2 DEF Execs
  <2> QED BY <2>1, <2>2 DEF AsChild
<1> QED BY <1>1 DEF Heeds, AsChild, AsParent

(* A step that keeps them for every two such calls keeps Lineage.          *)
LEMMA KeptLineage ==
  ASSUME Lineage,
         \A f, p \in FrameId : Child(f, p)' =>
            \/ Child(f, p) /\ AsChild(frame[f], frame'[f]) /\ AsParent(frame[p], frame'[p])
            \/ Heeds(frame'[f], frame'[p])
  PROVE  Lineage'
<1> SUFFICES ASSUME NEW f \in FrameId, NEW p \in FrameId, Child(f, p)'
             PROVE  Heeds(frame'[f], frame'[p])
  BY DEF Lineage
<1>1. Child(f, p) => Heeds(frame[f], frame[p]) BY DEF Lineage
<1> QED BY <1>1, HeedsKept

(* A call that waits for none moves on.                                    *)
LEMMA MoveLineage ==
  ASSUME Setting, Typed, Lineage, NEW f \in FrameId, Active(f), frame[f].stage # "wait",
         NEW d, d.parent = frame[f].parent, AsChild(frame[f], d),
         frame' = [frame EXCEPT ![f] = d]
  PROVE  Lineage'
<1>1. frame'[f] = d /\ \A g \in FrameId \ {f} : frame'[g] = frame[g] BY DEF Typed
<1>2. ASSUME NEW h \in FrameId, NEW p \in FrameId, Child(h, p)'
      PROVE  Child(h, p) /\ AsChild(frame[h], frame'[h]) /\ AsParent(frame[p], frame'[p])
  <2>1. Child(h, p) BY <1>1, <1>2 DEF Child, Active
  <2>2. p # f BY <2>1 DEF Typed, Waited, At
  <2> QED BY <1>1, <2>1, <2>2 DEF AsChild, AsParent
<1> QED BY <1>2, KeptLineage

(* The same, when it stays what it is.                                     *)
LEMMA FlowLineage ==
  ASSUME Setting, Typed, Lineage, NEW f \in FrameId, Active(f), frame[f].stage # "wait",
         NEW d, Same(frame[f], d), frame' = [frame EXCEPT ![f] = d]
  PROVE  Lineage'
BY MoveLineage DEF Same, AsChild

(* A record is written, and nobody stops to wait.                          *)
LEMMA SaveLineage ==
  ASSUME Setting, Typed, Lineage, NEW f \in FrameId, Active(f), NEW s \in RouteState,
         NEW c \in Frame, Same(frame[f], c), Save(f, s, c)
  PROVE  Lineage'
<1>1. c.node = frame[f].node BY DEF Same
<1>2. /\ Lifted(c, frame'[f])
      /\ \A g \in FrameId \ {f} : Active(g) => Lifted(frame[g], frame'[g])
      /\ \A g \in FrameId \ {f} : ~Active(g) => ~Active(g)'
  BY <1>1, SaveIs
<1>3. ASSUME NEW g \in FrameId, Active(g)'
      PROVE  /\ Active(g)
             /\ frame'[g].parent = frame[g].parent /\ frame'[g].trail = frame[g].trail
             /\ frame'[g].to = frame[g].to /\ frame'[g].proxied = frame[g].proxied
             /\ frame'[g].req = frame[g].req
  <2>1. CASE g = f
    <3>1. /\ frame'[g].parent = c.parent /\ frame'[g].trail = c.trail
          /\ frame'[g].to = c.to /\ frame'[g].proxied = c.proxied /\ frame'[g].req = c.req
      BY <1>2, <2>1, LiftedSame
    <3> QED BY <2>1, <3>1 DEF Same
  <2>2. CASE g # f
    <3>1. Active(g) /\ Lifted(frame[g], frame'[g]) /\ frame[g] \in Frame
      BY <1>2, <1>3, <2>2, ActiveFrame
    <3> QED BY <3>1, LiftedSame
  <2> QED BY <2>1, <2>2
<1>4. ASSUME NEW h \in FrameId, NEW p \in FrameId, Child(h, p)'
      PROVE  Child(h, p) /\ AsChild(frame[h], frame'[h]) /\ AsParent(frame[p], frame'[p])
  <2>1. Child(h, p) /\ AsChild(frame[h], frame'[h]) BY <1>3, <1>4 DEF Child, AsChild
  <2>2. Active(p) /\ p \in FrameId /\ Active(p)'
    <3>1. Active(p) BY <2>1 DEF Typed, Waited, At
    <3>2. p = f => Active(p)' BY <1>2, LiftedSame, FrameIsActive DEF Active
    <3>3. p # f => Active(p)' BY <1>2, <3>1, ActiveFrame, LiftedSame, FrameIsActive DEF Active
    <3> QED BY <3>1, <3>2, <3>3
  <2>3. AsParent(frame[p], frame'[p]) BY <1>3, <2>2 DEF AsParent
  <2> QED BY <2>1, <2>3
<1> QED BY <1>4, KeptLineage

(* A new call is of the line of its caller.                                *)
LEMMA CallLineage ==
  ASSUME Setting, Typed, Lineage, NEW f \in FrameId, Active(f), frame[f].stage # "wait",
         NEW b \in Frame, NEW m \in Node, NEW r \in Req,
         NEW g \in FrameId, NEW w \in Frame, NEW d \in Frame, CallMade(f, g, b, w, d, m, r),
         b.parent = frame[f].parent, AsChild(frame[f], b),
         r.method # "learn", r.method = "exec" => r.hop = 1,
         b.req.method = "exec" => (b.proxied <=> r.method = "exec")
  PROVE  Lineage'
<1>1. /\ ~Active(g) /\ frame' = [frame EXCEPT ![f] = w, ![g] = d]
      /\ w.to = m /\ w.req = b.req /\ w.proxied = b.proxied /\ w.trail = b.trail
      /\ w.parent = b.parent
      /\ d.parent = f /\ d.trail = Append(b.trail, m) /\ d.req = r
  BY DEF CallMade, Waiting, Incoming
<1>2. frame'[f] = w /\ frame'[g] = d /\ \A h \in FrameId \ {f, g} : frame'[h] = frame[h]
  BY <1>1 DEF Typed
<1>3. Heeds(d, w) BY <1>1 DEF Heeds
<1>4. AsChild(frame[f], w) BY <1>1 DEF AsChild
<1>5. ASSUME NEW h \in FrameId, NEW p \in FrameId, Child(h, p)'
      PROVE  \/ Child(h, p) /\ AsChild(frame[h], frame'[h]) /\ AsParent(frame[p], frame'[p])
             \/ Heeds(frame'[h], frame'[p])
  <2>1. CASE h = g BY <1>1, <1>2, <1>3, <1>5, <2>1 DEF Child
  <2>2. CASE h # g
    <3>1. Child(h, p) BY <1>1, <1>2, <1>5, <2>2 DEF Child, Active
    <3>2. At(p, "wait") BY <3>1 DEF Typed, Waited
    <3>3. p \notin {f, g} BY <1>1, <3>2 DEF At
    <3>4. AsChild(frame[h], frame'[h])
      <4>1. CASE h = f BY <1>2, <1>4, <4>1
      <4>2. CASE h # f BY <1>2, <2>2, <4>2 DEF AsChild
      <4> QED BY <4>1, <4>2
    <3>5. AsParent(frame[p], frame'[p])
      <4>1. frame'[p] = frame[p] BY <1>2, <3>3
      <4> QED BY <4>1 DEF AsParent
    <3> QED BY <3>1, <3>4, <3>5
  <2> QED BY <2>1, <2>2
<1> QED BY <1>5, KeptLineage

(* A call ends, or is left alone, and its caller waits for none.           *)
LEMMA ReleaseLineage ==
  ASSUME Setting, Typed, Lineage, NEW f \in FrameId, NEW p \in FrameId, Child(f, p),
         NEW a, a = Idle => frame[f].stage # "wait",
         a # Idle => a.parent = Idle /\ AsParent(frame[f], a), NEW d, Same(frame[p], d),
         frame' = [frame EXCEPT ![f] = a, ![p] = d]
  PROVE  Lineage'
<1>1. p # f /\ \A h \in FrameId : Child(h, p) => h = f BY DEF Typed, Waited
<1>2. frame'[f] = a /\ frame'[p] = d /\ \A h \in FrameId \ {f, p} : frame'[h] = frame[h]
  BY <1>1 DEF Typed
<1>3. Active(f) /\ Active(p) /\ At(p, "wait") BY DEF Child, Typed, Waited, At
<1>4. ASSUME NEW h \in FrameId, NEW q \in FrameId, Child(h, q)'
      PROVE  Child(h, q) /\ AsChild(frame[h], frame'[h]) /\ AsParent(frame[q], frame'[q])
  <2>1. q # Idle
    <3>1. Idle \notin FrameId BY DEF Setting
    <3> QED BY <3>1
  <2>2. h # f BY <1>2, <1>4, <2>1 DEF Child, Active
  <2>3. Child(h, q) BY <1>2, <1>3, <1>4, <2>2 DEF Child, Active, Same
  <2>4. q # p BY <1>1, <2>2, <2>3
  <2>5. CASE q = f
    <3>1. At(f, "wait") BY <2>3, <2>5 DEF Typed, Waited
    <3>2. a # Idle BY <3>1, <2>5 DEF At
    <3> QED BY <1>2, <2>2, <2>3, <2>4, <2>5, <3>2 DEF AsChild, AsParent, Same
  <2>6. CASE q # f BY <1>2, <2>2, <2>3, <2>4, <2>6 DEF AsChild, AsParent, Same
  <2> QED BY <2>5, <2>6
<1> QED BY <1>4, KeptLineage

(* executeRouted keeps Lineage: an exec that came over a proxy is never    *)
(* run where it is, as it is not for that node.                            *)
LEMMA ExecutedLineage ==
  ASSUME Setting, Plain, Typed, PathSafe, NEW f \in FrameId, executeRouted(f)
  PROVE  Lineage'
<1> DEFINE c == frame[f]
           here == [c EXCEPT !.req = c.req.inner]
<1>1. At(f, "route") /\ c.req \in Execs BY ExecutedIs
<1>2. Active(f) /\ c \in Frame /\ Rooted(c) /\ c.stage # "wait" BY <1>1, ActiveFrame DEF At
<1>3. Lineage /\ Counted(c) /\ Traced(c) BY <1>2 DEF PathSafe, AllCounted, AllTraced
<1>4. c.req.method = "exec" BY <1>1 DEF Execs
<1>5. CASE Moves(f, Answered(c, Error))
  <2>1. Same(c, Answered(c, Error)) BY <1>2, FailsFlow DEF Flow
  <2> QED BY <1>2, <1>3, <1>5, <2>1, FlowLineage DEF Moves
<1>6. CASE /\ c.req.dst \in {NoNode, c.node}
           /\ here \in Frame /\ Fresh(here) /\ here.parent = c.parent
           /\ Moves(f, invokeHandler(here))
  <2> DEFINE d == invokeHandler(here)
  <2>0. Same(here, d) BY <1>6, InvokeFlow DEF Flow
  <2> HIDE DEF here
  <2>1. frame' = [frame EXCEPT ![f] = d] BY <1>6 DEF Moves
  <2>2. d.parent = c.parent BY <1>6, <2>0 DEF Same
  <2> HIDE DEF d
  <2>3. frame'[f] = d /\ \A g \in FrameId \ {f} : frame'[g] = frame[g] BY <2>1 DEF Typed
  <2>4. ASSUME NEW h \in FrameId, NEW p \in FrameId, Child(h, p)'
        PROVE  Child(h, p) /\ AsChild(frame[h], frame'[h]) /\ AsParent(frame[p], frame'[p])
    <3>1. Child(h, p) BY <1>2, <2>2, <2>3, <2>4 DEF Child, Active
    <3>2. h # f
      <4>1. h = f => Heeds(c, frame[p]) BY <1>3, <3>1 DEF Lineage
      <4>2. h = f => c.req.hop = 1 BY <1>4, <4>1 DEF Heeds
      <4> QED BY <1>3, <1>4, <1>6, <4>2 DEF Traced
    <3>3. p # f BY <1>2, <3>1 DEF Typed, Waited, At
    <3> QED BY <2>3, <3>1, <3>2, <3>3 DEF AsChild, AsParent
  <2> QED BY <1>3, <2>4, KeptLineage
<1>8. \/ RunsInner(f, here)
      \/ Moves(f, Answered(c, Error))
      \/ \E d \in Frame, dst \in Node : CallsOn(f, d, dst)
  BY ExecutedIs
<1> HIDE DEF here
<1>9. CASE RunsInner(f, here) BY <1>6, <1>9 DEF RunsInner
<1>10. CASE \E d \in Frame, dst \in Node : CallsOn(f, d, dst)
  <2>1. PICK d \in Frame, dst \in Node :
          /\ d.parent = c.parent /\ d.trail = c.trail /\ d.req = [c.req EXCEPT !.dst = dst]
          /\ Moves(f, d)
    BY <1>10 DEF CallsOn
  <2>2. AsChild(c, d) BY <1>1, <2>1 DEF AsChild
  <2> HIDE DEF c
  <2> QED BY <1>2, <1>3, <2>1, <2>2, MoveLineage DEF Moves, c
<1> QED BY <1>5, <1>8, <1>9, <1>10

(* learn keeps Lineage.                                                    *)
LEMMA LearnLineage ==
  ASSUME Setting, Typed, Lineage, NEW f \in FrameId, learn(f)
  PROVE  Lineage'
<1>1. Active(f) /\ frame[f].stage # "wait" BY LearnIs DEF At
<1>2. PICK d \in Frame : d.parent = frame[f].parent /\ AsChild(frame[f], d) /\ Moves(f, d)
  BY LearnIs DEF AsChild
<1> QED BY <1>1, <1>2, MoveLineage DEF Moves

(* The call of another node keeps Lineage.                                 *)
LEMMA CalledLineage ==
  ASSUME Setting, Plain, Typed, PathSafe, NEW f \in FrameId, callDetailed(f)
  PROVE  Lineage'
<1> DEFINE c == frame[f]
           m == c.to
           r == Outgoing(c)
<1>1. /\ Active(f) /\ c \in Frame /\ Rooted(c) /\ c.stage = "call" /\ m \in Node
      /\ c.req.method \in {"exec", "learn"}
      /\ \/ Moves(f, Answered(c, Error))
         \/ \E g \in FrameId, w, d \in Frame : CallMade(f, g, c, w, d, m, r)
  BY CalledOut
<1>2. /\ r \in Req
      /\ c.req.method = "learn" => r = [method |-> "peers"]
      /\ c.proxied => r = Exec(c.req.dst, 1, Append(c.req.path, c.node), c.req.inner)
      /\ c.req.method = "exec" /\ ~c.proxied => r = c.req.inner
  BY <1>1, OutgoingIs
<1>3. Lineage /\ Counted(c) /\ c.stage # "wait" BY <1>1 DEF PathSafe, AllCounted
<1> HIDE DEF m, r
<1>4. CASE Moves(f, Answered(c, Error))
  <2>1. Same(c, Answered(c, Error)) BY <1>1, FailsFlow DEF Flow
  <2> QED BY <1>1, <1>3, <1>4, <2>1, FlowLineage DEF Moves
<1>5. CASE \E g \in FrameId, w, d \in Frame : CallMade(f, g, c, w, d, m, r)
  <2>1. /\ r.method # "learn" /\ (r.method = "exec" => r.hop = 1)
        /\ c.req.method = "exec" => (c.proxied <=> r.method = "exec")
    <3>1. CASE c.req.method = "learn" BY <1>2, <3>1
    <3>2. CASE c.proxied BY <1>1, <1>2, <3>2 DEF Exec
    <3>3. CASE c.req.method = "exec" /\ ~c.proxied BY <1>2, <1>3, <3>3 DEF Counted
    <3> QED BY <1>1, <3>1, <3>2, <3>3
  <2>2. AsChild(c, c) BY DEF AsChild
  <2>3. PICK g \in FrameId, w \in Frame, d \in Frame : CallMade(f, g, c, w, d, m, r) BY <1>5
  <2> QED BY <1>1, <1>2, <1>3, <2>1, <2>2, <2>3, CallLineage
<1> QED BY <1>1, <1>4, <1>5

(* Every step keeps Lineage.                                               *)
LEMMA NextLineage ==
  ASSUME Setting, Plain, Typed, PathSafe, Next
  PROVE  Lineage'
<1>0. Lineage BY DEF PathSafe
<1>1. ASSUME NEW f \in FrameId, FrameStep(f) PROVE Lineage'
  <2>0. ASSUME NEW d, Active(f), frame[f].stage # "wait", Flow(frame[f], d), Moves(f, d)
        PROVE  Lineage'
    BY <1>0, <2>0, FlowLineage DEF Flow, Moves
  <2>1. CASE LoadRouteState(f)
    <3>0. /\ Active(f) /\ frame[f].phase = "load" /\ frame[f].stage # "wait"
      BY <2>1 DEF LoadRouteState, InOrder, Writing
    <3>1. PICK s \in RouteState : s = Loaded(f) BY <3>0, LoadedIs
    <3> DEFINE d == [frame[f] EXCEPT !.phase = "use", !.snap = s]
    <3>d. Loads(frame[f], d, "use", s) BY DEF Loads
    <3>2. frame' = [frame EXCEPT ![f] = d] BY <2>1, <3>1 DEF LoadRouteState, Moves
    <3> HIDE DEF d
    <3>3. Same(frame[f], d) BY <3>0, <3>d, LoadIs
    <3> QED BY <1>0, <3>0, <3>2, <3>3, FlowLineage
  <2>2. CASE FindExpired(f)
    <3>1. Active(f) /\ frame[f].stage # "wait" BY <2>2, FindIs DEF Reading, Writing
    <3>2. PICK s \in RouteState :
            frame' = [frame EXCEPT ![f] = [frame[f] EXCEPT !.phase = "prune", !.snap = s]]
      BY <2>2, FindIs
    <3> DEFINE d == [frame[f] EXCEPT !.phase = "prune", !.snap = s]
    <3>d. Loads(frame[f], d, "prune", s) BY DEF Loads
    <3>3. frame' = [frame EXCEPT ![f] = d] BY <3>2
    <3> HIDE DEF d
    <3>4. Same(frame[f], d) BY <3>1, <3>d, LoadIs
    <3> QED BY <1>0, <3>1, <3>4, <3>3, FlowLineage
  <2>3. CASE SavePruned(f)
    <3> DEFINE d == [frame[f] EXCEPT !.phase = "use"]
    <3>1. /\ Active(f) /\ frame[f].snap \in RouteState /\ Save(f, frame[f].snap, d)
          /\ d \in Frame /\ Same(frame[f], d) /\ frame[f].phase = "prune"
      BY <2>3, PruneIs
    <3> HIDE DEF d
    <3> QED BY <1>0, <3>1, SaveLineage
  <2>4. CASE SaveRouteState(f)
    <3> DEFINE c == frame[f]
    <3>1. Active(f) /\ c.stage \in Writing /\ c.phase = "use" /\ Save(f, Mutated(c), After(c))
      BY <2>4 DEF SaveRouteState
    <3>2. c \in Frame /\ Staged(c) BY <3>1, ActiveFrame
    <3>3. c.snap \in RouteState BY <3>1, <3>2 DEF Staged
    <3>4. Mutated(c) \in RouteState BY <3>1, <3>2, <3>3, MutatedIs
    <3>5. Flow(c, After(c)) BY <3>1, <3>2, AfterFlow
    <3> QED BY <1>0, <3>1, <3>4, <3>5, SaveLineage DEF Flow
  <2>5. CASE enforceInboundRoutePolicy(f)
    <3>1. At(f, "enforce") BY <2>5, EnforceIs
    <3>2. PICK d : Moves(f, d) /\ Flow(frame[f], d) BY <2>5, EnforceIs
    <3> QED BY <2>0, <3>1, <3>2 DEF At
  <2>6. CASE authorizeRpc(f)
    <3>1. /\ At(f, "authorize")
          /\ \/ UNCHANGED frame
             \/ \E d : Moves(f, d) /\ Flow(frame[f], d)
      BY <2>6, AuthorizeIs
    <3>2. CASE UNCHANGED frame BY <1>0, <3>2 DEF Lineage, Child, Active
    <3>3. CASE \E d : Moves(f, d) /\ Flow(frame[f], d) BY <2>0, <3>1, <3>3 DEF At
    <3> QED BY <3>1, <3>2, <3>3
  <2>7. CASE listPeerSummaries(f)
    <3>1. At(f, "peers") BY <2>7, PeersIs
    <3>2. PICK a \in Answer : Moves(f, Answered(frame[f], a)) BY <2>7, PeersIs
    <3>3. Flow(frame[f], Answered(frame[f], a)) BY <3>1, ActiveFrame, AnsweredFlow DEF At
    <3> QED BY <2>0, <3>1, <3>2, <3>3 DEF At
  <2>8. CASE executeRouted(f) BY <2>8, ExecutedLineage
  <2>9. CASE learn(f) BY <1>0, <2>9, LearnLineage
  <2>10. CASE LearnNext(f)
    <3>1. At(f, "peek") BY <2>10, NextIs
    <3>2. PICK d : Moves(f, d) /\ Flow(frame[f], d) BY <2>10, NextIs
    <3> QED BY <2>0, <3>1, <3>2 DEF At
  <2>11. CASE Return(f)
    <3>0. At(f, "answer") BY <2>11, ReturnIs
    <3>1. CASE frame' = [frame EXCEPT ![f] = Idle]
      <4>1. frame'[f] = Idle /\ \A g \in FrameId \ {f} : frame'[g] = frame[g] BY <3>1 DEF Typed
      <4>2. ASSUME NEW h \in FrameId, NEW p \in FrameId, Child(h, p)'
            PROVE  Child(h, p) /\ AsChild(frame[h], frame'[h]) /\ AsParent(frame[p], frame'[p])
        <5>1. Child(h, p) /\ h # f BY <4>1, <4>2 DEF Child, Active
        <5>2. p # f BY <3>0, <5>1 DEF Typed, Waited, At
        <5> QED BY <4>1, <5>1, <5>2 DEF AsChild, AsParent
      <4> QED BY <1>0, <4>2, KeptLineage
    <3>2. CASE \E p \in FrameId, d \in Frame :
                 /\ Child(f, p) /\ Resumed(frame[p], d, frame[f].answer)
                 /\ frame' = [frame EXCEPT ![f] = Idle, ![p] = d]
      <4>1. PICK p \in FrameId, d \in Frame :
                 /\ Child(f, p) /\ Resumed(frame[p], d, frame[f].answer)
                 /\ frame' = [frame EXCEPT ![f] = Idle, ![p] = d]
        BY <3>2
      <4>2. Same(frame[p], d) BY <4>1 DEF Resumed
      <4>3. frame[f].stage # "wait" BY <3>0 DEF At
      <4> QED BY <1>0, <4>1, <4>2, <4>3, ReleaseLineage
    <3> QED BY <2>11, <3>1, <3>2, ReturnIs
  <2>12. CASE callDetailed(f) BY <2>12, CalledLineage
  <2> QED BY <1>1, <2>1, <2>2, <2>3, <2>4, <2>5, <2>6, <2>7, <2>8, <2>9, <2>10, <2>11, <2>12
          DEF FrameStep
<1>2. ASSUME NEW f \in FrameId, Request(f) PROVE Lineage'
  <2>1. PICK r \in Requests, c \in Frame, d \in Frame :
          /\ frame' = [frame EXCEPT ![f] = d]
          /\ Incoming(c, r.node, NoNode, r.node, r.auth, r.req, Idle, <<>>)
          /\ Fresh(c) /\ d = dispatch(c)
    BY <1>2, RequestIs
  <2>2. ~Active(f) BY <1>2, RequestIs
  <2>3. d.parent = Idle BY <2>1, DispatchFlow DEF Incoming, Flow, Same
  <2>4. frame'[f] = d /\ \A g \in FrameId \ {f} : frame'[g] = frame[g] BY <2>1 DEF Typed
  <2>5. ASSUME NEW h \in FrameId, NEW p \in FrameId, Child(h, p)'
        PROVE  Child(h, p) /\ AsChild(frame[h], frame'[h]) /\ AsParent(frame[p], frame'[p])
    <3>1. p # Idle
      <4>1. Idle \notin FrameId BY DEF Setting
      <4> QED BY <4>1
    <3>2. h # f BY <2>3, <2>4, <2>5, <3>1 DEF Child
    <3>3. Child(h, p) BY <2>4, <2>5, <3>2 DEF Child, Active
    <3>4. p # f BY <2>2, <3>3 DEF Typed, Waited, At
    <3> QED BY <2>4, <3>2, <3>3, <3>4 DEF AsChild, AsParent
  <2> QED BY <1>0, <2>5, KeptLineage
<1>3. ASSUME NEW f \in FrameId, GiveUp(f) PROVE Lineage'
  <2>1. Active(f) /\ frame[f] \in Frame BY <1>3, GiveUpIs, ActiveFrame
  <2>2. PICK p \in FrameId, a \in Frame, d \in Frame :
          /\ Child(f, p) /\ frame' = [frame EXCEPT ![f] = a, ![p] = d]
          /\ a = [frame[f] EXCEPT !.parent = Idle]
          /\ Flow(frame[p], d)
    BY <1>3, GiveUpIs
  <2>3. a # Idle /\ a.parent = Idle /\ AsParent(frame[f], a)
    BY <2>1, <2>2, OrphanIs, FrameIsActive DEF AsParent
  <2>4. Same(frame[p], d) BY <2>2 DEF Flow
  <2> QED BY <1>0, <2>2, <2>3, <2>4, ReleaseLineage
<1>4. CASE \/ \E f \in FrameId : WithIam(CheckStep(f))
           \/ \E a \in Admin : WithIam(AdminStep(a))
  <2>1. UNCHANGED callVars BY <1>4, QuietIs
  <2> QED BY <1>0, <2>1 DEF callVars, Lineage, Child, Active
<1> QED BY <1>1, <1>2, <1>3, <1>4 DEF Next

(* The path that exec reports is the one the call went, over a proxy or    *)
(* not, whoever gave up and whatever was learnt meanwhile, when no node    *)
(* starts with a peer to be reached over that peer itself.                 *)
THEOREM PathIsTrueAlways ==
  ASSUME Setting, Plain, \A n \in Node : ViaElse(RoutesAtStart[n])
  PROVE  Spec => []PathIsTrue
<1>1. Init => PathSafe
  BY DEF Init, PathSafe, AllCounted, AllTraced, RoutesElse, AllSound, Lineage, Active, Child
<1>2. PathSafe /\ UNCHANGED vars => PathSafe'
  BY DEF vars, callVars, PathSafe, AllCounted, AllTraced, RoutesElse, AllSound, Lineage, Active, Child
<1>3. Typed /\ PathSafe /\ Next => PathSafe'
  <2> SUFFICES ASSUME Typed, PathSafe, Next PROVE PathSafe' OBVIOUS
  <2>1. AllCounted' BY NextCounted DEF PathSafe
  <2>2. AllTraced' BY NextTraced
  <2>3. Sounds' BY NextSound
  <2>4. Lineage' BY NextLineage
  <2> QED BY <2>1, <2>2, <2>3, <2>4 DEF PathSafe, Sounds
<1>4. PathSafe => PathIsTrue BY DEF PathSafe, AllSound, Sound, Honest, PathIsTrue
<1> QED BY <1>1, <1>2, <1>3, <1>4, AlwaysTyped, PTL DEF Spec

-----------------------------------------------------------------------------
(* Groups, grants and the evaluations of canInvoke, for every set of       *)
(* groups, users, grants and evaluations: that no caller is let through    *)
(* while a grant denies it all along, whatever the administrators change   *)
(* meanwhile, and that one administrator never makes the groups hold one   *)
(* another in a circle, however often it is cut short. Above, the groups   *)
(* from which a reference is reached, is first shown to be the least set   *)
(* that is closed under the edges; both invariants rest on that.           *)

(* Any operator: of FoldProofs only the induction on naturals is used.     *)
Pair(a, b) == <<a, b>>
Count == INSTANCE FoldProofs WITH Op <- Pair

(* The reference itself, and the groups from which it is reached.          *)
Reach(x, F) == {x} \cup Above(x, F)

(* The groups that hold one of U.                                          *)
Holders(U, F) == {g \in Group : \E y \in U : <<g, y>> \in F}

(* The sets that Above goes through, in n rounds.                          *)
IsClimb(up, x, F, n) ==
  up = [i \in 0..n |-> IF i = 0 THEN {x} ELSE up[i - 1] \cup Holders(up[i - 1], F)]

(* There are such sets for any number of rounds.                           *)
LEMMA ClimbExists ==
  ASSUME NEW x, NEW F, NEW n \in Nat
  PROVE  \E up : IsClimb(up, x, F, n)
<1> DEFINE S == {m \in Nat : \E up : IsClimb(up, x, F, m)}
<1>1. 0 \in S
  <2> DEFINE up == [i \in 0..0 |-> {x}]
  <2>1. up = [i \in 0..0 |-> IF i = 0 THEN {x} ELSE up[i - 1] \cup Holders(up[i - 1], F)]
    OBVIOUS
  <2>2. IsClimb(up, x, F, 0) BY <2>1 DEF IsClimb
  <2> QED BY <2>2
<1>2. \A m \in Nat : m \in S => m + 1 \in S
  <2> SUFFICES ASSUME NEW m \in Nat, m \in S PROVE m + 1 \in S
    OBVIOUS
  <2>1. PICK old : IsClimb(old, x, F, m) OBVIOUS
  <2> DEFINE top == old[m] \cup Holders(old[m], F)
  <2> DEFINE up == [i \in 0..(m + 1) |-> IF i = m + 1 THEN top ELSE old[i]]
  <2>2. ASSUME NEW i \in 0..(m + 1)
        PROVE  up[i] = IF i = 0 THEN {x} ELSE up[i - 1] \cup Holders(up[i - 1], F)
    <3> HIDE DEF top
    <3>1. CASE i = m + 1
      <4>1. up[i] = top /\ i # 0 /\ up[i - 1] = old[m] BY <3>1
      <4> QED BY <4>1 DEF top
    <3>2. CASE i # m + 1
      <4>1. i \in 0..m /\ up[i] = old[i] BY <3>2
      <4>2. old[i] = IF i = 0 THEN {x} ELSE old[i - 1] \cup Holders(old[i - 1], F)
        BY <2>1, <4>1 DEF IsClimb
      <4>3. i # 0 => up[i - 1] = old[i - 1] BY <4>1
      <4> HIDE DEF up
      <4> QED BY <4>1, <4>2, <4>3
    <3> QED BY <3>1, <3>2
  <2>3. up = [i \in 0..(m + 1) |->
                 IF i = 0 THEN {x} ELSE up[i - 1] \cup Holders(up[i - 1], F)]
    <3> DEFINE h == [i \in 0..(m + 1) |->
                       IF i = 0 THEN {x} ELSE up[i - 1] \cup Holders(up[i - 1], F)]
    <3>1. \A i \in 0..(m + 1) : up[i] = h[i] BY <2>2
    <3> QED BY <3>1
  <2>4. IsClimb(up, x, F, m + 1)
    <3> HIDE DEF up
    <3> QED BY <2>3 DEF IsClimb
  <2> QED BY <2>4
<1>3. Nat \subseteq S
  <2> HIDE DEF S
  <2> QED BY <1>1, <1>2, Count!SetInduction
<1> QED BY <1>3

(* Above is the last of them, after as many rounds as there are groups.    *)
LEMMA AboveIsClimb ==
  ASSUME NEW x, NEW F, IsFiniteSet(Group)
  PROVE  \E up : IsClimb(up, x, F, Cardinality(Group))
                 /\ Above(x, F) = up[Cardinality(Group)] \ {x}
<1> DEFINE n == Cardinality(Group)
           up == CHOOSE f : IsClimb(f, x, F, n)
<1>1. n \in Nat BY FS_CardinalityType
<1>2. IsClimb(up, x, F, n)
  <2> HIDE DEF n
  <2> QED BY <1>1, ClimbExists
<1>3. Above(x, F) = (CHOOSE f : f = [i \in 0..n |-> IF i = 0 THEN {x}
            ELSE f[i - 1] \cup {g \in Group : \E y \in f[i - 1] : <<g, y>> \in F}])[n] \ {x}
  BY DEF Above
<1>4. Above(x, F) = up[n] \ {x} BY <1>3 DEF IsClimb, Holders
<1> QED BY <1>2, <1>4

(* Each round adds the holders of what was reached.                        *)
Rounds(up, x, F, n) ==
  /\ up[0] = {x}
  /\ \A i \in Nat : i + 1 <= n => up[i + 1] = up[i] \cup Holders(up[i], F)

(* Every round stays within each closed set that holds the reference.      *)
Within(up, x, F, n) ==
  \A i \in 0..n : /\ x \in up[i]
                  /\ up[i] \subseteq Group \cup {x}
                  /\ \A U : x \in U /\ Holders(U, F) \subseteq U => up[i] \subseteq U

(* Above is computed in such rounds.                                       *)
LEMMA ClimbStep ==
  ASSUME NEW x, NEW F, NEW n \in Nat, NEW up, IsClimb(up, x, F, n)
  PROVE  Rounds(up, x, F, n)
<1>1. \A i \in 0..n : up[i] = IF i = 0 THEN {x} ELSE up[i - 1] \cup Holders(up[i - 1], F)
  <2> DEFINE h == [i \in 0..n |-> IF i = 0 THEN {x} ELSE up[i - 1] \cup Holders(up[i - 1], F)]
  <2>1. up = h BY DEF IsClimb
  <2>2. \A i \in 0..n : h[i] = IF i = 0 THEN {x} ELSE up[i - 1] \cup Holders(up[i - 1], F)
    OBVIOUS
  <2> HIDE DEF h
  <2> QED BY <2>1, <2>2
<1>2. ASSUME NEW i \in Nat, i + 1 <= n PROVE up[i + 1] = up[i] \cup Holders(up[i], F)
  <2>1. i + 1 \in 0..n /\ i + 1 # 0 /\ (i + 1) - 1 = i BY <1>2
  <2>2. up[i + 1] = up[(i + 1) - 1] \cup Holders(up[(i + 1) - 1], F) BY <1>1, <2>1
  <2> QED BY <2>1, <2>2
<1>3. 0 \in 0..n OBVIOUS
<1> QED BY <1>1, <1>2, <1>3 DEF Rounds

(* They grow within.                                                       *)
LEMMA ClimbGrows ==
  ASSUME NEW x, NEW F, NEW n \in Nat, NEW up, Rounds(up, x, F, n)
  PROVE  Within(up, x, F, n)
<1>0. /\ up[0] = {x}
      /\ \A i \in Nat : i + 1 <= n => up[i + 1] = up[i] \cup Holders(up[i], F)
  BY DEF Rounds
<1> DEFINE Fine(V) == /\ x \in V
                      /\ V \subseteq Group \cup {x}
                      /\ \A U : x \in U /\ Holders(U, F) \subseteq U => V \subseteq U
           S == {i \in Nat : i <= n => Fine(up[i])}
<1>1. 0 \in S
  <2>1. up[0] = {x} BY <1>0
  <2> QED BY <2>1
<1>2. \A i \in Nat : i \in S => i + 1 \in S
  <2> SUFFICES ASSUME NEW i \in Nat, i \in S, i + 1 <= n PROVE Fine(up[i + 1])
    OBVIOUS
  <2>1. up[i + 1] = up[i] \cup Holders(up[i], F) BY <1>0
  <2>2. Fine(up[i]) OBVIOUS
  <2> DEFINE V == up[i]
             W == up[i + 1]
  <2>3. Fine(V) /\ W = V \cup Holders(V, F) BY <2>1, <2>2
  <2> HIDE DEF V, W
  <2>4. Holders(V, F) \subseteq Group BY DEF Holders
  <2>5. ASSUME NEW U, x \in U, Holders(U, F) \subseteq U PROVE W \subseteq U
    <3>1. V \subseteq U BY <2>3, <2>5
    <3>2. Holders(V, F) \subseteq Holders(U, F) BY <3>1 DEF Holders
    <3> QED BY <3>1, <3>2, <2>3, <2>5
  <2>6. Fine(W) BY <2>3, <2>4, <2>5
  <2> QED BY <2>6 DEF W
<1>3. Nat \subseteq S
  <2> HIDE DEF S
  <2> QED BY <1>1, <1>2, Count!SetInduction
<1> QED BY <1>3 DEF Within

(* After as many rounds as there are groups nothing is left to add: each   *)
(* round before added a group.                                             *)
LEMMA ClimbEnds ==
  ASSUME NEW x, NEW F, NEW n \in Nat, NEW up, Rounds(up, x, F, n), Within(up, x, F, n),
         IsFiniteSet(Group), n = Cardinality(Group)
  PROVE  Holders(up[n], F) \subseteq up[n] \cup {x}
<1>0. /\ up[0] = {x}
      /\ \A i \in Nat : i + 1 <= n => up[i + 1] = up[i] \cup Holders(up[i], F)
  BY DEF Rounds
<1> DEFINE V(i) == up[i] \ {x}
           Done(i) == Holders(up[i], F) \subseteq up[i]
           S == {i \in Nat : i <= n => Done(i) \/ Cardinality(V(i)) >= i}
<1>1. \A i \in 0..n : up[i] \subseteq Group \cup {x} /\ x \in up[i] BY DEF Within
<1>2. \A i \in 0..n : V(i) \in SUBSET Group BY <1>1
<1>3. \A i \in 0..n : IsFiniteSet(V(i)) /\ Cardinality(V(i)) \in Nat
                      /\ Cardinality(V(i)) <= n /\ (Cardinality(V(i)) = n => V(i) = Group)
  <2> HIDE DEF V
  <2> QED BY <1>2, FS_Subset, FS_CardinalityType
<1>4. 0 \in S
  <2>1. Cardinality(V(0)) \in Nat BY <1>3
  <2> HIDE DEF V, Done
  <2> QED BY <2>1
<1>5. \A i \in Nat : i \in S => i + 1 \in S
  <2> SUFFICES ASSUME NEW i \in Nat, i \in S, i + 1 <= n
               PROVE  Done(i + 1) \/ Cardinality(V(i + 1)) >= i + 1
    <3> HIDE DEF V, Done
    <3> QED OBVIOUS
  <2>1. up[i + 1] = up[i] \cup Holders(up[i], F) BY <1>0
  <2>2. CASE Done(i)
    <3>1. up[i + 1] = up[i] BY <2>1, <2>2
    <3> QED BY <3>1, <2>2
  <2>3. CASE ~Done(i)
    <3>1. PICK g \in Holders(up[i], F) : g \notin up[i] BY <2>3
    <3>2. g # x BY <3>1, <1>1
    <3>3. V(i) \cup {g} \in SUBSET V(i + 1) BY <3>1, <3>2, <2>1
    <3>4. g \notin V(i) BY <3>1
    <3>5. Cardinality(V(i)) >= i /\ IsFiniteSet(V(i)) /\ Cardinality(V(i)) \in Nat
      <4>1. i \in 0..n OBVIOUS
      <4> HIDE DEF V, Done
      <4> QED BY <2>3, <4>1, <1>3 DEF S
    <3>6. IsFiniteSet(V(i + 1)) /\ Cardinality(V(i + 1)) \in Nat
      <4>1. i + 1 \in 0..n OBVIOUS
      <4> HIDE DEF V
      <4> QED BY <4>1, <1>3
    <3> HIDE DEF V
    <3>7. Cardinality(V(i) \cup {g}) = Cardinality(V(i)) + 1 BY <3>4, <3>5, FS_AddElement
    <3>8. Cardinality(V(i) \cup {g}) <= Cardinality(V(i + 1)) BY <3>3, <3>6, FS_Subset
    <3> QED BY <3>5, <3>6, <3>7, <3>8
  <2> QED BY <2>2, <2>3
<1>6. n \in S
  <2> HIDE DEF S
  <2> QED BY <1>4, <1>5, Count!SetInduction
<1>7. CASE Done(n) BY <1>7
<1>8. CASE ~Done(n)
  <2>1. V(n) = Group
    <3>1. n \in 0..n OBVIOUS
    <3> HIDE DEF V, Done
    <3> QED BY <1>8, <1>6, <1>3, <3>1
  <2> QED BY <2>1 DEF Holders
<1> QED BY <1>7, <1>8

(* Reach is the least set that holds x and is closed under the edges.      *)
LEMMA ReachFacts ==
  ASSUME IsFiniteSet(Group), NEW x, NEW F
  PROVE  /\ x \in Reach(x, F) /\ Reach(x, F) \subseteq Group \cup {x}
         /\ x \notin Above(x, F) /\ Above(x, F) = Reach(x, F) \ {x}
         /\ \A g \in Group : \A y \in Reach(x, F) : <<g, y>> \in F => g \in Reach(x, F)
         /\ \A U : x \in U /\ (\A g \in Group : \A y \in U : <<g, y>> \in F => g \in U)
                     => Reach(x, F) \subseteq U
<1> DEFINE n == Cardinality(Group)
<1>0. n \in Nat BY FS_CardinalityType
<1>1. PICK up : IsClimb(up, x, F, n) /\ Above(x, F) = up[n] \ {x} BY AboveIsClimb
<1>a. Rounds(up, x, F, n) /\ Within(up, x, F, n)
  <2> HIDE DEF n
  <2>1. IsClimb(up, x, F, n) BY <1>1
  <2>2. Rounds(up, x, F, n) BY <1>0, <2>1, ClimbStep
  <2> QED BY <1>0, <2>2, ClimbGrows
<1>2. x \in up[n] /\ up[n] \subseteq Group \cup {x}
      /\ \A U : x \in U /\ Holders(U, F) \subseteq U => up[n] \subseteq U
  <2> HIDE DEF n
  <2>1. n \in 0..n BY <1>0
  <2>2. Within(up, x, F, n) BY <1>a
  <2> QED BY <2>1, <2>2 DEF Within
<1>3. Holders(up[n], F) \subseteq up[n] BY <1>0, <1>a, <1>2, ClimbEnds
<1>4. Reach(x, F) = up[n] BY <1>1, <1>2 DEF Reach
<1> DEFINE R == up[n]
<1>5. /\ Reach(x, F) = R /\ Above(x, F) = R \ {x} /\ x \in R /\ R \subseteq Group \cup {x}
      /\ Holders(R, F) \subseteq R
      /\ \A U : x \in U /\ Holders(U, F) \subseteq U => R \subseteq U
  BY <1>1, <1>2, <1>3, <1>4
<1> HIDE DEF R
<1>6. \A g \in Group : \A y \in R : <<g, y>> \in F => g \in R BY <1>5 DEF Holders
<1>7. ASSUME NEW U, x \in U, \A g \in Group : \A y \in U : <<g, y>> \in F => g \in U
      PROVE  R \subseteq U
  <2>1. Holders(U, F) \subseteq U BY <1>7 DEF Holders
  <2> QED BY <2>1, <1>5, <1>7
<1> QED BY <1>5, <1>6, <1>7

(* A group above x holds x, or a group that is above x as well.            *)
LEMMA AboveHolds ==
  ASSUME IsFiniteSet(Group), NEW x, NEW F, NEW h \in Above(x, F)
  PROVE  h \in Group /\ h # x /\ \E y \in Reach(x, F) : <<h, y>> \in F
<1> DEFINE R == Reach(x, F)
           U == {x} \cup {g \in R : g \in Group /\ \E y \in R : <<g, y>> \in F}
<1>1. /\ x \in R /\ R \subseteq Group \cup {x} /\ Above(x, F) = R \ {x}
      /\ \A g \in Group : \A y \in R : <<g, y>> \in F => g \in R
  BY ReachFacts
<1>2. R \subseteq U
  <2>1. \A W : x \in W /\ (\A g \in Group : \A y \in W : <<g, y>> \in F => g \in W)
                 => R \subseteq W
    BY ReachFacts
  <2> HIDE DEF R
  <2>2. \A g \in Group : \A y \in U : <<g, y>> \in F => g \in U BY <1>1
  <2> QED BY <2>1, <2>2
<1> HIDE DEF R
<1>3. h \in R /\ h # x BY <1>1
<1> QED BY <1>2, <1>3 DEF R

(* Fewer edges reach less.                                                 *)
LEMMA ReachMonotone ==
  ASSUME IsFiniteSet(Group), NEW x, NEW F, NEW E, E \subseteq F
  PROVE  Reach(x, E) \subseteq Reach(x, F) /\ Above(x, E) \subseteq Above(x, F)
<1> DEFINE R == Reach(x, F)
<1>1. /\ x \in R /\ Above(x, F) = R \ {x}
      /\ \A g \in Group : \A y \in R : <<g, y>> \in F => g \in R
  BY ReachFacts
<1>2. \A g \in Group : \A y \in R : <<g, y>> \in E => g \in R BY <1>1
<1>3. /\ Above(x, E) = Reach(x, E) \ {x}
      /\ \A W : x \in W /\ (\A g \in Group : \A y \in W : <<g, y>> \in E => g \in W)
                 => Reach(x, E) \subseteq W
  BY ReachFacts
<1> HIDE DEF R
<1>4. Reach(x, E) \subseteq R BY <1>1, <1>2, <1>3
<1> QED BY <1>1, <1>3, <1>4 DEF R

(* What reaches a group above x reaches x.                                 *)
LEMMA ReachWithin ==
  ASSUME IsFiniteSet(Group), NEW x, NEW F, NEW y \in Reach(x, F)
  PROVE  Reach(y, F) \subseteq Reach(x, F)
<1>1. \A g \in Group : \A z \in Reach(x, F) : <<g, z>> \in F => g \in Reach(x, F)
  BY ReachFacts
<1>2. \A W : y \in W /\ (\A g \in Group : \A z \in W : <<g, z>> \in F => g \in W)
              => Reach(y, F) \subseteq W
  BY ReachFacts
<1> QED BY <1>1, <1>2

(* GroupsAcyclic, for any edges.                                           *)
Acyclic(E) ==
  \A g \in Group : <<g, g>> \notin E /\ \A h \in Above(g, E) : g \notin Above(h, E)

(* Some group of every set of groups holds none of that set. This, unlike  *)
(* Acyclic, is easily seen to last when an edge is added.                  *)
Grounded(E) ==
  \A S \in SUBSET Group : S # {} => \E g \in S : \A h \in S : <<g, h>> \notin E

(* Grounded edges have no circle: a circle would be a set of groups each   *)
(* of which holds one of it.                                               *)
LEMMA GroundedIsAcyclic ==
  ASSUME IsFiniteSet(Group), NEW E, Grounded(E)
  PROVE  Acyclic(E)
<1>1. ASSUME NEW g \in Group PROVE <<g, g>> \notin E
  <2>1. {g} \in SUBSET Group /\ {g} # {} OBVIOUS
  <2>2. \E y \in {g} : \A h \in {g} : <<y, h>> \notin E BY <2>1 DEF Grounded
  <2> QED BY <2>2
<1>2. ASSUME NEW g \in Group, NEW h \in Above(g, E), g \in Above(h, E) PROVE FALSE
  <2> DEFINE R == Reach(g, E)
  <2>1. R \subseteq Group /\ R # {} /\ Above(g, E) = R \ {g} /\ h \in R
    BY ReachFacts
  <2>2. Reach(h, E) \subseteq R BY <2>1, ReachWithin
  <2>3. \E y \in R : <<g, y>> \in E BY <1>2, <2>2, AboveHolds
  <2>4. ASSUME NEW z \in R PROVE \E y \in R : <<z, y>> \in E
    <3>1. CASE z = g BY <3>1, <2>3
    <3>2. CASE z # g
      <4>1. z \in Above(g, E) BY <3>2, <2>1
      <4> QED BY <4>1, AboveHolds
    <3> QED BY <3>1, <3>2
  <2> HIDE DEF R
  <2> QED BY <2>1, <2>4 DEF Grounded
<1> QED BY <1>1, <1>2 DEF Acyclic

(* Without a circle the edges are grounded: from the group of a set that   *)
(* most groups reach no edge leads within the set.                         *)
LEMMA AcyclicIsGrounded ==
  ASSUME IsFiniteSet(Group), NEW E, Acyclic(E)
  PROVE  Grounded(E)
<1> SUFFICES ASSUME NEW S \in SUBSET Group, S # {},
                    \A g \in S : \E h \in S : <<g, h>> \in E
             PROVE  FALSE
  BY DEF Grounded
<1> DEFINE Rest(g) == Group \ Reach(g, E)
           T == {Rest(g) : g \in S}
           R == StrictSubsetOrdering(Group)
<1>1. \A g \in S : Rest(g) \subseteq Group /\ IsFiniteSet(Rest(g))
  <2>1. \A g \in S : Rest(g) \in SUBSET Group OBVIOUS
  <2> HIDE DEF Rest
  <2> QED BY <2>1, FS_Subset
<1>2. T \subseteq FiniteSubsetsOf(Group) /\ T # {}
  <2> HIDE DEF Rest
  <2> QED BY <1>1 DEF FiniteSubsetsOf
<1>3. PICK least \in T : \A y \in T : ~(<<y, least>> \in R)
  <2>1. IsWellFoundedOn(R, FiniteSubsetsOf(Group))
    BY FS_StrictSubsetOrderingWellFounded
  <2> HIDE DEF R, T
  <2> QED BY <2>1, <1>2, WFMin
<1>4. PICK g \in S : least = Rest(g) OBVIOUS
<1>5. PICK h \in S : <<g, h>> \in E OBVIOUS
<1>6. g \in Group /\ h \in Group /\ g # h BY <1>5 DEF Acyclic
<1>7. g \in Above(h, E)
  <2>1. h \in Reach(h, E) /\ Above(h, E) = Reach(h, E) \ {h} BY ReachFacts
  <2>2. g \in Reach(h, E) BY <1>5, <1>6, <2>1, ReachFacts
  <2> QED BY <2>1, <2>2, <1>6
<1>8. h \notin Reach(g, E)
  <2>1. h \notin Above(g, E) BY <1>6, <1>7 DEF Acyclic
  <2> QED BY <2>1, <1>6 DEF Reach
<1>9. Reach(g, E) \subseteq Reach(h, E) /\ h \in Reach(h, E)
  <2>1. g \in Reach(h, E) BY <1>7 DEF Reach
  <2> QED BY <2>1, ReachWithin, ReachFacts
<1>10. Rest(h) \subseteq Rest(g) /\ Rest(h) # Rest(g) /\ Rest(g) \subseteq Group
  BY <1>6, <1>8, <1>9
<1>11. <<Rest(h), Rest(g)>> \in R
  <2> HIDE DEF Rest
  <2> QED BY <1>10 DEF StrictSubsetOrdering
<1> QED BY <1>3, <1>4, <1>11

(* Edges stay grounded when some go, and when a group g takes in groups    *)
(* from which g is not reached.                                            *)
LEMMA StaysGrounded ==
  ASSUME IsFiniteSet(Group), NEW E, NEW D, NEW g \in Group, Grounded(E),
         \A h, x \in Group : <<h, x>> \in D =>
             <<h, x>> \in E \/ (h = g /\ x \notin Reach(g, E))
  PROVE  Grounded(D)
<1> SUFFICES ASSUME NEW S \in SUBSET Group, S # {}
             PROVE  \E m \in S : \A h \in S : <<m, h>> \notin D
  BY DEF Grounded
<1> DEFINE R == Reach(g, E)
           T == S \ R
<1>1. /\ g \in R /\ R \subseteq Group
      /\ \A z \in Group : \A y \in R : <<z, y>> \in E => z \in R
  BY ReachFacts
<1>2. \A h, x \in Group : <<h, x>> \in D => <<h, x>> \in E \/ (h = g /\ x \notin R)
  OBVIOUS
<1> HIDE DEF R
<1>3. CASE T = {}
  <2>1. PICK m \in S : \A h \in S : <<m, h>> \notin E BY DEF Grounded
  <2>2. \A h \in S : <<m, h>> \notin D BY <1>2, <1>3, <2>1
  <2> QED BY <2>2
<1>4. CASE T # {}
  <2>1. T \in SUBSET Group OBVIOUS
  <2>2. PICK m \in T : \A h \in T : <<m, h>> \notin E BY <1>4, <2>1 DEF Grounded
  <2>3. ASSUME NEW h \in S, <<m, h>> \in D PROVE FALSE
    <3>1. m # g BY <1>1
    <3>2. <<m, h>> \in E BY <1>2, <2>3, <3>1
    <3>3. h \in R BY <2>2, <3>2
    <3>4. m \in R BY <1>1, <3>2, <3>3
    <3> QED BY <3>4
  <2> QED BY <2>3
<1> QED BY <1>3, <1>4

(* The records that groups have: a group is held as a subgroup, never as   *)
(* a member.                                                               *)
Record == [members : SUBSET User, subgroups : SUBSET Group]

(* What administrators ask for that concerns one group.                    *)
GroupOp == [kind : {"createGroup", "ensureGuest", "deleteGroup"}, group : Group]
(* Users in and out of groups.                                             *)
MemberOp == [kind : {"addMember", "removeMember"}, group : Group, item : User]
(* Groups in and out of groups.                                            *)
SubgroupOp == [kind : {"addSubgroup", "removeSubgroup"}, group : Group, item : Group]
(* Grants.                                                                 *)
GrantOp == [kind : {"grant"}, subject : Subject, command : Command, grant : Grant]
           \cup [kind : {"revoke"}, subject : Subject, command : Command]
(* What administrators ask for.                                            *)
AdminOp == GroupOp \cup MemberOp \cup SubgroupOp \cup GrantOp

(* What the constants are: finitely many groups, that start with records,  *)
(* and requests for what there is.                                         *)
GroupSetting ==
  /\ IsFiniteSet(Group) /\ Idle \notin Group
  /\ GroupsAtStart \in [Group -> Record \cup {NoGroup}]
  /\ GuestGroup \in Group /\ GuestUser \in User
  /\ AdminOps \subseteq AdminOp

(* The store holds group records.                                          *)
Stored == groups \in [Group -> Record \cup {NoGroup}]

(* The edges are what the records say.                                     *)
LEMMA EdgeOf ==
  ASSUME NEW g, NEW x
  PROVE  <<g, x>> \in Edges <=>
           g \in Group /\ Exists(g) /\ x \in groups[g].members \cup groups[g].subgroups
BY DEF Edges

(* The fields of a walk.                                                   *)
LEMMA WalkFields ==
  ASSUME NEW w, NEW i, NEW t, NEW f, w = Walk(i, t, f)
  PROVE  w.item = i /\ w.todo = t /\ w.first = f
BY DEF Walk

(* What isMember says of one group, and how it goes on.                    *)
LEMMA VisitSays ==
  ASSUME NEW w, NEW h, NEW rest, rest = (w.todo \ {h}) \cup Subgroups(h)
  PROVE  /\ Visit(w, h).said \in {"yes", "no", "error", "more"}
         /\ Visit(w, h).said \in {"more", "no"} =>
              /\ Exists(h) /\ w.item \notin groups[h].members /\ (h = w.first \/ h # w.item)
              /\ Visit(w, h).walk = Walk(w.item, rest, Idle)
              /\ Visit(w, h).said = "no" <=> rest = {}
<1> DEFINE v == Visit(w, h)
<1>1. v = VisitWith(w, h, rest) BY DEF Visit
<1> HIDE DEF v
<1>2. CASE h # w.first /\ h = w.item
  <2>1. v = [said |-> "yes", walk |-> w] BY <1>1, <1>2 DEF VisitWith
  <2> QED BY <2>1 DEF v
<1>3. CASE ~(h # w.first /\ h = w.item) /\ ~Exists(h)
  <2>1. v = [said |-> "error", walk |-> w] BY <1>1, <1>3 DEF VisitWith
  <2> QED BY <2>1 DEF v
<1>4. CASE ~(h # w.first /\ h = w.item) /\ Exists(h) /\ w.item \in groups[h].members
  <2>1. v = [said |-> "yes", walk |-> w] BY <1>1, <1>4 DEF VisitWith
  <2> QED BY <2>1 DEF v
<1>5. CASE ~(h # w.first /\ h = w.item) /\ Exists(h) /\ w.item \notin groups[h].members
  <2>1. v = [said |-> IF rest = {} THEN "no" ELSE "more", walk |-> Walk(w.item, rest, Idle)]
    BY <1>1, <1>5 DEF VisitWith
  <2> QED BY <2>1, <1>5 DEF v
<1> QED BY <1>2, <1>3, <1>4, <1>5

(* As long as isMember finds nothing, a group from which the item is       *)
(* reached is among those still to visit.                                  *)
LEMMA SearchGoesOn ==
  ASSUME GroupSetting, Stored, NEW F, F \subseteq Edges,
         NEW w, w.todo \subseteq Group, w.item \in Group => w.first # w.item, NEW h \in w.todo,
         NEW y \in w.todo, y \in Reach(w.item, F),
         Visit(w, h).said \in {"more", "no"}
  PROVE  \E z \in (w.todo \ {h}) \cup Subgroups(h) : z \in Reach(w.item, F)
<1> DEFINE rest == (w.todo \ {h}) \cup Subgroups(h)
           R == Reach(w.item, F)
<1>1. Exists(h) /\ w.item \notin groups[h].members /\ h # w.item
  BY VisitSays
<1>2. CASE h \notin R
  <2> HIDE DEF R
  <2>1. y \in rest /\ y \in R BY <1>2 DEF R
  <2> QED BY <2>1 DEF R
<1>3. CASE h \in R
  <2>1. R \subseteq Group \cup {w.item} /\ Above(w.item, F) = R \ {w.item} /\ IsFiniteSet(Group)
    BY ReachFacts DEF GroupSetting
  <2> HIDE DEF R
  <2>2. h \in Above(w.item, F) BY <1>1, <1>3, <2>1
  <2>3. PICK z \in R : <<h, z>> \in F BY <2>1, <2>2, AboveHolds DEF R
  <2>4. z \in groups[h].members \cup groups[h].subgroups BY <2>3, EdgeOf
  <2>5. groups[h].members \subseteq User
    <3>1. groups[h] \in Record BY <1>1 DEF Stored, Exists
    <3> QED BY <3>1 DEF Record
  <2>6. z \notin groups[h].members
    <3>1. z \in Group \cup {w.item} BY <2>1
    <3> QED BY <3>1, <2>5, <1>1, IamAssumption
  <2>7. z \in Subgroups(h) BY <2>4, <2>6, <1>1 DEF Subgroups
  <2> QED BY <2>7 DEF R
<1> QED BY <1>2, <1>3

(* The fields of an evaluation.                                            *)
EvalShape(k) ==
  k = [q |-> k.q, phase |-> k.phase, ask |-> k.ask, of |-> k.of, walk |-> k.walk,
       subjects |-> k.subjects, left |-> k.left, found |-> k.found]

(* The user and the groups the caller claims.                              *)
Named(k) == {k.q.user} \cup k.q.claimed

(* What was held all along is held now.                                    *)
Kept(s, E) == s = [edges |-> s.edges, grants |-> s.grants] /\ s.edges \subseteq E

(* Nothing is asked about but those named, and these are subjects.         *)
AsksNamed(k) == Named(k) \subseteq k.subjects /\ k.ask \subseteq Group \X Named(k)

(* The walk of an evaluation.                                              *)
Walked(k) ==
  k.phase = "walk" =>
    /\ k.walk = Walk(k.walk.item, k.walk.todo, k.walk.first)
    /\ k.walk.todo \subseteq Group /\ k.walk.first \in {k.of, Idle}

(* The walk under way asks whether g is above x, and has not missed it.    *)
Sought(k, g, x, F) ==
  k.phase = "walk" /\ k.of = g /\ k.walk.item = x /\ \E y \in k.walk.todo : y \in Reach(x, F)

(* Every group above those named, over memberships that were not touched   *)
(* meanwhile, is a subject already, or is still to be asked about, or is   *)
(* being asked about.                                                      *)
Pending(k, s) ==
  k.phase \in {"ask", "walk"} =>
    \A F \in SUBSET s.edges : \A x \in Named(k) : \A g \in Above(x, F) :
      g \in k.subjects \/ <<g, x>> \in k.ask \/ Sought(k, g, x, F)

(* All of them are subjects when the questions are over.                   *)
Gathered(k, s) ==
  k.phase \in {"grants", "allowed"} =>
    \A F \in SUBSET s.edges : \A x \in Named(k) : Above(x, F) \subseteq k.subjects

(* Every grant of a subject that was not touched meanwhile and has been    *)
(* read has been found.                                                    *)
Looked(k, s, gr) ==
  k.phase \in {"grants", "allowed"} =>
    \A t \in k.subjects \ k.left : <<t, k.q.command>> \in s.grants =>
      gr[<<t, k.q.command>>] \in k.found \cup {NoGrant}

(* A caller is let through by the grants found, with none left to read.    *)
Decided(k) == k.phase = "allowed" => k.left = {} /\ Granted(k)

(* The invariant of an evaluation, for edges E and grants gr of the        *)
(* store.                                                                  *)
EvalOk(k, s, E, gr) ==
  /\ EvalShape(k) /\ Kept(s, E) /\ AsksNamed(k) /\ Walked(k)
  /\ Pending(k, s) /\ Gathered(k, s) /\ Looked(k, s, gr) /\ Decided(k)

(* It holds when an evaluation begins.                                     *)
LEMMA EvalBegins ==
  ASSUME NEW q, NEW E, NEW gr, NEW P
  PROVE  EvalOk(Ask(q), [edges |-> E, grants |-> P], E, gr)
<1> DEFINE k == Ask(q)
           s == [edges |-> E, grants |-> P]
<1>1. EvalShape(k) BY DEF EvalShape, Ask
<1>2. k.phase = "list" /\ k.ask = {} /\ k.subjects = {k.q.user} \cup k.q.claimed BY DEF Ask
<1>3. Kept(s, E) BY DEF Kept
<1> HIDE DEF k, s
<1>4. AsksNamed(k) BY <1>2 DEF AsksNamed, Named
<1> QED BY <1>1, <1>2, <1>3, <1>4 DEF EvalOk, Walked, Pending, Gathered, Looked, Decided, k, s

(* It outlives every change of groups and grants, as what was changed is   *)
(* forgotten.                                                              *)
LEMMA EvalOutlives ==
  ASSUME NEW k, NEW s, NEW E, NEW gr, EvalOk(k, s, E, gr), NEW D, NEW hr
  PROVE  EvalOk(k, [edges |-> s.edges \cap D,
                    grants |-> {x \in s.grants : hr[x] = gr[x]}], D, hr)
<1> DEFINE r == [edges |-> s.edges \cap D, grants |-> {x \in s.grants : hr[x] = gr[x]}]
<1>1. /\ r.edges \subseteq s.edges /\ r.edges \subseteq D
      /\ r.grants \subseteq s.grants /\ \A x \in r.grants : hr[x] = gr[x]
  OBVIOUS
<1>2. Kept(r, D) BY DEF Kept
<1> HIDE DEF r
<1>3. \A F : F \in SUBSET r.edges => F \in SUBSET s.edges BY <1>1
<1>4. Pending(k, r)
  <2> SUFFICES ASSUME k.phase \in {"ask", "walk"}, NEW F \in SUBSET r.edges,
                      NEW x \in Named(k), NEW g \in Above(x, F)
               PROVE  g \in k.subjects \/ <<g, x>> \in k.ask \/ Sought(k, g, x, F)
    BY DEF Pending
  <2> QED BY <1>3 DEF EvalOk, Pending
<1>5. Gathered(k, r) BY <1>3 DEF EvalOk, Gathered
<1>6. Looked(k, r, hr)
  <2> SUFFICES ASSUME k.phase \in {"grants", "allowed"}, NEW t \in k.subjects \ k.left,
                      <<t, k.q.command>> \in r.grants
               PROVE  hr[<<t, k.q.command>>] \in k.found \cup {NoGrant}
    BY DEF Looked
  <2>1. <<t, k.q.command>> \in s.grants BY <1>1
  <2>2. hr[<<t, k.q.command>>] = gr[<<t, k.q.command>>] BY <1>1
  <2> QED BY <2>1, <2>2 DEF EvalOk, Looked
<1> QED BY <1>2, <1>4, <1>5, <1>6 DEF EvalOk, r

(* It gives DenyHolds: no untouched grant of those named, or of a group    *)
(* above them, denies a caller who was let through.                        *)
LEMMA EvalDenies ==
  ASSUME NEW k, NEW s, NEW E, NEW gr, EvalOk(k, s, E, gr), k.phase = "allowed",
         NEW t \in Named(k) \cup UNION {Above(x, s.edges) : x \in Named(k)},
         <<t, k.q.command>> \in s.grants,
         Matches(gr[<<t, k.q.command>>], k.q)
  PROVE  gr[<<t, k.q.command>>].allow
<1>1. t \in k.subjects \ k.left
  <2>1. \A x \in Named(k) : Above(x, s.edges) \subseteq k.subjects
    <3>1. s.edges \in SUBSET s.edges OBVIOUS
    <3> QED BY <3>1 DEF EvalOk, Gathered
  <2>2. Named(k) \subseteq k.subjects /\ k.left = {} BY DEF EvalOk, AsksNamed, Decided
  <2> QED BY <2>1, <2>2
<1>2. gr[<<t, k.q.command>>] \in k.found \cup {NoGrant} BY <1>1 DEF EvalOk, Looked
<1>3. gr[<<t, k.q.command>>] # NoGrant BY DEF Matches
<1>4. Granted(k) BY DEF EvalOk, Decided
<1> QED BY <1>2, <1>3, <1>4 DEF Granted

(* Listing the groups keeps it: every group above those named is listed.   *)
LEMMA EvalLists ==
  ASSUME GroupSetting, NEW k, NEW s, NEW gr, EvalOk(k, s, Edges, gr), k.phase = "list",
         NEW k2, k2 = [k EXCEPT !.phase = "ask",
                         !.ask = {g \in Group : Exists(g)} \X ({k.q.user} \cup k.q.claimed)]
  PROVE  EvalOk(k2, s, Edges, gr)
<1> DEFINE listed == {g \in Group : Exists(g)}
<1>0. EvalShape(k) /\ Kept(s, Edges) /\ AsksNamed(k) BY DEF EvalOk
<1>1. /\ k2.q = k.q /\ k2.phase = "ask" /\ k2.ask = listed \X Named(k)
      /\ k2.subjects = k.subjects /\ EvalShape(k2)
  BY <1>0 DEF EvalShape, Named
<1>2. Named(k2) = Named(k) BY <1>1 DEF Named
<1>3. AsksNamed(k2) BY <1>0, <1>1, <1>2 DEF AsksNamed
<1>4. Pending(k2, s)
  <2> SUFFICES ASSUME NEW F \in SUBSET s.edges, NEW x \in Named(k), NEW g \in Above(x, F)
               PROVE  <<g, x>> \in k2.ask
    BY <1>2 DEF Pending
  <2>1. PICK y : g \in Group /\ <<g, y>> \in F BY AboveHolds DEF GroupSetting
  <2>2. <<g, y>> \in Edges BY <2>1, <1>0 DEF Kept
  <2>3. g \in listed BY <2>2, EdgeOf
  <2> QED BY <2>3, <1>1
<1> QED BY <1>0, <1>1, <1>3, <1>4 DEF EvalOk, Walked, Gathered, Looked, Decided

(* So does going on to the grants.                                         *)
LEMMA EvalAllAsked ==
  ASSUME NEW k, NEW s, NEW E, NEW gr, EvalOk(k, s, E, gr), k.phase = "ask", k.ask = {},
         NEW k2, k2 = [k EXCEPT !.phase = "grants", !.left = k.subjects]
  PROVE  EvalOk(k2, s, E, gr)
<1>0. EvalShape(k) /\ Kept(s, E) /\ AsksNamed(k) /\ Pending(k, s) BY DEF EvalOk
<1>1. /\ k2.q = k.q /\ k2.phase = "grants" /\ k2.ask = k.ask /\ k2.left = k2.subjects
      /\ k2.subjects = k.subjects /\ EvalShape(k2)
  BY <1>0 DEF EvalShape
<1>2. Named(k2) = Named(k) BY <1>1 DEF Named
<1>3. Gathered(k2, s) BY <1>0, <1>1, <1>2 DEF Pending, Gathered, Sought
<1>4. Looked(k2, s, gr) BY <1>1 DEF Looked
<1> QED BY <1>0, <1>1, <1>2, <1>3, <1>4 DEF EvalOk, AsksNamed, Walked, Pending, Decided

(* So does posing a question.                                              *)
LEMMA EvalAsks ==
  ASSUME GroupSetting, NEW k, NEW s, NEW E, NEW gr, EvalOk(k, s, E, gr), k.phase = "ask",
         NEW query \in k.ask,
         NEW k2, k2 = [k EXCEPT !.phase = "walk", !.ask = @ \ {query}, !.of = query[1],
                                !.walk = Walk(query[2], {query[1]}, query[1])]
  PROVE  EvalOk(k2, s, E, gr)
<1>0. EvalShape(k) /\ Kept(s, E) /\ AsksNamed(k) /\ Pending(k, s) BY DEF EvalOk
<1>1. PICK g \in Group, x \in Named(k) : query = <<g, x>> BY <1>0 DEF AsksNamed
<1>2. query[1] = g /\ query[2] = x BY <1>1
<1>3. /\ k2.q = k.q /\ k2.phase = "walk" /\ k2.ask = k.ask \ {<<g, x>>} /\ k2.of = g
      /\ k2.subjects = k.subjects /\ EvalShape(k2) /\ k2.walk = Walk(x, {g}, g)
  BY <1>0, <1>1, <1>2 DEF EvalShape
<1>4. k2.walk.item = x /\ k2.walk.todo = {g} /\ k2.walk.first = g BY <1>3 DEF Walk
<1>5. Named(k2) = Named(k) BY <1>3 DEF Named
<1>6. Walked(k2) BY <1>3, <1>4 DEF Walked
<1>7. Pending(k2, s)
  <2> SUFFICES ASSUME NEW F \in SUBSET s.edges, NEW z \in Named(k), NEW h \in Above(z, F),
                      h \notin k2.subjects, <<h, z>> \notin k2.ask
               PROVE  Sought(k2, h, z, F)
    BY <1>3, <1>5 DEF Pending
  <2>1. <<h, z>> \in k.ask BY <1>0, <1>3 DEF Pending, Sought
  <2>2. h = g /\ z = x BY <2>1, <1>3
  <2>3. h \in Reach(z, F) BY DEF Reach
  <2> QED BY <1>3, <1>4, <2>2, <2>3 DEF Sought
<1> QED BY <1>0, <1>3, <1>5, <1>6, <1>7 DEF EvalOk, AsksNamed, Gathered, Looked, Decided

(* What an evaluation makes of a step of isMember.                         *)
Answers(k, v) ==
  CASE v.said = "more" -> [k EXCEPT !.walk = v.walk]
    [] v.said = "no" -> [k EXCEPT !.phase = "ask", !.walk = Idle]
    [] v.said = "yes" -> [k EXCEPT !.phase = "ask", !.walk = Idle, !.subjects = @ \cup {k.of}]
    [] v.said = "error" -> [k EXCEPT !.phase = "refused", !.walk = Idle]

(* So does a step of isMember: it cannot say no to a group that is above.  *)
LEMMA EvalWalks ==
  ASSUME GroupSetting, Stored, NEW k, NEW s, NEW gr, EvalOk(k, s, Edges, gr), k.phase = "walk",
         NEW h \in k.walk.todo, NEW k2,
         k2 = Answers(k, Visit(k.walk, h))
  PROVE  EvalOk(k2, s, Edges, gr)
<1> DEFINE v == Visit(k.walk, h)
           rest == (k.walk.todo \ {h}) \cup Subgroups(h)
<1>0. /\ EvalShape(k) /\ Kept(s, Edges) /\ AsksNamed(k) /\ Pending(k, s) /\ Walked(k)
      /\ k.walk.todo \subseteq Group /\ k.walk.first \in {k.of, Idle}
  BY DEF EvalOk, Walked
<1>1. /\ v.said \in {"yes", "no", "error", "more"}
      /\ v.said \in {"more", "no"} =>
              /\ Exists(h) /\ k.walk.item \notin groups[h].members
              /\ (h = k.walk.first \/ h # k.walk.item)
              /\ v.walk = Walk(k.walk.item, rest, Idle)
              /\ v.said = "no" <=> rest = {}
  BY VisitSays
<1>2. ASSUME v.said \in {"more", "no"}, NEW F \in SUBSET s.edges, NEW x \in Named(k),
             NEW g \in Above(x, F), Sought(k, g, x, F)
      PROVE  \E z \in rest : z \in Reach(x, F)
  <2>1. PICK y \in k.walk.todo : y \in Reach(k.walk.item, F) BY <1>2 DEF Sought
  <2>2. k.walk.item = x /\ k.of = g BY <1>2 DEF Sought
  <2>3. g # x BY AboveHolds DEF GroupSetting
  <2>4. F \subseteq Edges BY <1>0 DEF Kept
  <2>5. k.walk.item \in Group => k.walk.first # k.walk.item
    BY <1>0, <2>2, <2>3 DEF GroupSetting
  <2> HIDE DEF v
  <2>6. \E z \in (k.walk.todo \ {h}) \cup Subgroups(h) : z \in Reach(k.walk.item, F)
    BY <1>0, <1>2, <2>1, <2>4, <2>5, SearchGoesOn DEF v
  <2> QED BY <2>2, <2>6
<1>3. k2 = CASE v.said = "more" -> [k EXCEPT !.walk = v.walk]
             [] v.said = "no" -> [k EXCEPT !.phase = "ask", !.walk = Idle]
             [] v.said = "yes" -> [k EXCEPT !.phase = "ask", !.walk = Idle,
                                            !.subjects = @ \cup {k.of}]
             [] v.said = "error" -> [k EXCEPT !.phase = "refused", !.walk = Idle]
  BY DEF Answers
<1> HIDE DEF v
<1>4. CASE v.said = "more"
  <2>1. k2 = [k EXCEPT !.walk = v.walk] BY <1>3, <1>4
  <2>2. /\ k2.q = k.q /\ k2.phase = "walk" /\ k2.ask = k.ask /\ k2.of = k.of
        /\ k2.subjects = k.subjects /\ EvalShape(k2) /\ k2.walk = Walk(k.walk.item, rest, Idle)
    BY <1>0, <1>1, <1>4, <2>1 DEF EvalShape
  <2>3. k2.walk.item = k.walk.item /\ k2.walk.todo = rest /\ k2.walk.first = Idle
    <3>1. k2.walk = Walk(k.walk.item, rest, Idle) BY <2>2
    <3> HIDE DEF rest
    <3> QED BY <3>1, WalkFields
  <2>4. Named(k2) = Named(k) BY <2>2 DEF Named
  <2>5. Subgroups(h) \subseteq Group
    <3>1. h \in Group /\ groups[h] \in Record BY <1>0, <1>1, <1>4 DEF Stored, Exists
    <3> QED BY <3>1 DEF Subgroups, Record
  <2>6. Walked(k2) BY <1>0, <2>2, <2>3, <2>5 DEF Walked
  <2>7. Pending(k2, s)
    <3> SUFFICES ASSUME NEW F \in SUBSET s.edges, NEW x \in Named(k), NEW g \in Above(x, F),
                        g \notin k2.subjects, <<g, x>> \notin k2.ask
                 PROVE  Sought(k2, g, x, F)
      BY <2>2, <2>4 DEF Pending
    <3>1. Sought(k, g, x, F) BY <1>0, <2>2 DEF Pending
    <3>2. \E z \in rest : z \in Reach(x, F) BY <1>2, <1>4, <3>1
    <3> HIDE DEF rest
    <3> QED BY <2>2, <2>3, <3>1, <3>2 DEF Sought
  <2> QED BY <1>0, <2>2, <2>4, <2>6, <2>7 DEF EvalOk, AsksNamed, Gathered, Looked, Decided
<1>5. CASE v.said = "no"
  <2>1. k2 = [k EXCEPT !.phase = "ask", !.walk = Idle] BY <1>3, <1>5
  <2>2. /\ k2.q = k.q /\ k2.phase = "ask" /\ k2.ask = k.ask
        /\ k2.subjects = k.subjects /\ EvalShape(k2)
    BY <1>0, <2>1 DEF EvalShape
  <2>4. Named(k2) = Named(k) BY <2>2 DEF Named
  <2>7. Pending(k2, s)
    <3> SUFFICES ASSUME NEW F \in SUBSET s.edges, NEW x \in Named(k), NEW g \in Above(x, F),
                        g \notin k2.subjects, <<g, x>> \notin k2.ask
                 PROVE  FALSE
      BY <2>2, <2>4 DEF Pending
    <3>1. Sought(k, g, x, F) BY <1>0, <2>2 DEF Pending
    <3>2. \E z \in rest : z \in Reach(x, F) BY <1>2, <1>5, <3>1
    <3> HIDE DEF rest
    <3> QED BY <1>1, <1>5, <3>2
  <2> QED BY <1>0, <2>2, <2>4, <2>7 DEF EvalOk, AsksNamed, Walked, Gathered, Looked, Decided
<1>6. CASE v.said = "yes"
  <2>1. k2 = [k EXCEPT !.phase = "ask", !.walk = Idle, !.subjects = @ \cup {k.of}]
    BY <1>3, <1>6
  <2>2. /\ k2.q = k.q /\ k2.phase = "ask" /\ k2.ask = k.ask
        /\ k2.subjects = k.subjects \cup {k.of} /\ EvalShape(k2)
    BY <1>0, <2>1 DEF EvalShape
  <2>4. Named(k2) = Named(k) BY <2>2 DEF Named
  <2>7. Pending(k2, s)
    <3> SUFFICES ASSUME NEW F \in SUBSET s.edges, NEW x \in Named(k), NEW g \in Above(x, F),
                        g \notin k2.subjects, <<g, x>> \notin k2.ask
                 PROVE  FALSE
      BY <2>2, <2>4 DEF Pending
    <3>1. Sought(k, g, x, F) BY <1>0, <2>2 DEF Pending
    <3> QED BY <2>2, <3>1 DEF Sought
  <2> QED BY <1>0, <2>2, <2>4, <2>7 DEF EvalOk, AsksNamed, Walked, Gathered, Looked, Decided
<1>7. CASE v.said = "error"
  <2>1. k2 = [k EXCEPT !.phase = "refused", !.walk = Idle] BY <1>3, <1>7
  <2>2. /\ k2.q = k.q /\ k2.phase = "refused" /\ k2.ask = k.ask
        /\ k2.subjects = k.subjects /\ EvalShape(k2)
    BY <1>0, <2>1 DEF EvalShape
  <2>4. Named(k2) = Named(k) BY <2>2 DEF Named
  <2> QED BY <1>0, <2>2, <2>4 DEF EvalOk, AsksNamed, Walked, Pending, Gathered, Looked, Decided
<1> QED BY <1>1, <1>4, <1>5, <1>6, <1>7

(* So does reading a grant.                                                *)
LEMMA EvalReads ==
  ASSUME NEW k, NEW s, NEW E, NEW gr, EvalOk(k, s, E, gr), k.phase = "grants",
         NEW t \in k.left,
         NEW k2, k2 = [k EXCEPT !.left = @ \ {t},
                         !.found = (@ \cup {gr[<<t, k.q.command>>]}) \ {NoGrant}]
  PROVE  EvalOk(k2, s, E, gr)
<1>0. EvalShape(k) /\ Kept(s, E) /\ AsksNamed(k) /\ Gathered(k, s) /\ Looked(k, s, gr) BY DEF EvalOk
<1>1. /\ k2.q = k.q /\ k2.phase = "grants" /\ k2.ask = k.ask /\ k2.left = k.left \ {t}
      /\ k2.subjects = k.subjects /\ EvalShape(k2)
      /\ k2.found = (k.found \cup {gr[<<t, k.q.command>>]}) \ {NoGrant}
  BY <1>0 DEF EvalShape
<1>2. Named(k2) = Named(k) BY <1>1 DEF Named
<1>3. Looked(k2, s, gr)
  <2> SUFFICES ASSUME NEW u \in k.subjects, u \notin k.left \ {t},
                      <<u, k.q.command>> \in s.grants
               PROVE  gr[<<u, k.q.command>>] \in k2.found \cup {NoGrant}
    BY <1>1 DEF Looked
  <2>1. CASE u = t BY <2>1, <1>1
  <2>2. CASE u # t
    <3>1. gr[<<u, k.q.command>>] \in k.found \cup {NoGrant} BY <2>2, <1>0 DEF Looked
    <3> QED BY <3>1, <1>1
  <2> QED BY <2>1, <2>2
<1> QED BY <1>0, <1>1, <1>2, <1>3 DEF EvalOk, AsksNamed, Walked, Pending, Gathered, Decided

(* So does deciding.                                                       *)
LEMMA EvalDecides ==
  ASSUME NEW k, NEW s, NEW E, NEW gr, EvalOk(k, s, E, gr), k.phase = "grants", k.left = {},
         NEW k2, k2 = [k EXCEPT !.phase = IF Granted(k) THEN "allowed" ELSE "refused"]
  PROVE  EvalOk(k2, s, E, gr)
<1>0. EvalShape(k) /\ Kept(s, E) /\ AsksNamed(k) /\ Gathered(k, s) /\ Looked(k, s, gr) BY DEF EvalOk
<1>1. /\ k2.q = k.q /\ k2.phase = (IF Granted(k) THEN "allowed" ELSE "refused")
      /\ k2.ask = k.ask /\ k2.left = k.left
      /\ k2.subjects = k.subjects /\ EvalShape(k2) /\ k2.found = k.found
  BY <1>0 DEF EvalShape
<1>2. Named(k2) = Named(k) BY <1>1 DEF Named
<1>3. Granted(k2) <=> Granted(k) BY <1>1 DEF Granted
<1>4. Decided(k2) BY <1>1, <1>3 DEF Decided
<1>5. k2.phase \in {"allowed", "refused"} BY <1>1
<1> QED BY <1>0, <1>1, <1>2, <1>4, <1>5 DEF EvalOk, AsksNamed, Walked, Pending, Gathered, Looked

(* The fields of what an administrator does.                               *)
JobShape(job) ==
  job = [op |-> job.op, pc |-> job.pc, read |-> job.read, rest |-> job.rest, walk |-> job.walk]

(* What an administrator does, by how far it has come.                     *)
JobOk(job) ==
  /\ JobShape(job) /\ job.op \in AdminOp
  /\ job.pc \in {"child", "walk", "write", "list", "unlink"} =>
       job.op \in GroupOp \cup MemberOp \cup SubgroupOp
  /\ job.pc \in {"child", "walk"} => job.op \in SubgroupOp
  /\ job.pc \in {"child", "walk", "write"} => job.read \in Record
  /\ job.pc = "unlink" => job.rest \subseteq Group \X Record

(* All administrators do so.                                               *)
Jobs ==
  /\ admin = [a \in Admin |-> admin[a]]
  /\ \A a \in Admin : admin[a] # Idle => JobOk(admin[a])

(* A request begins so.                                                    *)
LEMMA JobBegins ==
  ASSUME NEW op \in AdminOp
  PROVE  JobOk(Job(op, "read")) /\ Job(op, "read").pc = "read"
<1> DEFINE job == Job(op, "read")
<1>1. JobShape(job) /\ job.op = op /\ job.pc = "read" BY DEF Job, JobShape
<1> HIDE DEF job
<1> QED BY <1>1 DEF JobOk, job

(* A group that exists has a record.                                       *)
LEMMA StoredRecord ==
  ASSUME Stored, NEW g \in Group, Exists(g)
  PROVE  groups[g] \in Record /\ groups[g].members \subseteq User
         /\ groups[g].subgroups \subseteq Group
<1>1. groups[g] \in Record BY DEF Stored, Exists
<1> QED BY <1>1 DEF Record

(* What ReadGroup makes of the record it read: a record to write, or one   *)
(* to look for circles with, whose subgroups are the ones of the store.    *)
LEMMA GroupIsRead ==
  ASSUME GroupSetting, Stored, NEW a \in Admin, admin[a] # Idle, JobOk(admin[a]), ReadGroup(a)
  PROVE  \E job : /\ admin' = [admin EXCEPT ![a] = job]
                  /\ job # Idle => /\ JobOk(job) /\ job.pc \in {"write", "child"}
                                   /\ job.op.group \in Group
                                   /\ \A x \in job.read.subgroups :
                                        <<job.op.group, x>> \in Edges
<1> DEFINE job == admin[a]
           op == job.op
           g == op.group
<1>1. JobShape(job) /\ op \in AdminOp BY DEF JobOk
<1>2. op.kind \notin {"deleteGroup", "grant", "revoke"} BY DEF ReadGroup
<1>3. op \in GroupOp \cup MemberOp \cup SubgroupOp
  <2> HIDE DEF op
  <2>1. op \notin GrantOp BY <1>2 DEF GrantOp
  <2> QED BY <1>1, <2>1 DEF AdminOp
<1>4. g \in Group
  <2> HIDE DEF op
  <2> QED BY <1>3 DEF GroupOp, MemberOp, SubgroupOp
<1> DEFINE Good(new) ==
             new # Idle => /\ JobOk(new) /\ new.pc \in {"write", "child"}
                           /\ new.op.group \in Group
                           /\ \A x \in new.read.subgroups : <<new.op.group, x>> \in Edges
<1>5. ASSUME NEW record \in Record,
             record.subgroups # {} => Exists(g),
             record.subgroups \subseteq groups[g].subgroups,
             NEW new, new = [job EXCEPT !.pc = "write", !.read = record]
      PROVE  Good(new)
  <2> HIDE DEF job
  <2>1. JobShape(new) /\ new.op = job.op /\ new.pc = "write" /\ new.read = record
    BY <1>1, <1>5 DEF JobShape
  <2>2. JobOk(new)
    <3> HIDE DEF op
    <3> QED BY <1>1, <1>3, <2>1 DEF JobOk, op
  <2>3. new.op.group = g BY <2>1
  <2>4. \A x \in record.subgroups : <<g, x>> \in Edges
    <3>1. \A x \in record.subgroups : Exists(g) /\ x \in groups[g].subgroups
      BY <1>5
    <3> HIDE DEF g
    <3> QED BY <3>1, <1>4, EdgeOf
  <2> QED BY <1>4, <2>1, <2>2, <2>3, <2>4
<1>6. NewGroup \in Record /\ NewGroup.subgroups = {} BY DEF NewGroup, Record
<1>7. CASE op.kind \in {"createGroup", "ensureGuest"}
  <2> DEFINE record == IF Exists(g) THEN groups[g] ELSE NewGroup
             new == [job EXCEPT !.pc = "write", !.read = record]
  <2>1. admin' = [admin EXCEPT ![a] = new] BY <1>7 DEF ReadGroup, Becomes
  <2>2. /\ record \in Record /\ (record.subgroups # {} => Exists(g))
        /\ record.subgroups \subseteq groups[g].subgroups
    <3>1. CASE Exists(g) BY <3>1, <1>4, StoredRecord
    <3>2. CASE ~Exists(g) BY <3>2, <1>6
    <3> QED BY <3>1, <3>2
  <2>3. Good(new)
    <3> HIDE DEF record, Good, job
    <3> QED BY <2>2, <1>5
  <2> HIDE DEF new
  <2> QED BY <2>1, <2>3
<1>8. CASE op.kind \notin {"createGroup", "ensureGuest"}
           /\ (~Exists(g) \/ (op.kind = "addMember" /\ op.item \in groups[g].members))
  <2>1. admin' = [admin EXCEPT ![a] = Idle] BY <1>8 DEF ReadGroup, Becomes
  <2> QED BY <2>1
<1>9. CASE op.kind \notin {"createGroup", "ensureGuest"}
           /\ ~(~Exists(g) \/ (op.kind = "addMember" /\ op.item \in groups[g].members))
  <2>0. Exists(g) BY <1>9
  <2>1. groups[g] \in Record /\ Exists(g)
    <3> HIDE DEF g
    <3> QED BY <2>0, <1>4, StoredRecord
  <2>7. admin' = [admin EXCEPT ![a] =
          CASE op.kind = "addMember" ->
                   [job EXCEPT !.pc = "write",
                               !.read = [groups[g] EXCEPT !.members = @ \cup {op.item}]]
            [] op.kind = "removeMember" ->
                   [job EXCEPT !.pc = "write",
                               !.read = [groups[g] EXCEPT !.members = @ \ {op.item}]]
            [] op.kind = "removeSubgroup" ->
                   [job EXCEPT !.pc = "write",
                               !.read = [groups[g] EXCEPT !.subgroups = @ \ {op.item}]]
            [] op.kind = "addSubgroup" ->
                   [job EXCEPT !.pc = "child", !.read = groups[g]]]
    BY <1>9 DEF ReadGroup, Becomes
  <2>2. op.kind \in {"addMember", "removeMember", "addSubgroup", "removeSubgroup"}
    <3> HIDE DEF op
    <3> QED BY <1>2, <1>3, <1>9 DEF GroupOp, MemberOp, SubgroupOp
  <2>3. CASE op.kind = "addMember"
    <3> DEFINE record == [groups[g] EXCEPT !.members = @ \cup {op.item}]
               new == [job EXCEPT !.pc = "write", !.read = record]
    <3>1. admin' = [admin EXCEPT ![a] = new]
      <4> HIDE DEF op, g, job
      <4> QED BY <2>7, <2>3
    <3>2. op.item \in User
      <4> HIDE DEF op
      <4> QED BY <1>3, <2>3 DEF GroupOp, MemberOp, SubgroupOp
    <3>3. record \in Record /\ record.subgroups = groups[g].subgroups
      <4> HIDE DEF g
      <4> QED BY <2>1, <3>2 DEF Record
    <3>4. Good(new)
      <4> HIDE DEF record, Good, job
      <4> QED BY <3>3, <2>1, <1>5
    <3> HIDE DEF new
    <3> QED BY <3>1, <3>4
  <2>4. CASE op.kind = "removeMember"
    <3> DEFINE record == [groups[g] EXCEPT !.members = @ \ {op.item}]
               new == [job EXCEPT !.pc = "write", !.read = record]
    <3>1. admin' = [admin EXCEPT ![a] = new]
      <4> HIDE DEF op, g, job
      <4> QED BY <2>7, <2>4
    <3>3. record \in Record /\ record.subgroups = groups[g].subgroups
      <4> HIDE DEF g
      <4> QED BY <2>1 DEF Record
    <3>4. Good(new)
      <4> HIDE DEF record, Good, job
      <4> QED BY <3>3, <2>1, <1>5
    <3> HIDE DEF new
    <3> QED BY <3>1, <3>4
  <2>5. CASE op.kind = "removeSubgroup"
    <3> DEFINE record == [groups[g] EXCEPT !.subgroups = @ \ {op.item}]
               new == [job EXCEPT !.pc = "write", !.read = record]
    <3>1. admin' = [admin EXCEPT ![a] = new]
      <4> HIDE DEF op, g, job
      <4> QED BY <2>7, <2>5
    <3>3. record \in Record /\ record.subgroups \subseteq groups[g].subgroups
      <4> HIDE DEF g
      <4> QED BY <2>1 DEF Record
    <3>4. Good(new)
      <4> HIDE DEF record, Good, job
      <4> QED BY <3>3, <2>1, <1>5
    <3> HIDE DEF new
    <3> QED BY <3>1, <3>4
  <2>6. CASE op.kind = "addSubgroup"
    <3> DEFINE new == [job EXCEPT !.pc = "child", !.read = groups[g]]
    <3>1. admin' = [admin EXCEPT ![a] = new]
      <4> HIDE DEF op, g, job
      <4> QED BY <2>7, <2>6
    <3>2. op \in SubgroupOp
      <4> HIDE DEF op
      <4> QED BY <1>3, <2>6 DEF GroupOp, MemberOp, SubgroupOp
    <3>3. JobShape(new) /\ new.op = op /\ new.pc = "child" /\ new.read = groups[g]
      <4> DEFINE record == groups[g]
      <4>1. new = [job EXCEPT !.pc = "child", !.read = record] OBVIOUS
      <4> HIDE DEF record, job, new
      <4>2. JobShape(new) /\ new.op = job.op /\ new.pc = "child" /\ new.read = record
        BY <1>1, <4>1 DEF JobShape
      <4> QED BY <4>2 DEF record
    <3> HIDE DEF new
    <3>4. JobOk(new)
      <4> HIDE DEF op
      <4> QED BY <1>1, <2>1, <3>2, <3>3 DEF JobOk
    <3>5. \A x \in new.read.subgroups : <<new.op.group, x>> \in Edges
      <4>1. \A x \in groups[g].subgroups : <<g, x>> \in Edges
        <5> HIDE DEF g
        <5> QED BY <2>1, <1>4, EdgeOf
      <4> QED BY <4>1, <3>3
    <3>6. Good(new) BY <1>4, <3>3, <3>4, <3>5
    <3> QED BY <3>1, <3>6
  <2> QED BY <2>2, <2>3, <2>4, <2>5, <2>6
<1> QED BY <1>7, <1>8, <1>9

(* What an administrator works with is what the edges E say: the record    *)
(* read; the walk, which has not missed a circle; the record to write,     *)
(* which adds no circle; the records without the deleted group.            *)
UpToDate(job, E) ==
  /\ job.pc \in {"child", "walk"} => \A x \in job.read.subgroups : <<job.op.group, x>> \in E
  /\ job.pc = "walk" =>
       /\ job.walk = Walk(job.op.group, job.walk.todo, job.walk.first)
       /\ job.op.item # job.op.group /\ job.walk.todo \subseteq Group
       /\ job.walk.first \in {job.op.item, Idle}
       /\ job.op.item \in Reach(job.op.group, E) =>
            \E y \in job.walk.todo : y \in Reach(job.op.group, E)
  /\ job.pc = "write" =>
       \A x \in job.read.subgroups :
         <<job.op.group, x>> \in E \/ x \notin Reach(job.op.group, E)
  /\ job.pc = "unlink" =>
       /\ \A p \in job.rest : \A x \in p[2].subgroups : <<p[1], x>> \in E
       /\ \A p, r \in job.rest : p[1] = r[1] => p = r

(* The edges after a step are what the records then say.                   *)
LEMMA EdgeNext ==
  ASSUME NEW g, NEW x
  PROVE  <<g, x>> \in Edges' <=>
           g \in Group /\ groups'[g] # NoGroup
           /\ x \in groups'[g].members \cup groups'[g].subgroups
BY DEF Edges, Exists

(* Steps that change no group change no edge.                              *)
LEMMA SameEdges ==
  ASSUME groups' = groups
  PROVE  Edges' = Edges /\ (Stored => Stored')
BY DEF Edges, Exists, Stored

(* Writing a record changes the edges of that group alone, to those of     *)
(* the record.                                                             *)
LEMMA GroupIsWritten ==
  ASSUME Stored, NEW g \in Group, NEW record \in Record \cup {NoGroup}, SetGroup(g, record)
  PROVE  /\ Stored' /\ Remember
         /\ \A h, x : h # g => (<<h, x>> \in Edges' <=> <<h, x>> \in Edges)
         /\ \A x \in Group : <<g, x>> \in Edges' => record \in Record /\ x \in record.subgroups
<1>1. groups' = [groups EXCEPT ![g] = record] /\ Remember BY DEF SetGroup
<1>2. Stored' BY <1>1 DEF Stored
<1>3. groups'[g] = record /\ \A h \in Group : h # g => groups'[h] = groups[h]
  BY <1>1 DEF Stored
<1>4. ASSUME NEW h, NEW x, h # g PROVE <<h, x>> \in Edges' <=> <<h, x>> \in Edges
  BY <1>3, <1>4, EdgeOf, EdgeNext DEF Exists
<1>5. ASSUME NEW x \in Group, <<g, x>> \in Edges'
      PROVE  record \in Record /\ x \in record.subgroups
  <2>1. record # NoGroup /\ x \in record.members \cup record.subgroups
    BY <1>3, <1>5, EdgeNext
  <2>2. record \in Record BY <2>1
  <2>3. record.members \subseteq User BY <2>2 DEF Record
  <2> QED BY <2>1, <2>2, <2>3, IamAssumption
<1> QED BY <1>1, <1>2, <1>4, <1>5

(* A step of an administrator leaves the store and its own work well       *)
(* formed, and has all evaluations remember what still holds.              *)
Works(a, job) ==
  /\ admin' = [admin EXCEPT ![a] = job]
  /\ Stored' /\ check' = check
  /\ Remember \/ UNCHANGED <<groups, grants, since>>
  /\ job # Idle => JobOk(job)

(* And, if what it works with was fresh, leaves the edges grounded and     *)
(* its work fresh.                                                         *)
Safely(a, job) ==
  (admin[a] # Idle => UpToDate(admin[a], Edges)) /\ Grounded(Edges) =>
    Grounded(Edges') /\ (job # Idle => UpToDate(job, Edges'))

(* Writing a record that adds no circle leaves the edges grounded.         *)
LEMMA WriteIsGrounded ==
  ASSUME GroupSetting, Stored, Grounded(Edges), NEW g \in Group,
         NEW record \in Record \cup {NoGroup}, SetGroup(g, record),
         record \in Record =>
           \A x \in record.subgroups : <<g, x>> \in Edges \/ x \notin Reach(g, Edges)
  PROVE  Grounded(Edges')
<1> DEFINE E == Edges
           D == Edges'
<1>1. \A h, x \in Group : <<h, x>> \in D => <<h, x>> \in E \/ (h = g /\ x \notin Reach(g, E))
  BY GroupIsWritten
<1>2. IsFiniteSet(Group) /\ Grounded(E) BY DEF GroupSetting
<1> HIDE DEF E, D
<1>3. Grounded(D) BY <1>1, <1>2, StaysGrounded
<1> QED BY <1>3 DEF D

(* An administrator begins.                                                *)
LEMMA AdminBegins ==
  ASSUME GroupSetting, Stored, NEW a \in Admin, NEW op \in AdminOps, BeginAdmin(a, op)
  PROVE  \E job : Works(a, job) /\ Safely(a, job)
<1> DEFINE job == Job(op, "read")
<1>1. JobOk(job) /\ job.pc = "read" BY JobBegins DEF GroupSetting
<1>2. /\ admin' = [admin EXCEPT ![a] = job]
      /\ UNCHANGED <<groups, grants, check, since>>
  BY DEF BeginAdmin
<1> HIDE DEF job
<1>3. Edges' = Edges /\ Stored' BY <1>2, SameEdges
<1>4. UpToDate(job, Edges') BY <1>1 DEF UpToDate
<1>5. Works(a, job) BY <1>1, <1>2, <1>3 DEF Works
<1> QED BY <1>3, <1>4, <1>5 DEF Safely

(* An administrator stops, at the end or on the way.                       *)
LEMMA AdminStops ==
  ASSUME Stored, NEW a \in Admin, admin' = [admin EXCEPT ![a] = Idle],
         UNCHANGED <<groups, grants, check, since>>
  PROVE  \E job : Works(a, job) /\ Safely(a, job)
<1>1. Edges' = Edges /\ Stored' BY SameEdges
<1>2. Works(a, Idle) BY <1>1 DEF Works
<1>3. Safely(a, Idle) BY <1>1 DEF Safely
<1> QED BY <1>2, <1>3

(* ReadGroup works safely.                                                 *)
LEMMA AdminReads ==
  ASSUME GroupSetting, Stored, NEW a \in Admin, admin[a] # Idle, JobOk(admin[a]), ReadGroup(a)
  PROVE  \E job : Works(a, job) /\ Safely(a, job)
<1>1. PICK job : /\ admin' = [admin EXCEPT ![a] = job]
                 /\ job # Idle => /\ JobOk(job) /\ job.pc \in {"write", "child"}
                                  /\ job.op.group \in Group
                                  /\ \A x \in job.read.subgroups : <<job.op.group, x>> \in Edges
  BY GroupIsRead
<1>2. UNCHANGED <<groups, grants, check, since>> BY DEF ReadGroup, ReadOnly
<1>3. Edges' = Edges /\ Stored' BY <1>2, SameEdges
<1>4. job # Idle => UpToDate(job, Edges') BY <1>1, <1>3 DEF UpToDate
<1>5. Works(a, job) BY <1>1, <1>2, <1>3 DEF Works
<1> QED BY <1>3, <1>4, <1>5 DEF Safely

(* So does ReadChild: the walk begins with the child.                      *)
LEMMA AdminReadsChild ==
  ASSUME GroupSetting, Stored, NEW a \in Admin, admin[a] # Idle, JobOk(admin[a]), ReadChild(a)
  PROVE  \E job : Works(a, job) /\ Safely(a, job)
<1> DEFINE job == admin[a]
           child == job.op.item
           g == job.op.group
           new == [job EXCEPT !.pc = "walk", !.walk = Walk(g, {child}, child)]
<1>0. JobShape(job) /\ job.pc = "child" /\ job.op \in SubgroupOp /\ job.read \in Record
      /\ job.op \in AdminOp
  BY DEF ReadChild, JobOk
<1>1. UNCHANGED <<groups, grants, check, since>> BY DEF ReadChild, ReadOnly
<1>2. CASE admin' = [admin EXCEPT ![a] = Idle] BY <1>1, <1>2, AdminStops
<1>3. CASE child # g /\ admin' = [admin EXCEPT ![a] = new]
  <2>1. g \in Group /\ child \in Group
    <3> HIDE DEF job
    <3> QED BY <1>0 DEF SubgroupOp
  <2>2. /\ JobShape(new) /\ new.op = job.op /\ new.pc = "walk" /\ new.read = job.read
        /\ new.walk = Walk(job.op.group, {job.op.item}, job.op.item)
    <3> DEFINE w == Walk(job.op.group, {job.op.item}, job.op.item)
    <3>1. new = [job EXCEPT !.pc = "walk", !.walk = w] OBVIOUS
    <3> HIDE DEF job, w, new
    <3>2. /\ JobShape(new) /\ new.op = job.op /\ new.pc = "walk" /\ new.read = job.read
          /\ new.walk = w
      BY <1>0, <3>1 DEF JobShape
    <3> QED BY <3>2 DEF w
  <2> HIDE DEF new
  <2>3. JobOk(new) BY <1>0, <2>2 DEF JobOk
  <2>4. Edges' = Edges /\ Stored' BY <1>1, SameEdges
  <2>5. new.walk.item = g /\ new.walk.todo = {child} /\ new.walk.first = child
    <3> HIDE DEF job
    <3> QED BY <2>2, WalkFields
  <2>6. Works(a, new) BY <1>1, <1>3, <2>3, <2>4 DEF Works
  <2>7. UpToDate(job, Edges) => UpToDate(new, Edges)
    <3> HIDE DEF job
    <3> QED BY <1>0, <1>3, <2>1, <2>2, <2>5 DEF UpToDate
  <2>8. Safely(a, new) BY <2>4, <2>7 DEF Safely
  <2> QED BY <2>6, <2>8
<1>4. \/ admin' = [admin EXCEPT ![a] = Idle]
      \/ child # g /\ admin' = [admin EXCEPT ![a] = new]
  BY DEF ReadChild, Becomes
<1> QED BY <1>2, <1>3, <1>4

(* So does LookForCycle: no circle is missed, and the child is added only  *)
(* when there is none.                                                     *)
LEMMA AdminLooks ==
  ASSUME GroupSetting, Stored, NEW a \in Admin, admin[a] # Idle, JobOk(admin[a]), LookForCycle(a)
  PROVE  \E job : Works(a, job) /\ Safely(a, job)
<1> DEFINE job == admin[a]
           child == job.op.item
           g == job.op.group
<1>0. JobShape(job) /\ job.pc = "walk" /\ job.op \in SubgroupOp /\ job.read \in Record
      /\ job.op \in AdminOp
  BY DEF LookForCycle, JobOk
<1>1. UNCHANGED <<groups, grants, check, since>> BY DEF LookForCycle, ReadOnly
<1>2. Edges' = Edges /\ Stored' BY <1>1, SameEdges
<1>3. PICK h \in job.walk.todo :
        LET v == Visit(job.walk, h) IN
        admin' = [admin EXCEPT ![a] =
          CASE v.said = "more" -> [job EXCEPT !.walk = v.walk]
            [] v.said = "no" /\ child \notin job.read.subgroups ->
                 [job EXCEPT !.pc = "write", !.walk = Idle,
                             !.read = [@ EXCEPT !.subgroups = @ \cup {child}]]
            [] OTHER -> Idle]
  BY DEF LookForCycle, Becomes
<1> DEFINE v == Visit(job.walk, h)
           rest == (job.walk.todo \ {h}) \cup Subgroups(h)
           record == [job.read EXCEPT !.subgroups = @ \cup {child}]
           onward == [job EXCEPT !.walk = v.walk]
           found == [job EXCEPT !.pc = "write", !.walk = Idle, !.read = record]
<1>4. g \in Group /\ child \in Group
  <2> HIDE DEF job
  <2> QED BY <1>0 DEF SubgroupOp
<1>5. v.said \in {"more", "no"} =>
        Exists(h) /\ v.walk = Walk(job.walk.item, rest, Idle) /\ (v.said = "no" <=> rest = {})
  <2> HIDE DEF job
  <2> QED BY VisitSays
<1>6. ASSUME UpToDate(job, Edges), v.said \in {"more", "no"}, child \in Reach(g, Edges)
      PROVE  \E z \in rest : z \in Reach(g, Edges)
  <2>1. /\ job.walk = Walk(g, job.walk.todo, job.walk.first) /\ child # g
        /\ job.walk.todo \subseteq Group /\ job.walk.first \in {child, Idle}
        /\ \E y \in job.walk.todo : y \in Reach(g, Edges)
    BY <1>0, <1>6 DEF UpToDate
  <2> DEFINE w == job.walk
  <2>2. w.item = g BY <2>1, WalkFields
  <2>3. w.item \in Group => w.first # w.item
    <3> HIDE DEF job
    <3> QED BY <2>1, <2>2, <1>4 DEF GroupSetting
  <2>4. PICK y \in w.todo : y \in Reach(w.item, Edges) BY <2>1, <2>2
  <2>5. w.todo \subseteq Group /\ h \in w.todo /\ Visit(w, h).said \in {"more", "no"}
    BY <1>6, <2>1
  <2> HIDE DEF w
  <2>6. \E z \in (w.todo \ {h}) \cup Subgroups(h) : z \in Reach(w.item, Edges)
    BY <2>3, <2>4, <2>5, SearchGoesOn
  <2> QED BY <2>2, <2>6 DEF w
<1>7. \/ v.said = "more" /\ admin' = [admin EXCEPT ![a] = onward]
      \/ v.said = "no" /\ admin' = [admin EXCEPT ![a] = found]
      \/ admin' = [admin EXCEPT ![a] = Idle]
  <2> DEFINE new == CASE v.said = "more" -> onward
                      [] v.said = "no" /\ child \notin job.read.subgroups -> found
                      [] OTHER -> Idle
  <2>1. admin' = [admin EXCEPT ![a] = new] BY <1>3
  <2>2. (v.said = "more" /\ new = onward) \/ (v.said = "no" /\ new = found) \/ new = Idle
    <3> HIDE DEF v, onward, found, job, child
    <3> QED OBVIOUS
  <2> HIDE DEF new, onward, found, v
  <2> QED BY <2>1, <2>2
<1>8. CASE v.said = "more" /\ admin' = [admin EXCEPT ![a] = onward]
  <2>1. /\ JobShape(onward) /\ onward.op = job.op /\ onward.pc = "walk"
        /\ onward.read = job.read /\ onward.walk = v.walk
    <3> DEFINE w == v.walk
    <3>1. onward = [job EXCEPT !.walk = w] OBVIOUS
    <3> HIDE DEF job, w, onward
    <3>2. /\ JobShape(onward) /\ onward.op = job.op /\ onward.pc = "walk"
          /\ onward.read = job.read /\ onward.walk = w
      BY <1>0, <3>1 DEF JobShape
    <3> QED BY <3>2 DEF w
  <2> HIDE DEF onward
  <2>2. JobOk(onward) BY <1>0, <2>1 DEF JobOk
  <2>3. Works(a, onward) BY <1>1, <1>2, <1>8, <2>2 DEF Works
  <2>4. UpToDate(job, Edges) => UpToDate(onward, Edges)
    <3> SUFFICES ASSUME UpToDate(job, Edges) PROVE UpToDate(onward, Edges)
      OBVIOUS
    <3>1. /\ job.walk = Walk(g, job.walk.todo, job.walk.first) /\ child # g
          /\ job.walk.todo \subseteq Group
          /\ \A x \in job.read.subgroups : <<g, x>> \in Edges
      BY <1>0 DEF UpToDate
    <3>2. job.walk.item = g BY <3>1, WalkFields
    <3>3. onward.walk = Walk(g, rest, Idle) /\ Exists(h) BY <1>5, <1>8, <2>1, <3>2
    <3>4. onward.walk.item = g /\ onward.walk.todo = rest /\ onward.walk.first = Idle
      <4> HIDE DEF rest, g
      <4> QED BY <3>3, WalkFields
    <3>5. rest \subseteq Group
      <4>1. h \in Group BY <3>1
      <4>2. groups[h].subgroups \subseteq Group BY <3>3, <4>1, StoredRecord
      <4> QED BY <3>1, <4>2 DEF Subgroups
    <3>6. child \in Reach(g, Edges) => \E y \in rest : y \in Reach(g, Edges)
      BY <1>6, <1>8
    <3> HIDE DEF rest, v, job
    <3> QED BY <2>1, <3>1, <3>3, <3>4, <3>5, <3>6 DEF UpToDate
  <2>5. Safely(a, onward) BY <1>2, <2>4 DEF Safely
  <2> QED BY <2>3, <2>5
<1>9. CASE v.said = "no" /\ admin' = [admin EXCEPT ![a] = found]
  <2>1. record \in Record /\ record.subgroups = job.read.subgroups \cup {child}
    <3> HIDE DEF job, child
    <3> QED BY <1>0, <1>4 DEF Record
  <2>2. /\ JobShape(found) /\ found.op = job.op /\ found.pc = "write" /\ found.read = record
    <3>1. found = [job EXCEPT !.pc = "write", !.walk = Idle, !.read = record] OBVIOUS
    <3> HIDE DEF job, record, found
    <3> QED BY <1>0, <3>1 DEF JobShape
  <2> HIDE DEF found
  <2>3. JobOk(found)
    <3> HIDE DEF record, job
    <3> QED BY <1>0, <2>1, <2>2 DEF JobOk
  <2>4. Works(a, found) BY <1>1, <1>2, <1>9, <2>3 DEF Works
  <2>5. UpToDate(job, Edges) => UpToDate(found, Edges)
    <3> SUFFICES ASSUME UpToDate(job, Edges) PROVE UpToDate(found, Edges)
      OBVIOUS
    <3>1. \A x \in job.read.subgroups : <<g, x>> \in Edges BY <1>0 DEF UpToDate
    <3>2. child \notin Reach(g, Edges)
      <4>1. ~(\E z \in rest : z \in Reach(g, Edges)) BY <1>5, <1>9
      <4> HIDE DEF rest, v, g, child, job
      <4> QED BY <4>1, <1>6, <1>9
    <3> HIDE DEF record, job
    <3> QED BY <2>1, <2>2, <3>1, <3>2 DEF UpToDate
  <2>6. Safely(a, found) BY <1>2, <2>5 DEF Safely
  <2> QED BY <2>4, <2>6
<1>10. CASE admin' = [admin EXCEPT ![a] = Idle] BY <1>1, <1>10, AdminStops
<1> QED
  <2> HIDE DEF v, job, onward, found
  <2> QED BY <1>7, <1>8, <1>9, <1>10

(* So does WriteGroup.                                                     *)
LEMMA AdminWrites ==
  ASSUME GroupSetting, Stored, NEW a \in Admin, admin[a] # Idle, JobOk(admin[a]), WriteGroup(a)
  PROVE  \E job : Works(a, job) /\ Safely(a, job)
<1> DEFINE job == admin[a]
           g == job.op.group
           next == [kind |-> "addMember", group |-> GuestGroup, item |-> GuestUser]
<1>0. job.pc = "write" /\ job.read \in Record /\ job.op \in GroupOp \cup MemberOp \cup SubgroupOp
  BY DEF WriteGroup, JobOk
<1>1. g \in Group
  <2> HIDE DEF job
  <2> QED BY <1>0 DEF GroupOp, MemberOp, SubgroupOp
<1>2. SetGroup(g, job.read) /\ check' = check BY DEF WriteGroup
<1>3. Stored' /\ Remember BY <1>0, <1>1, <1>2, GroupIsWritten
<1>4. UpToDate(job, Edges) /\ Grounded(Edges) => Grounded(Edges')
  <2> SUFFICES ASSUME UpToDate(job, Edges), Grounded(Edges) PROVE Grounded(Edges')
    OBVIOUS
  <2>1. \A x \in job.read.subgroups : <<g, x>> \in Edges \/ x \notin Reach(g, Edges)
    BY <1>0 DEF UpToDate
  <2> QED BY <1>0, <1>1, <1>2, <2>1, WriteIsGrounded
<1>5. CASE admin' = [admin EXCEPT ![a] = Job(next, "read")]
  <2>1. next \in AdminOp BY DEF GroupSetting, AdminOp, MemberOp
  <2> HIDE DEF next
  <2>2. JobOk(Job(next, "read")) /\ Job(next, "read").pc = "read" BY <2>1, JobBegins
  <2>3. UpToDate(Job(next, "read"), Edges') BY <2>2 DEF UpToDate
  <2>4. Works(a, Job(next, "read")) BY <1>2, <1>3, <1>5, <2>2 DEF Works
  <2>5. Safely(a, Job(next, "read")) BY <1>4, <2>3 DEF WriteGroup, Safely
  <2> QED BY <2>4, <2>5
<1>6. CASE admin' = [admin EXCEPT ![a] = Idle]
  <2>1. Works(a, Idle) BY <1>2, <1>3, <1>6 DEF Works
  <2>2. Safely(a, Idle) BY <1>4 DEF WriteGroup, Safely
  <2> QED BY <2>1, <2>2
<1>7. \/ admin' = [admin EXCEPT ![a] = Job(next, "read")]
      \/ admin' = [admin EXCEPT ![a] = Idle]
  BY DEF WriteGroup, Becomes
<1> QED BY <1>5, <1>6, <1>7

(* So does DeleteGroup.                                                    *)
LEMMA AdminDeletes ==
  ASSUME GroupSetting, Stored, NEW a \in Admin, admin[a] # Idle, JobOk(admin[a]), DeleteGroup(a)
  PROVE  \E job : Works(a, job) /\ Safely(a, job)
<1> DEFINE job == admin[a]
           op == job.op
           g == job.op.group
           new == [job EXCEPT !.pc = "list"]
<1>0. /\ JobShape(job) /\ job.pc = "read" /\ op.kind = "deleteGroup" /\ op \in AdminOp
      /\ SetGroup(g, NoGroup) /\ check' = check /\ admin' = [admin EXCEPT ![a] = new]
  BY DEF DeleteGroup, JobOk, Becomes
<1>1. op \in GroupOp /\ g \in Group
  <2>1. op \in GroupOp
    <3> HIDE DEF op
    <3> QED BY <1>0 DEF AdminOp, GroupOp, MemberOp, SubgroupOp, GrantOp
  <2>2. op.group \in Group
    <3> HIDE DEF op
    <3> QED BY <2>1 DEF GroupOp
  <2> QED BY <2>1, <2>2
<1>2. /\ Stored' /\ Remember
      /\ \A h, x : h # g => (<<h, x>> \in Edges' <=> <<h, x>> \in Edges)
      /\ \A x \in Group : <<g, x>> \in Edges' => NoGroup \in Record /\ x \in NoGroup.subgroups
  BY <1>0, <1>1, GroupIsWritten
<1>3. \A x : <<g, x>> \notin Edges'
  <2>1. groups'[g] = NoGroup BY <1>0, <1>1 DEF SetGroup, Stored
  <2> QED BY <2>1, EdgeNext
<1>4. Grounded(Edges) => Grounded(Edges')
  <2> SUFFICES ASSUME Grounded(Edges) PROVE Grounded(Edges')
    OBVIOUS
  <2> DEFINE E == Edges
             D == Edges'
  <2>1. \A h, x \in Group : <<h, x>> \in D => <<h, x>> \in E \/ (h = g /\ x \notin Reach(g, E))
    BY <1>2, <1>3
  <2>2. IsFiniteSet(Group) /\ Grounded(E) BY DEF GroupSetting
  <2> HIDE DEF E, D, g
  <2>3. Grounded(D) BY <1>1, <2>1, <2>2, StaysGrounded
  <2> QED BY <2>3 DEF D
<1>5. JobShape(new) /\ new.op = op /\ new.pc = "list"
  <2> HIDE DEF job
  <2> QED BY <1>0 DEF JobShape
<1> HIDE DEF new
<1>6. JobOk(new)
  <2> HIDE DEF op
  <2> QED BY <1>0, <1>1, <1>5 DEF JobOk
<1>7. UpToDate(new, Edges') BY <1>5 DEF UpToDate
<1>8. Works(a, new) BY <1>0, <1>2, <1>6 DEF Works
<1>9. Safely(a, new) BY <1>4, <1>7 DEF Safely
<1> QED BY <1>8, <1>9

(* So does ListParents.                                                    *)
LEMMA AdminLists ==
  ASSUME GroupSetting, Stored, NEW a \in Admin, admin[a] # Idle, JobOk(admin[a]), ListParents(a)
  PROVE  \E job : Works(a, job) /\ Safely(a, job)
<1> DEFINE job == admin[a]
           g == job.op.group
           parents == {h \in Group : Exists(h) /\ g \in groups[h].subgroups}
           without(h) == [groups[h] EXCEPT !.subgroups = @ \ {g}]
           rest == {<<h, without(h)>> : h \in parents}
           new == [job EXCEPT !.pc = "unlink", !.rest = rest]
<1>0. /\ JobShape(job) /\ job.pc = "list" /\ job.op \in AdminOp
      /\ job.op \in GroupOp \cup MemberOp \cup SubgroupOp
  BY DEF ListParents, JobOk
<1>1. UNCHANGED <<groups, grants, check, since>> BY DEF ListParents, ReadOnly
<1>2. Edges' = Edges /\ Stored' BY <1>1, SameEdges
<1>3. \/ admin' = [admin EXCEPT ![a] = Idle]
      \/ admin' = [admin EXCEPT ![a] = new]
  BY DEF ListParents, Becomes
<1>4. CASE admin' = [admin EXCEPT ![a] = Idle] BY <1>1, <1>4, AdminStops
<1>5. CASE admin' = [admin EXCEPT ![a] = new]
  <2>1. JobShape(new) /\ new.op = job.op /\ new.pc = "unlink" /\ new.rest = rest
    <3>1. new = [job EXCEPT !.pc = "unlink", !.rest = rest] OBVIOUS
    <3> HIDE DEF job, rest, new
    <3> QED BY <1>0, <3>1 DEF JobShape
  <2> HIDE DEF new
  <2>2. \A h \in parents : /\ h \in Group /\ without(h) \in Record
                           /\ \A x \in without(h).subgroups : <<h, x>> \in Edges
    <3> SUFFICES ASSUME NEW h \in parents
                 PROVE  /\ h \in Group /\ without(h) \in Record
                        /\ \A x \in without(h).subgroups : <<h, x>> \in Edges
      OBVIOUS
    <3>1. h \in Group /\ Exists(h) OBVIOUS
    <3>2. groups[h] \in Record BY <3>1, StoredRecord
    <3> HIDE DEF g
    <3>3. without(h) \in Record /\ without(h).subgroups \subseteq groups[h].subgroups
      BY <3>2 DEF Record
    <3> HIDE DEF without
    <3> QED BY <3>1, <3>3, EdgeOf
  <2> HIDE DEF without, parents
  <2>3. rest \subseteq Group \X Record BY <2>2
  <2>4. JobOk(new)
    <3> HIDE DEF rest, job
    <3> QED BY <1>0, <2>1, <2>3 DEF JobOk
  <2>5. \A p \in rest : \A x \in p[2].subgroups : <<p[1], x>> \in Edges BY <2>2
  <2>6. \A p, r \in rest : p[1] = r[1] => p = r OBVIOUS
  <2> HIDE DEF rest
  <2>7. UpToDate(new, Edges') BY <1>2, <2>1, <2>5, <2>6 DEF UpToDate
  <2>8. Works(a, new) BY <1>1, <1>2, <1>5, <2>4 DEF Works
  <2>9. Safely(a, new) BY <1>2, <2>7 DEF Safely
  <2> QED BY <2>8, <2>9
<1> QED
  <2> HIDE DEF new
  <2> QED BY <1>3, <1>4, <1>5

(* So does Unlink: each record is that of another group.                   *)
LEMMA AdminUnlinks ==
  ASSUME GroupSetting, Stored, NEW a \in Admin, admin[a] # Idle, JobOk(admin[a]), Unlink(a)
  PROVE  \E job : Works(a, job) /\ Safely(a, job)
<1> DEFINE job == admin[a]
<1>0. /\ JobShape(job) /\ job.pc = "unlink" /\ job.op \in AdminOp
      /\ job.op \in GroupOp \cup MemberOp \cup SubgroupOp /\ job.rest \subseteq Group \X Record
  BY DEF Unlink, JobOk
<1>1. PICK p \in job.rest :
        /\ SetGroup(p[1], p[2]) /\ check' = check
        /\ \/ admin' = [admin EXCEPT ![a] = Idle]
           \/ admin' = [admin EXCEPT ![a] = [job EXCEPT !.rest = @ \ {p}]]
  BY DEF Unlink, Becomes
<1> DEFINE new == [job EXCEPT !.rest = @ \ {p}]
<1>2. PICK h \in Group, record \in Record : p = <<h, record>> BY <1>0
<1>3. p[1] = h /\ p[2] = record BY <1>2
<1>4. SetGroup(h, record) BY <1>1, <1>3
<1>5. /\ Stored' /\ Remember
      /\ \A i, x : i # h => (<<i, x>> \in Edges' <=> <<i, x>> \in Edges)
  BY <1>4, GroupIsWritten
<1>6. UpToDate(job, Edges) =>
        /\ \A q \in job.rest : \A x \in q[2].subgroups : <<q[1], x>> \in Edges
        /\ \A q, r \in job.rest : q[1] = r[1] => q = r
  BY <1>0 DEF UpToDate
<1>7. UpToDate(job, Edges) /\ Grounded(Edges) => Grounded(Edges')
  <2> SUFFICES ASSUME UpToDate(job, Edges), Grounded(Edges) PROVE Grounded(Edges')
    OBVIOUS
  <2>1. \A x \in record.subgroups : <<h, x>> \in Edges BY <1>3, <1>6
  <2> QED BY <1>4, <2>1, WriteIsGrounded
<1>8. CASE admin' = [admin EXCEPT ![a] = Idle]
  <2>1. Works(a, Idle) BY <1>1, <1>5, <1>8 DEF Works
  <2>2. Safely(a, Idle) BY <1>7 DEF Unlink, Safely
  <2> QED BY <2>1, <2>2
<1>9. CASE admin' = [admin EXCEPT ![a] = new]
  <2>1. /\ JobShape(new) /\ new.op = job.op /\ new.pc = "unlink" /\ new.rest = job.rest \ {p}
    <3> HIDE DEF job
    <3> QED BY <1>0 DEF JobShape
  <2> HIDE DEF new
  <2>2. JobOk(new)
    <3> HIDE DEF job
    <3> QED BY <1>0, <2>1 DEF JobOk
  <2>3. Works(a, new) BY <1>1, <1>5, <1>9, <2>2 DEF Works
  <2>4. UpToDate(job, Edges) => UpToDate(new, Edges')
    <3> SUFFICES ASSUME UpToDate(job, Edges) PROVE UpToDate(new, Edges')
      OBVIOUS
    <3>1. ASSUME NEW q \in job.rest, q # p, NEW x \in q[2].subgroups
          PROVE  <<q[1], x>> \in Edges'
      <4>1. q[1] # h BY <1>3, <1>6, <3>1
      <4>2. <<q[1], x>> \in Edges BY <1>6
      <4> QED BY <4>1, <4>2, <1>5
    <3>2. \A q, r \in job.rest : q[1] = r[1] => q = r BY <1>6
    <3> HIDE DEF job
    <3> QED BY <2>1, <3>1, <3>2 DEF UpToDate
  <2>5. Safely(a, new) BY <1>7, <2>4 DEF Safely, Unlink
  <2> QED BY <2>3, <2>5
<1> QED
  <2> HIDE DEF job
  <2> QED BY <1>1, <1>8, <1>9

(* So does SetGrant.                                                       *)
LEMMA AdminGrants ==
  ASSUME GroupSetting, Stored, NEW a \in Admin, SetGrant(a)
  PROVE  \E job : Works(a, job) /\ Safely(a, job)
<1>1. /\ admin' = [admin EXCEPT ![a] = Idle] /\ groups' = groups /\ Remember /\ check' = check
  BY DEF SetGrant, Becomes
<1>2. Edges' = Edges /\ Stored' BY <1>1, SameEdges
<1>3. Works(a, Idle) BY <1>1, <1>2 DEF Works
<1>4. Safely(a, Idle) BY <1>2 DEF Safely
<1> QED BY <1>3, <1>4

(* So does every step of an administrator.                                 *)
LEMMA AdminWorks ==
  ASSUME GroupSetting, Stored, Jobs, NEW a \in Admin, AdminStep(a)
  PROVE  \E job : Works(a, job) /\ Safely(a, job)
<1>1. admin[a] # Idle => JobOk(admin[a]) BY DEF Jobs
<1>2. CASE \E op \in AdminOps : BeginAdmin(a, op) BY <1>2, AdminBegins
<1>3. CASE ReadGroup(a) BY <1>1, <1>3, AdminReads DEF ReadGroup
<1>4. CASE ReadChild(a) BY <1>1, <1>4, AdminReadsChild DEF ReadChild
<1>5. CASE LookForCycle(a) BY <1>1, <1>5, AdminLooks DEF LookForCycle
<1>6. CASE WriteGroup(a) BY <1>1, <1>6, AdminWrites DEF WriteGroup
<1>7. CASE DeleteGroup(a) BY <1>1, <1>7, AdminDeletes DEF DeleteGroup
<1>8. CASE ListParents(a) BY <1>1, <1>8, AdminLists DEF ListParents
<1>9. CASE Unlink(a) BY <1>1, <1>9, AdminUnlinks DEF Unlink
<1>10. CASE SetGrant(a) BY <1>10, AdminGrants
<1>11. CASE AbandonAdmin(a) BY <1>11, AdminStops DEF AbandonAdmin, Becomes, ReadOnly
<1> QED BY <1>2, <1>3, <1>4, <1>5, <1>6, <1>7, <1>8, <1>9, <1>10, <1>11 DEF AdminStep

(* All evaluations are as they should be.                                  *)
Evaluations ==
  /\ check = [c \in Checker |-> check[c]] /\ since = [c \in Checker |-> since[c]]
  /\ \A c \in Checker : check[c] # Idle => EvalOk(check[c], since[c], Edges, grants)

(* Every step of an administrator keeps the invariant.                     *)
LEMMA AdminKeeps ==
  ASSUME GroupSetting, Stored, Jobs, Evaluations, NEW a \in Admin, AdminStep(a)
  PROVE  Stored' /\ Jobs' /\ Evaluations'
<1>1. PICK job : Works(a, job) BY AdminWorks
<1>2. Stored' BY <1>1 DEF Works
<1>3. Jobs'
  <2>1. admin' = [admin EXCEPT ![a] = job] /\ (job # Idle => JobOk(job)) BY <1>1 DEF Works
  <2>2. admin = [b \in Admin |-> admin[b]] BY DEF Jobs
  <2>3. admin' = [b \in Admin |-> admin'[b]] BY <2>1, <2>2
  <2>4. admin'[a] = job /\ \A b \in Admin : b # a => admin'[b] = admin[b] BY <2>1, <2>2
  <2>5. ASSUME NEW b \in Admin, admin'[b] # Idle PROVE JobOk(admin'[b])
    BY <2>1, <2>4, <2>5 DEF Jobs
  <2>6. ASSUME NEW b \in Admin, admin'[b] # Idle PROVE JobOk(admin[b])'
    BY <2>5, <2>6 DEF JobOk, JobShape
  <2> QED BY <2>3, <2>6 DEF Jobs
<1>4. CASE Remember
  <2> DEFINE D == Edges'
             hr == grants'
             now(c) == [edges |-> since[c].edges \cap D,
                        grants |-> {x \in since[c].grants : hr[x] = grants[x]}]
  <2>1. since' = [c \in Checker |-> now(c)] /\ check' = check BY <1>1, <1>4 DEF Remember, Works
  <2>2. \A c \in Checker : check[c] # Idle => EvalOk(check[c], now(c), D, hr)
    <3> HIDE DEF D, hr
    <3> QED BY EvalOutlives DEF Evaluations
  <2> HIDE DEF now
  <2>3. \A c \in Checker : since'[c] = now(c) BY <2>1
  <2>4. since' = [c \in Checker |-> since'[c]] BY <2>1
  <2>5. \A c \in Checker : check'[c] # Idle => EvalOk(check'[c], since'[c], D, hr)
    <3> HIDE DEF D, hr
    <3> QED BY <2>1, <2>2, <2>3
  <2>6. check' = [c \in Checker |-> check'[c]] BY <2>1 DEF Evaluations
  <2> QED BY <1>2, <1>3, <2>4, <2>5, <2>6 DEF Evaluations
<1>5. CASE UNCHANGED <<groups, grants, since>>
  <2>1. Edges' = Edges BY <1>5, SameEdges
  <2>2. check' = check BY <1>1 DEF Works
  <2> QED BY <1>2, <1>3, <1>5, <2>1, <2>2 DEF Evaluations
<1> QED BY <1>1, <1>2, <1>3, <1>4, <1>5 DEF Works

(* Every step of an evaluation keeps its own.                              *)
LEMMA EvalMoves ==
  ASSUME GroupSetting, Stored, NEW c \in Checker, check[c] # Idle, CheckStep(c),
         EvalOk(check[c], since[c], Edges, grants)
  PROVE  \E k : /\ check' = [check EXCEPT ![c] = k]
                /\ EvalOk(k, since[c], Edges, grants)
                /\ UNCHANGED <<groups, grants, admin, since, changes>>
<1> DEFINE k == check[c]
           s == since[c]
<1>1. CASE ListSubjects(c)
  <2> DEFINE k2 == [k EXCEPT !.phase = "ask",
                       !.ask = {g \in Group : Exists(g)} \X ({k.q.user} \cup k.q.claimed)]
  <2>1. /\ check' = [check EXCEPT ![c] = k2] /\ k.phase = "list"
        /\ UNCHANGED <<groups, grants, admin, since, changes>>
    BY <1>1 DEF ListSubjects, CheckBecomes
  <2>2. EvalOk(k2, s, Edges, grants)
    <3>1. EvalOk(k, s, Edges, grants) OBVIOUS
    <3> HIDE DEF k, s
    <3> QED BY <2>1, <3>1, EvalLists
  <2> HIDE DEF k2
  <2> QED BY <2>1, <2>2
<1>2. CASE PoseQuery(c)
  <2> DEFINE query == CHOOSE x \in k.ask : TRUE
             all == [k EXCEPT !.phase = "grants", !.left = k.subjects]
             one == [k EXCEPT !.phase = "walk", !.ask = @ \ {query}, !.of = query[1],
                              !.walk = Walk(query[2], {query[1]}, query[1])]
  <2>1. /\ check' = [check EXCEPT ![c] = IF k.ask = {} THEN all ELSE one] /\ k.phase = "ask"
        /\ UNCHANGED <<groups, grants, admin, since, changes>>
    BY <1>2 DEF PoseQuery, CheckBecomes
  <2>2. EvalOk(k, s, Edges, grants) OBVIOUS
  <2>3. k.ask = {} => EvalOk(all, s, Edges, grants)
    <3> HIDE DEF k, s
    <3> QED BY <2>1, <2>2, EvalAllAsked
  <2>4. k.ask # {} => query \in k.ask OBVIOUS
  <2>5. k.ask # {} => EvalOk(one, s, Edges, grants)
    <3> HIDE DEF k, s, query
    <3> QED BY <2>1, <2>2, <2>4, EvalAsks
  <2> HIDE DEF all, one
  <2> QED BY <2>1, <2>3, <2>5
<1>3. CASE WalkQuery(c)
  <2>1. k.phase = "walk" /\ UNCHANGED <<groups, grants, admin, since, changes>>
    BY <1>3 DEF WalkQuery
  <2>2. PICK h \in k.walk.todo : check' = [check EXCEPT ![c] = Answers(k, Visit(k.walk, h))]
    BY <1>3 DEF WalkQuery, CheckBecomes, Answers
  <2> DEFINE k2 == Answers(k, Visit(k.walk, h))
  <2>3. EvalOk(k2, s, Edges, grants)
    <3>1. EvalOk(k, s, Edges, grants) OBVIOUS
    <3> HIDE DEF k, s
    <3> QED BY <2>1, <3>1, EvalWalks
  <2> HIDE DEF k2
  <2> QED BY <2>1, <2>2, <2>3 DEF k2
<1>4. CASE ReadGrant(c)
  <2> DEFINE t == CHOOSE x \in k.left : TRUE
             k2 == [k EXCEPT !.left = @ \ {t},
                      !.found = (@ \cup {grants[<<t, k.q.command>>]}) \ {NoGrant}]
  <2>1. /\ check' = [check EXCEPT ![c] = k2] /\ k.phase = "grants" /\ k.left # {}
        /\ UNCHANGED <<groups, grants, admin, since, changes>>
    BY <1>4 DEF ReadGrant, CheckBecomes
  <2>2. t \in k.left BY <2>1
  <2>3. EvalOk(k2, s, Edges, grants)
    <3>1. EvalOk(k, s, Edges, grants) OBVIOUS
    <3> HIDE DEF k, s, t
    <3> QED BY <2>1, <2>2, <3>1, EvalReads
  <2> HIDE DEF k2
  <2> QED BY <2>1, <2>3
<1>5. CASE Decide(c)
  <2> DEFINE k2 == [k EXCEPT !.phase = IF Granted(k) THEN "allowed" ELSE "refused"]
  <2>1. /\ check' = [check EXCEPT ![c] = k2] /\ k.phase = "grants" /\ k.left = {}
        /\ UNCHANGED <<groups, grants, admin, since, changes>>
    BY <1>5 DEF Decide, CheckBecomes
  <2>3. EvalOk(k2, s, Edges, grants)
    <3>1. EvalOk(k, s, Edges, grants) OBVIOUS
    <3> HIDE DEF k, s
    <3> QED BY <2>1, <3>1, EvalDecides
  <2> HIDE DEF k2
  <2> QED BY <2>1, <2>3
<1> QED BY <1>1, <1>2, <1>3, <1>4, <1>5 DEF CheckStep

(* A change of one evaluation leaves the others alone.                     *)
LEMMA OneEvaluation ==
  ASSUME Evaluations, NEW c \in Checker, NEW k, NEW s,
         check' = [check EXCEPT ![c] = k], since' = [since EXCEPT ![c] = s],
         UNCHANGED <<groups, grants>>,
         k # Idle => EvalOk(k, s, Edges, grants)
  PROVE  Evaluations'
<1>1. Edges' = Edges /\ grants' = grants BY SameEdges
<1>2. /\ check = [d \in Checker |-> check[d]] /\ since = [d \in Checker |-> since[d]]
      /\ \A d \in Checker : check[d] # Idle => EvalOk(check[d], since[d], Edges, grants)
  BY DEF Evaluations
<1>3. check' = [d \in Checker |-> check'[d]] /\ since' = [d \in Checker |-> since'[d]]
  BY <1>2
<1>4. /\ check'[c] = k /\ since'[c] = s
      /\ \A d \in Checker : d # c => check'[d] = check[d] /\ since'[d] = since[d]
  BY <1>2
<1>5. ASSUME NEW d \in Checker, check'[d] # Idle
      PROVE  EvalOk(check'[d], since'[d], Edges, grants)
  BY <1>2, <1>4, <1>5
<1>6. \A d \in Checker : check'[d] # Idle => EvalOk(check'[d], since'[d], Edges', grants')
  BY <1>1, <1>5
<1> QED BY <1>3, <1>6 DEF Evaluations

(* Every step of an evaluation keeps the invariant.                        *)
LEMMA CheckKeeps ==
  ASSUME GroupSetting, Stored, Evaluations, NEW c \in Checker, CheckStep(c)
  PROVE  Evaluations' /\ UNCHANGED <<groups, grants, admin>>
<1>1. check[c] # Idle
  BY DEF CheckStep, ListSubjects, PoseQuery, WalkQuery, ReadGrant, Decide
<1>2. EvalOk(check[c], since[c], Edges, grants) BY <1>1 DEF Evaluations
<1>3. PICK k : /\ check' = [check EXCEPT ![c] = k]
               /\ EvalOk(k, since[c], Edges, grants)
               /\ UNCHANGED <<groups, grants, admin, since, changes>>
  BY <1>1, <1>2, EvalMoves
<1>4. since = [d \in Checker |-> since[d]] BY DEF Evaluations
<1>5. since' = [since EXCEPT ![c] = since[c]] BY <1>3, <1>4
<1> QED BY <1>3, <1>5, OneEvaluation

(* Calls change groups, grants and evaluations in three ways only: by a    *)
(* step of an evaluation, by one of an administrator, and where            *)
(* authorizeRpc begins an evaluation or takes its result.                  *)
LEMMA StepsOfIam ==
  ASSUME Next
  PROVE  \/ UNCHANGED iamVars
         \/ \E c \in Checker : CheckStep(c)
         \/ \E a \in Admin : AdminStep(a)
         \/ \E c \in Checker : /\ \/ \E q : BeginCheck(c, q)
                                  \/ /\ check' = [check EXCEPT ![c] = Idle]
                                     /\ since' = [since EXCEPT ![c] = Nothing]
                               /\ UNCHANGED <<groups, grants, admin, changes>>
<1>1. Checker = FrameId BY CallsAssumption
<1>2. ASSUME NEW f \in FrameId, Request(f) PROVE UNCHANGED iamVars BY <1>2 DEF Request
<1>3. ASSUME NEW f \in FrameId, GiveUp(f) PROVE UNCHANGED iamVars BY <1>3 DEF GiveUp
<1>4. ASSUME NEW f \in FrameId, authorizeRpc(f)
      PROVE  /\ \/ \E q : BeginCheck(f, q)
                \/ /\ check' = [check EXCEPT ![f] = Idle]
                   /\ since' = [since EXCEPT ![f] = Nothing]
             /\ UNCHANGED <<groups, grants, admin, changes>>
  BY <1>4 DEF authorizeRpc
<1>5. ASSUME NEW f \in FrameId, FrameStep(f), ~authorizeRpc(f) PROVE UNCHANGED iamVars
  BY <1>5 DEF FrameStep, LoadRouteState, FindExpired, SavePruned, SaveRouteState, Save,
       enforceInboundRoutePolicy, listPeerSummaries, executeRouted, learn, LearnNext, Return,
       callDetailed, OnlyFrames
<1> QED BY <1>1, <1>2, <1>3, <1>4, <1>5 DEF Next, WithIam

(* Every step keeps the invariant.                                         *)
LEMMA NextKeeps ==
  ASSUME GroupSetting, Stored, Jobs, Evaluations, [Next]_vars
  PROVE  Stored' /\ Jobs' /\ Evaluations'
<1>1. CASE UNCHANGED iamVars
  <2>1. UNCHANGED <<groups, grants, admin, check, since>> BY <1>1 DEF iamVars
  <2>2. Edges' = Edges /\ Stored' BY <2>1, SameEdges
  <2>3. Jobs' BY <2>1 DEF Jobs, JobOk, JobShape
  <2>4. Evaluations' BY <2>1, <2>2 DEF Evaluations
  <2> QED BY <2>2, <2>3, <2>4
<1>2. CASE \E a \in Admin : AdminStep(a) BY <1>2, AdminKeeps
<1>3. ASSUME UNCHANGED <<groups, grants, admin>> PROVE Stored' /\ Jobs'
  <2>1. Stored' BY <1>3, SameEdges
  <2>2. Jobs' BY <1>3 DEF Jobs, JobOk, JobShape
  <2> QED BY <2>1, <2>2
<1>4. CASE \E c \in Checker : CheckStep(c) BY <1>3, <1>4, CheckKeeps
<1>5. ASSUME NEW c \in Checker, NEW q, BeginCheck(c, q),
             UNCHANGED <<groups, grants, admin, changes>>
      PROVE  Evaluations'
  <2> DEFINE s == [edges |-> Edges, grants |-> Subject \X Command]
  <2>1. check' = [check EXCEPT ![c] = Ask(q)] /\ since' = [since EXCEPT ![c] = s]
    BY <1>5 DEF BeginCheck
  <2>2. EvalOk(Ask(q), s, Edges, grants) BY EvalBegins
  <2> HIDE DEF s
  <2> QED BY <1>5, <2>1, <2>2, OneEvaluation
<1>6. ASSUME NEW c \in Checker, check' = [check EXCEPT ![c] = Idle],
             since' = [since EXCEPT ![c] = Nothing],
             UNCHANGED <<groups, grants, admin, changes>>
      PROVE  Evaluations'
  BY <1>6, OneEvaluation
<1>7. CASE Next BY <1>1, <1>2, <1>3, <1>4, <1>5, <1>6, <1>7, StepsOfIam
<1>8. CASE UNCHANGED vars BY <1>1, <1>8 DEF vars
<1> QED BY <1>7, <1>8

(* It holds at the start.                                                  *)
LEMMA StartsKept ==
  ASSUME GroupSetting, Init
  PROVE  Stored /\ Jobs /\ Evaluations /\ \A a \in Admin : admin[a] = Idle
<1>1. IamInit BY DEF Init
<1>2. Stored BY <1>1 DEF IamInit, Stored, GroupSetting
<1>3. Jobs /\ \A a \in Admin : admin[a] = Idle BY <1>1 DEF IamInit, Jobs
<1>4. Evaluations BY <1>1 DEF IamInit, Evaluations
<1> QED BY <1>2, <1>3, <1>4

(* It always holds, however many administrators there are.                 *)
THEOREM AlwaysKept ==
  ASSUME GroupSetting
  PROVE  Spec => [](Stored /\ Jobs /\ Evaluations)
<1>1. Init => Stored /\ Jobs /\ Evaluations BY StartsKept
<1>2. Stored /\ Jobs /\ Evaluations /\ [Next]_vars => (Stored /\ Jobs /\ Evaluations)'
  BY NextKeeps
<1> QED BY <1>1, <1>2, PTL DEF Spec

(* No caller is let through while a grant denies it all along (canInvoke   *)
(* in iam.ts), however the steps of evaluations and administrators         *)
(* interleave.                                                             *)
THEOREM DenyHoldsAlways ==
  ASSUME GroupSetting
  PROVE  Spec => []DenyHolds
<1>1. Evaluations => DenyHolds
  <2> SUFFICES ASSUME Evaluations, NEW c \in Checker, check[c] # Idle,
                      check[c].phase = "allowed",
                      NEW s \in {check[c].q.user} \cup check[c].q.claimed
                        \cup UNION {Above(x, since[c].edges) :
                                      x \in {check[c].q.user} \cup check[c].q.claimed},
                      <<s, check[c].q.command>> \in since[c].grants,
                      Matches(grants[<<s, check[c].q.command>>], check[c].q)
               PROVE  grants[<<s, check[c].q.command>>].allow
    BY DEF DenyHolds
  <2> DEFINE k == check[c]
             r == since[c]
  <2>1. EvalOk(k, r, Edges, grants) BY DEF Evaluations
  <2>2. s \in Named(k) \cup UNION {Above(x, r.edges) : x \in Named(k)} BY DEF Named
  <2>3. /\ <<s, k.q.command>> \in r.grants /\ Matches(grants[<<s, k.q.command>>], k.q)
        /\ k.phase = "allowed"
    OBVIOUS
  <2> HIDE DEF k, r
  <2>4. grants[<<s, k.q.command>>].allow BY <2>1, <2>2, <2>3, EvalDenies
  <2> QED BY <2>4 DEF k
<1> QED BY <1>1, AlwaysKept, PTL

(* One administrator at a time.                                            *)
OneAdmin == \A a, b \in Admin : a = b

(* The inductive invariant behind GroupsAcyclic.                           *)
InStep ==
  /\ Grounded(Edges)
  /\ \A a \in Admin : admin[a] # Idle => UpToDate(admin[a], Edges)

(* Every step keeps it, with one administrator.                            *)
LEMMA NextInStep ==
  ASSUME GroupSetting, OneAdmin, Stored, Jobs, Evaluations, InStep, [Next]_vars
  PROVE  InStep'
<1>1. ASSUME UNCHANGED <<groups, admin>> PROVE InStep'
  <2>1. Edges' = Edges BY <1>1, SameEdges
  <2> DEFINE E == Edges
  <2>2. Grounded(E) /\ \A a \in Admin : admin[a] # Idle => UpToDate(admin[a], E) BY DEF InStep
  <2>3. Grounded(Edges') /\ \A a \in Admin : admin'[a] # Idle => UpToDate(admin'[a], Edges')
    BY <1>1, <2>1, <2>2
  <2> QED BY <2>3 DEF InStep, UpToDate, Grounded
<1>2. ASSUME NEW a \in Admin, AdminStep(a) PROVE InStep'
  <2>1. PICK job : Works(a, job) /\ Safely(a, job) BY <1>2, AdminWorks
  <2>2. Grounded(Edges') /\ (job # Idle => UpToDate(job, Edges')) BY <2>1 DEF Safely, InStep
  <2>3. \A b \in Admin : b = a BY DEF OneAdmin
  <2>4. admin'[a] = job BY <2>1 DEF Works, Jobs
  <2>5. \A b \in Admin : admin'[b] # Idle => UpToDate(admin'[b], Edges') BY <2>2, <2>3, <2>4
  <2> QED BY <2>2, <2>5 DEF InStep, UpToDate, Grounded
<1>3. CASE Next
  <2>1. CASE UNCHANGED iamVars BY <1>1, <2>1 DEF iamVars
  <2>2. CASE \E c \in Checker : CheckStep(c) BY <1>1, <2>2, CheckKeeps
  <2> QED BY <1>1, <1>2, <1>3, <2>1, <2>2, StepsOfIam
<1>4. CASE UNCHANGED vars BY <1>1, <1>4 DEF vars, iamVars
<1> QED BY <1>3, <1>4

(* One administrator never makes the groups hold one another in a circle   *)
(* (addSubgroup in iam.ts), if they do not at the start, even when its     *)
(* changes are cut short between a read and a write.                       *)
THEOREM GroupsStayAcyclic ==
  ASSUME GroupSetting, OneAdmin
  PROVE  Spec /\ GroupsAcyclic => []GroupsAcyclic
<1>1. GroupsAcyclic <=> Acyclic(Edges) BY DEF GroupsAcyclic, Acyclic
<1>2. GroupsAcyclic <=> Grounded(Edges)
  BY <1>1, GroundedIsAcyclic, AcyclicIsGrounded DEF GroupSetting
<1>3. Init /\ GroupsAcyclic => InStep BY <1>2, StartsKept DEF InStep
<1>4. Stored /\ Jobs /\ Evaluations /\ InStep /\ [Next]_vars => InStep' BY NextInStep
<1>5. InStep => GroupsAcyclic BY <1>2 DEF InStep
<1> QED BY <1>3, <1>4, <1>5, AlwaysKept, PTL DEF Spec

=============================================================================
