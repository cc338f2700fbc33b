------------------------------ MODULE Election ------------------------------
(***************************************************************************)
(* Lease-based election of the leader of one shard: src/src/cord/          *)
(* election.ts, with the parts of cluster.ts, foundation.ts and            *)
(* cord_node.ts it reads.                                                  *)
(*                                                                         *)
(* Nodes share one durable store.  It holds the membership, the published  *)
(* node directory, the shard definition and the shard's assignment (who    *)
(* leads, in which term, until when).  Lease votes live in the memory of   *)
(* the node that gave them.  Every node reconciles: it reads the           *)
(* assignment and, when that is unhealthy, collects votes for a candidate  *)
(* of its choice and then writes the assignment, with no compare-and-swap. *)
(*                                                                         *)
(* A Worker is one execution of reconcileCluster (or of an admin call) on  *)
(* the node Host[w].  Two workers of one node stand for the interval timer *)
(* firing while an earlier tick still awaits, or for a tick made by        *)
(* getLeader or addShard.  Each await at which another worker's writes can *)
(* slip in ends a step.                                                    *)
(*                                                                         *)
(* Time is kept as what remains: a lease with left = 0 has expired, and    *)
(* Tick lets one unit of time pass for every lease at once.  The clocks of *)
(* the nodes are taken to agree.                                           *)
(***************************************************************************)
EXTENDS Integers, FiniteSets

CONSTANTS
  Node,         \* node ids, as integers: the code orders them by localeCompare
  Worker,       \* concurrent executions of the election manager's methods
  Host,         \* the node each worker runs on
  Eligible,     \* members whose role has eligibleLeader # false
  Receives,     \* members whose role has canReceive # false
  Priority,     \* priorityFromConfig of each node
  LeaseTtl,     \* leaseMsFromConfig of each node, in units of Tick
  StrictAll,    \* TRUE: leaseMode 'all'; FALSE: leaseMode 'quorum'
  FreeChoice,   \* TRUE: other shards' loads may put any eligible node first
  InitUp,       \* the nodes that start together, before anything is elected
  MayCrash,     \* TRUE: a process may end without unpublishing itself
  Reaches,      \* the reachability relations the registry may be set to
  NoNode,       \* the leader of no vote and of no assignment
  MaxTerm,      \* bound: no term beyond it is tried
  MaxFaults     \* bound: stops, crashes, losses, delays and admin calls

ASSUME ElectionAssumption ==
  /\ Node \subseteq Nat /\ IsFiniteSet(Node) /\ NoNode \notin Node
  /\ Host \in [Worker -> Node]
  /\ Eligible \subseteq Node /\ Receives \subseteq Node /\ InitUp \subseteq Node
  /\ Priority \in [Node -> Int]
  /\ LeaseTtl \in [Node -> Nat \ {0}]
  /\ {StrictAll, FreeChoice, MayCrash} \subseteq BOOLEAN
  /\ Reaches \subseteq SUBSET (Node \X Node) /\ Reaches # {}
  /\ MaxTerm \in Nat /\ MaxFaults \in Nat

VARIABLES
  up,           \* nodes whose process runs
  published,    \* nodes with a started record in the shared directory
  member,       \* nodes with a membership record of the cluster
  reach,        \* registry reachability: pairs <<from, to>>
  shard,        \* is the shard defined in the store
  assignment,   \* the stored assignment of the shard
  votes,        \* leaseVotes of each node for the shard
  pc,           \* where each worker stands
  elig,         \* the eligible nodes each worker read
  renewing,     \* does the worker ask for a renewal
  claim,        \* the lease each worker is asking for, with its approvals
  pending,      \* voters the worker has yet to ask
  oks,          \* approvals the worker counted
  late,         \* requests that timed out at the caller and are still queued
  wins,         \* ghost: every unexpired lease that got its approvals
  faults        \* bound: faults still to happen

storeVars  == <<published, member, shard, assignment>>
workerVars == <<pc, elig, renewing, claim, pending, oks>>
vars == <<up, reach, votes, late, wins, faults, storeVars, workerVars>>

-----------------------------------------------------------------------------
(* Data.                                                                   *)

NodeOrNone == Node \cup {NoNode}

(* LeaseVote and LeaderAssignment, and what no vote or no assignment is.   *)
Lease   == [leader : NodeOrNone, term : Nat, left : Nat]
NoLease == [leader |-> NoNode, term |-> 0, left |-> 0]

(* A lease a worker asks for: by is the set of voters that approved it and *)
(* have not restarted since, needed the number of approvals required.      *)
Claim   == [leader : NodeOrNone, term : Nat, left : Nat,
            by : SUBSET Node, needed : Nat]
NoClaim == [leader |-> NoNode, term |-> 0, left |-> 0, by |-> {}, needed |-> 0]

Request == [to : Node, renew : BOOLEAN, leader : Node, term : Nat]

PCs == {"idle", "begin", "elect", "ask", "force", "remove"}

(* Mutants: the longest approval decides; a lease counted past its end.    *)
Greater(a, b) == IF a < b THEN b ELSE a
Overaged(n) == n - 1

Lesser(a, b) == IF a < b THEN a ELSE b
Aged(n) == IF n > 0 THEN n - 1 ELSE 0

(* Nodes whose RPC server answers: started and not yet stopped.            *)
Serving == up \cap published

(* getAliveNodes: a member is alive when it is discoverable, that is when  *)
(* a directory record says started.  Nothing expires such a record.        *)
Alive == member \cap published

EligibleNow == Alive \cap Eligible \cap Receives

(* voters(): members that are alive, may receive and reach the leader.     *)
Voters(leader) == {n \in Alive \cap Receives : <<n, leader>> \in reach}

(* requiredVotes(): of the voters visible now, not of the membership.      *)
Required(n) == IF StrictAll THEN n ELSE (2 * n) \div 3 + 1

HasQuorum(leader) ==
  LET n == Cardinality(Voters(leader)) IN n >= Required(n)

Healthy(a) ==
  /\ a.left > 0
  /\ a.leader \in Alive \cap Eligible
  /\ HasQuorum(a.leader)

(* getLeader() after its tick.                                             *)
Leader == IF Healthy(assignment) THEN assignment.leader ELSE NoNode

(* The order in which reconcileCluster sorts equally loaded candidates.    *)
Before(m, n) ==
  \/ Priority[m] > Priority[n]
  \/ Priority[m] = Priority[n] /\ m < n

(* The candidates the load balancing may put first.  With one shard every  *)
(* load is 0 and the choice is determined.                                 *)
Candidates(E) ==
  IF FreeChoice THEN E ELSE {n \in E : \A m \in E \ {n} : Before(n, m)}

-----------------------------------------------------------------------------
(* The vote handlers of a follower.                                        *)

(* Mutants of RequestOk: a running vote yields to any request of its own   *)
(* term; it yields to lower terms too; one vote a term, even once expired. *)
RequestOkTies(v, leader, term) ==
  /\ leader \in member \cap Eligible
  /\ <<v, leader>> \in reach
  /\ votes[v].left > 0 => votes[v].term <= term

RequestOkOlder(v, leader, term) ==
  /\ leader \in member \cap Eligible
  /\ <<v, leader>> \in reach
  /\ votes[v].left > 0 => votes[v].term # term \/ votes[v].leader = leader

RequestOkOnce(v, leader, term) ==
  /\ leader \in member \cap Eligible
  /\ <<v, leader>> \in reach
  /\ votes[v].term < term

(* handleRequestLease(): an unexpired vote yields to a higher term, and to *)
(* a request of its own leader in its own term; an expired one to any.     *)
RequestOk(v, leader, term) ==
  /\ leader \in member \cap Eligible
  /\ <<v, leader>> \in reach
  /\ votes[v].left > 0 =>
       \/ votes[v].term < term
       \/ votes[v].term = term /\ votes[v].leader = leader

(* handleRenewLease(): the very vote that was given, expired or not.       *)
RenewOk(v, leader, term) ==
  votes[v].leader = leader /\ votes[v].term = term

Granted(m) == IF m.renew THEN RenewOk(m.to, m.leader, m.term)
                         ELSE RequestOk(m.to, m.leader, m.term)

(* The votes after the handler ran for request m.                          *)
VotesAfter(m) ==
  IF Granted(m)
  THEN [votes EXCEPT ![m.to] =
          [leader |-> m.leader, term |-> m.term, left |-> LeaseTtl[m.leader]]]
  ELSE votes

(* The vote of node n is gone: whoever counted it can rely on it no more.  *)
Forget(n) ==
  /\ votes' = [votes EXCEPT ![n] = NoLease]
  /\ wins' = {[x EXCEPT !.by = @ \ {n}] : x \in wins}

WithoutVoter(c, n) == [c EXCEPT !.by = @ \ {n}]

-----------------------------------------------------------------------------
(* reconcileCluster(), one action from await to await.                     *)

Goto(w, l) == pc' = [pc EXCEPT ![w] = l]

(* The worker's call returns.                                              *)
Return(w) ==
  /\ Goto(w, "idle")
  /\ elig' = [elig EXCEPT ![w] = {}]
  /\ renewing' = [renewing EXCEPT ![w] = FALSE]
  /\ claim' = [claim EXCEPT ![w] = NoClaim]
  /\ pending' = [pending EXCEPT ![w] = {}]
  /\ oks' = [oks EXCEPT ![w] = 0]

(* requestVotes(): find the voters and how many of them must approve.      *)
Canvass(w, leader, term, renewal) ==
  LET V == Voters(leader) IN
  IF V = {}
  THEN Return(w)
  ELSE /\ Goto(w, "ask")
       /\ elig' = [elig EXCEPT ![w] = {}]
       /\ renewing' = [renewing EXCEPT ![w] = renewal]
       /\ claim' = [claim EXCEPT ![w] =
            [leader |-> leader, term |-> term, left |-> 0, by |-> {},
             needed |-> Required(Cardinality(V))]]
       /\ pending' = [pending EXCEPT ![w] = V]
       /\ UNCHANGED oks

(* Mutant: the lease is left to expire before it is renewed.               *)
RenewalOverdue(a) == a.left = 0

(* maybeRenew(): a lease is renewed in the second half of its life.        *)
RenewalDue(a) == 2 * a.left <= LeaseTtl[a.leader]

(* reconcileCluster(), first pass: read the shard, the members alive and   *)
(* the assignment.  A healthy assignment is retained, and renewed if due.  *)
Survey(w) ==
  /\ \/ pc[w] = "begin"
     \/ pc[w] = "idle" /\ Host[w] \in Serving
  /\ \/ /\ \/ ~shard
           \/ EligibleNow = {}
           \/ Healthy(assignment) /\ ~RenewalDue(assignment)
        /\ Return(w)
     \/ /\ shard /\ EligibleNow # {}
        /\ Healthy(assignment) /\ RenewalDue(assignment)
        /\ Canvass(w, assignment.leader, assignment.term, TRUE)
     \/ /\ shard /\ EligibleNow # {}
        /\ ~Healthy(assignment)
        /\ Goto(w, "elect")
        /\ elig' = [elig EXCEPT ![w] = EligibleNow]
        /\ UNCHANGED <<renewing, claim, pending, oks>>
  /\ UNCHANGED <<up, reach, votes, late, wins, faults, storeVars>>

(* Second pass: choose a candidate among those read in the first pass and  *)
(* read the assignment again, for its term alone: it may have become       *)
(* healthy since.                                                          *)
Elect(w) ==
  /\ pc[w] = "elect"
  /\ assignment.term < MaxTerm
  /\ \E n \in Candidates(elig[w]) :
       Canvass(w, n, assignment.term + 1, FALSE)
  /\ UNCHANGED <<up, reach, votes, late, wins, faults, storeVars>>

(* The voters are asked one after the other, in the order of the members.  *)
Asking(w, v) ==
  /\ pc[w] = "ask"
  /\ v \in pending[w]
  /\ \A u \in pending[w] : v <= u
  /\ pending' = [pending EXCEPT ![w] = @ \ {v}]

RequestOf(w, v) ==
  [to |-> v, renew |-> renewing[w],
   leader |-> claim[w].leader, term |-> claim[w].term]

(* Claim c once v approved it, after n others.  The lease lasts as long as *)
(* the shortest of the approvals.                                          *)
Approved(c, v, n) ==
  LET ttl == LeaseTtl[c.leader] IN
  [c EXCEPT !.by = @ \cup {v},
            !.left = IF n = 0 THEN ttl ELSE Lesser(@, ttl)]

(* The voter answers in time.                                              *)
Ask(w, v) ==
  /\ Asking(w, v)
  /\ v \in Serving
  /\ votes' = VotesAfter(RequestOf(w, v))
  /\ IF Granted(RequestOf(w, v))
     THEN /\ oks' = [oks EXCEPT ![w] = @ + 1]
          /\ claim' = [claim EXCEPT ![w] = Approved(@, v, oks[w])]
     ELSE UNCHANGED <<oks, claim>>
  /\ UNCHANGED <<up, reach, late, wins, faults, storeVars,
                 pc, elig, renewing>>

(* The call fails and never reaches the voter's handler.                   *)
AskFails(w, v) ==
  /\ Asking(w, v)
  /\ \/ v \notin Serving /\ UNCHANGED faults
     \/ v \in Serving /\ faults > 0 /\ faults' = faults - 1
  /\ UNCHANGED <<up, reach, votes, late, wins, storeVars,
                 pc, elig, renewing, claim, oks>>

(* The call times out, and its request is delivered later.                 *)
AskTimesOut(w, v) ==
  /\ Asking(w, v)
  /\ v \in Serving
  /\ faults > 0 /\ faults' = faults - 1
  /\ late' = late \cup {RequestOf(w, v)}
  /\ UNCHANGED <<up, reach, votes, wins, storeVars,
                 pc, elig, renewing, claim, oks>>

Deliver(m) ==
  /\ m \in late
  /\ m.to \in Serving
  /\ votes' = VotesAfter(m)
  /\ late' = late \ {m}
  /\ UNCHANGED <<up, reach, wins, faults, storeVars, workerVars>>

(* All voters were asked.                                                  *)
Polled(w) == pc[w] = "ask" /\ pending[w] = {}
Enough(w) == oks[w] > 0 /\ oks[w] >= claim[w].needed

(* With too few approvals the shard keeps whatever assignment it has.      *)
GiveUp(w) ==
  /\ Polled(w) /\ ~Enough(w)
  /\ Return(w)
  /\ UNCHANGED <<up, reach, votes, late, wins, faults, storeVars>>

(* writeAssignment() of acquireLease and of maybeRenew: the record goes    *)
(* into the store whatever the store holds by now.                         *)
Write(w) ==
  /\ Polled(w) /\ Enough(w)
  /\ assignment' = [leader |-> claim[w].leader, term |-> claim[w].term,
                    left |-> claim[w].left]
  /\ wins' = IF claim[w].left > 0 THEN wins \cup {claim[w]} ELSE wins
  /\ Return(w)
  /\ UNCHANGED <<up, reach, votes, late, faults, published, member, shard>>

-----------------------------------------------------------------------------
(* Admin calls.                                                            *)

(* forceLeader(): read the assignment, then write the next term, unasked.  *)
ForceRead(w, n) ==
  /\ pc[w] = "idle" /\ Host[w] \in Serving
  /\ faults > 0 /\ faults' = faults - 1
  /\ assignment.term < MaxTerm
  /\ Goto(w, "force")
  /\ claim' = [claim EXCEPT ![w] =
       [NoClaim EXCEPT !.leader = n, !.term = assignment.term + 1,
                       !.left = LeaseTtl[Host[w]]]]
  /\ UNCHANGED <<up, reach, votes, late, wins, storeVars,
                 elig, renewing, pending, oks>>

ForceWrite(w) ==
  /\ pc[w] = "force"
  /\ assignment' = [leader |-> claim[w].leader, term |-> claim[w].term,
                    left |-> claim[w].left]
  /\ Return(w)
  /\ UNCHANGED <<up, reach, votes, late, wins, faults,
                 published, member, shard>>

(* addShard(): define the shard and reconcile.                             *)
AddShard(w) ==
  /\ pc[w] = "idle" /\ Host[w] \in Serving
  /\ ~shard /\ shard' = TRUE
  /\ Goto(w, "begin")
  /\ UNCHANGED <<up, reach, votes, late, wins, faults, published, member,
                 assignment, elig, renewing, claim, pending, oks>>

(* removeShard(): delete the definition, then the assignment.  The votes   *)
(* stay, and so does what a concurrent reconcile is about to write.        *)
RemoveShard(w) ==
  /\ pc[w] = "idle" /\ Host[w] \in Serving
  /\ faults > 0 /\ faults' = faults - 1
  /\ shard /\ shard' = FALSE
  /\ Goto(w, "remove")
  /\ UNCHANGED <<up, reach, votes, late, wins, published, member,
                 assignment, elig, renewing, claim, pending, oks>>

RemoveAssignment(w) ==
  /\ pc[w] = "remove"
  /\ assignment' = NoLease
  /\ Goto(w, "idle")
  /\ UNCHANGED <<up, reach, votes, late, wins, faults, published, member,
                 shard, elig, renewing, claim, pending, oks>>

(* handleReleaseLease(): any internal caller may give a vote back.         *)
ReleaseLease(n) ==
  /\ n \in Serving /\ votes[n].leader # NoNode
  /\ faults > 0 /\ faults' = faults - 1
  /\ Forget(n)
  /\ claim' = [w \in Worker |-> WithoutVoter(claim[w], n)]
  /\ UNCHANGED <<up, reach, late, storeVars,
                 pc, elig, renewing, pending, oks>>

-----------------------------------------------------------------------------
(* Nodes and their environment.                                            *)

(* CordNode.start(): publish, join the cluster, define the default shard,  *)
(* and reconcile.                                                          *)
Start(n) ==
  /\ n \notin up
  /\ up' = up \cup {n}
  /\ published' = published \cup {n}
  /\ member' = member \cup {n}
  /\ shard' = TRUE
  /\ pc' = [w \in Worker |-> IF Host[w] = n THEN "begin" ELSE pc[w]]
  /\ UNCHANGED <<reach, votes, late, wins, faults, assignment,
                 elig, renewing, claim, pending, oks>>

(* CordNode.stop(): stop the timer and unpublish.  A round under way is    *)
(* not awaited and goes on until the process exits.                        *)
Stop(n) ==
  /\ n \in Serving
  /\ faults > 0 /\ faults' = faults - 1
  /\ published' = published \ {n}
  /\ UNCHANGED <<up, reach, votes, late, wins, member, shard, assignment,
                 workerVars>>

(* The process ends: votes and rounds are lost.                            *)
Exit(n) ==
  /\ n \in up
  /\ up' = up \ {n}
  /\ Forget(n)
  /\ pc' = [w \in Worker |-> IF Host[w] = n THEN "idle" ELSE pc[w]]
  /\ elig' = [w \in Worker |-> IF Host[w] = n THEN {} ELSE elig[w]]
  /\ renewing' = [w \in Worker |-> Host[w] # n /\ renewing[w]]
  /\ claim' = [w \in Worker |-> IF Host[w] = n THEN NoClaim
                                ELSE WithoutVoter(claim[w], n)]
  /\ pending' = [w \in Worker |-> IF Host[w] = n THEN {} ELSE pending[w]]
  /\ oks' = [w \in Worker |-> IF Host[w] = n THEN 0 ELSE oks[w]]
  /\ UNCHANGED <<reach, late, storeVars>>

ExitAfterStop(n) == n \notin published /\ Exit(n) /\ UNCHANGED faults

Crash(n) ==
  /\ MayCrash
  /\ n \in published
  /\ faults > 0 /\ faults' = faults - 1
  /\ Exit(n)

(* leaveCluster() of a running node.                                       *)
Leave(n) ==
  /\ n \in Serving \cap member
  /\ faults > 0 /\ faults' = faults - 1
  /\ member' = member \ {n}
  /\ UNCHANGED <<up, reach, votes, late, wins, published, shard, assignment,
                 workerVars>>

(* setReachability() of the registry.                                      *)
SetReach(r) ==
  /\ r \in Reaches \ {reach}
  /\ faults > 0 /\ faults' = faults - 1
  /\ reach' = r
  /\ UNCHANGED <<up, votes, late, wins, storeVars, workerVars>>

Tick ==
  /\ assignment' = [assignment EXCEPT !.left = Aged(@)]
  /\ votes' = [n \in Node |-> [votes[n] EXCEPT !.left = Aged(@)]]
  /\ claim' = [w \in Worker |-> [claim[w] EXCEPT !.left = Aged(@)]]
  /\ wins' = {[x EXCEPT !.left = @ - 1] : x \in {y \in wins : y.left > 1}}
  /\ UNCHANGED <<up, reach, late, faults, published, member, shard,
                 pc, elig, renewing, pending, oks>>

-----------------------------------------------------------------------------
(* The nodes of InitUp have just started side by side: each has published  *)
(* itself, joined and defined the shard, and none has reconciled yet.      *)
Init ==
  /\ up = InitUp /\ published = InitUp /\ member = InitUp
  /\ reach \in Reaches
  /\ shard = (InitUp # {})
  /\ assignment = NoLease
  /\ votes = [n \in Node |-> NoLease]
  /\ pc = [w \in Worker |-> IF Host[w] \in InitUp THEN "begin" ELSE "idle"]
  /\ elig = [w \in Worker |-> {}]
  /\ renewing = [w \in Worker |-> FALSE]
  /\ claim = [w \in Worker |-> NoClaim]
  /\ pending = [w \in Worker |-> {}]
  /\ oks = [w \in Worker |-> 0]
  /\ late = {} /\ wins = {}
  /\ faults = MaxFaults

Reconcile(w) ==
  \/ Survey(w) \/ Elect(w)
  \/ \E v \in Node : Ask(w, v) \/ AskFails(w, v) \/ AskTimesOut(w, v)
  \/ GiveUp(w) \/ Write(w)

Admin(w) ==
  \/ \E n \in Node : ForceRead(w, n)
  \/ ForceWrite(w) \/ AddShard(w) \/ RemoveShard(w) \/ RemoveAssignment(w)

Lifecycle(n) ==
  \/ Start(n) \/ Stop(n) \/ ExitAfterStop(n) \/ Crash(n) \/ Leave(n)
  \/ ReleaseLease(n)

Next ==
  \/ \E w \in Worker : Reconcile(w) \/ Admin(w)
  \/ \E n \in Node : Lifecycle(n)
  \/ \E m \in late : Deliver(m)
  \/ \E r \in Reaches : SetReach(r)
  \/ Tick

Spec == Init /\ [][Next]_vars

-----------------------------------------------------------------------------
(* Properties.                                                             *)

TypeOK ==
  /\ up \subseteq Node /\ published \subseteq Node /\ member \subseteq Node
  /\ reach \in Reaches
  /\ shard \in BOOLEAN
  /\ assignment \in Lease
  /\ votes \in [Node -> Lease]
  /\ pc \in [Worker -> PCs]
  /\ elig \in [Worker -> SUBSET Node]
  /\ renewing \in [Worker -> BOOLEAN]
  /\ claim \in [Worker -> Claim]
  /\ \A w \in Worker : pc[w] = "ask" => claim[w].leader \in Node
  /\ pending \in [Worker -> SUBSET Node]
  /\ oks \in [Worker -> Nat]
  /\ late \subseteq Request
  /\ wins \subseteq Claim
  /\ faults \in Nat

(* Leases asked for or obtained, and those obtained, written or about to be *)
Claims == wins \cup {claim[w] : w \in Worker}
Held == wins \cup {claim[w] : w \in {u \in Worker : Polled(u) /\ Enough(u)}}

(* The vote of node v still stands behind claim c: it lasts as long and    *)
(* was not given to another leader in the claim's term.                    *)
Backs(v, c) ==
  /\ votes[v].left >= c.left
  /\ votes[v].term >= c.term
  /\ votes[v].term = c.term => votes[v].leader = c.leader

(* A voter never forgets an approval while the lease it approved runs: its *)
(* vote lasts at least as long as the lease, and has moved, if at all, to  *)
(* a higher term.  (leaseVotes, whatever is lost, delayed or restarted.)   *)
ApprovalsHold ==
  \A c \in Claims : c.left > 0 => \A v \in c.by : Backs(v, c)

Rivals(c, d) ==
  /\ c.left > 0 /\ d.left > 0
  /\ c.term = d.term /\ c.leader # d.leader

(* No voter approves two leaders in one term with both leases running,     *)
(* unless it restarted or released its vote in between.                    *)
NoDoubleVote ==
  \A c, d \in Claims : Rivals(c, d) => c.by \cap d.by = {}

Intact(c) == Cardinality(c.by) >= c.needed

(* Two leaders never hold running leases of one term, if the approvals the *)
(* two had to collect outnumber the nodes and no approver restarted since. *)
(* (The quorum of requestVotes is one of the voters visible at the time.)  *)
OneLeasePerTerm ==
  \A c, d \in Held :
    /\ Intact(c) /\ Intact(d)
    /\ c.needed + d.needed > Cardinality(Node)
    => ~Rivals(c, d)

(* README.md of cord, 8.3: "keep current leader if healthy and eligible    *)
(* (avoid churn)".  No reconciliation moves a healthy lease.               *)
HealthyLeaderKept ==
  [][(\E w \in Worker : Write(w)) /\ Healthy(assignment)
      => assignment'.leader = assignment.leader]_vars

=============================================================================
