---------------------------- MODULE NetabService ----------------------------
(***************************************************************************)
(* The netab services of several clusters, each in front of a store of its *)
(* own (Steng), one table of theirs, and the clients' calls                *)
(* (src/src/netab/netab_service.ts and client.ts).  A write goes to the    *)
(* leader of the cluster that is primary for the table; a read that the    *)
(* service's own store does not satisfy goes on to the leader of another   *)
(* cluster.  A call is a few steps, between which the others go on:        *)
(* leaders change, services stop, other writes arrive.                     *)
(*                                                                         *)
(* Which leader a node names, and how followers copy their leader's log,   *)
(* is cut down here to what the services see of it; the modules Election   *)
(* and Replication have the whole.  Policies are the same throughout a     *)
(* cluster.  A read by ids is not paged, calls change one row, updates     *)
(* merge deeply, and there are no blobs.                                   *)
(***************************************************************************)
EXTENDS NetabAccess, Functions

CONSTANTS
  Service, Cluster,
  clusterId,        \* the cluster of each service
  writePrimary,     \* the cluster that is primary for the table, by cluster
  readFallbacks,    \* the clusters to fall back on, by cluster
  timeField,        \* the field of the table that retention goes by
  Client, Nobody, NoToken, NoCall, NoSub, Idle,
  StoresAtStart, LeadersAtStart, DirectoryAtStart,
  Budgets           \* bounds: who may log in, the tokens and requests that may
                    \* come, and how many logins, requests, elections, stops, ...

(* The services of the cluster c.                                          *)
Members(c) == {s \in Service : clusterId[s] = c}

ASSUME NetabServiceAssumption ==
  /\ DocId \subseteq Nat /\ Val \subseteq Nat /\ BlobId = {}
  /\ clusterId \in [Service -> Cluster] /\ writePrimary \in [Cluster -> Cluster]
  /\ readFallbacks \in [Cluster -> Seq(Cluster)]
  /\ LeadersAtStart \in [Service -> Service \cup {Nobody}]
  /\ \A s \in Service : LeadersAtStart[s] \in {Nobody} \cup Members(clusterId[s])
  /\ DirectoryAtStart \in [Cluster -> Seq(Service)]
  /\ \A c \in Cluster : DirectoryAtStart[c] \in Seq(Members(c))

VARIABLES
  store,        \* the table in the store of each service
  telling,      \* its changes that its subscribers are still to be told
  purge,        \* the retention under way in each store
  indexed,      \* the fields it is indexed by
  directory,    \* the running services of each cluster, as they registered
  leader,       \* the leader that the cord of each service names
  token,        \* the token each client holds
  call,         \* the call each client waits for
  subs,         \* the subscription of each client, with what it was told
  budget

tables == <<store, telling, purge>>
vars == <<tables, indexed, directory, leader, token, call, subs, budget>>

Spend(what) == budget[what] > 0 /\ budget' = [budget EXCEPT ![what] = @ - 1]

-----------------------------------------------------------------------------
(* The store and its listeners.                                            *)

extractUpperBound(filter) ==
  {c.value : c \in {x \in filter : x.field = timeField /\ x.op \in {"<", "<="}}}
  \cup {c.value[2] : c \in {x \in filter : x.field = timeField /\ x.op = "between"}}

(* get_objs: rows by their ids, whatever the filter, or the page of those  *)
(* that match.  What is missing is Absent.                                 *)
Rows(t, perm, ids, filter, start) ==
  LET hits == {i \in Live(t) : matchesFilter(t.docs[i], filter)}
      page == {i \in hits : Cardinality({j \in hits : j < i}) >= start}
      read(i) == IF i \in Live(t) THEN filterReadableValue(t.docs[i], perm) ELSE Absent
  IN [i \in IF ids # {} THEN ids ELSE page |-> read(i)]

(* What a subscriber that gets the row v, where it had the row w, has then. *)
Told(sub, v, w) ==
  IF v = Dead THEN Absent
  ELSE IF matchesFilter(v, sub.filter) THEN filterReadableValue(v, sub.perm) ELSE w

(* ChangeBus.publish: every subscriber of s is told of a change.  Deletions *)
(* are told to all of them.  changed and misled are history: the rows that *)
(* the subscriber was told of, and those it was told of too late.          *)
Hear(sub, m) ==
  [sub EXCEPT !.changed = @ \cup {m.id},
              !.misled = IF m.late THEN @ \cup {m.id} ELSE @ \ {m.id},
              !.view[m.id] = Told(sub, m.row, @)]

Tell(s, m) ==
  subs' = [c \in Client |-> IF subs[c] = NoSub \/ subs[c].at # s THEN subs[c]
                            ELSE Hear(subs[c], m)]

ChangeEvent(id, row, by) == [id |-> id, row |-> row, by |-> by, late |-> FALSE]

(* commitDocOp and commitDeleteOp: the table of s becomes t, in which the  *)
(* row id changed.  The subscribers are told later, in the order of the    *)
(* writes, and only then does whoever wrote the row go on.                 *)
Commit(s, t, id, by) ==
  /\ store' = [store EXCEPT ![s] = t]
  /\ telling' = [telling EXCEPT ![s] = Append(@, ChangeEvent(id, t.docs[id], by))]

Published(s, by) == \A n \in DOMAIN telling[s] : telling[s][n].by # by

(* Mutant: what changed last is told first.                                *)
PublishLast(s) ==
  /\ telling[s] # <<>>
  /\ Tell(s, Last(telling[s]))
  /\ telling' = [telling EXCEPT ![s] = Front(@)]
  /\ UNCHANGED <<store, purge, indexed, directory, leader, token, call, budget>>

Publish(s) ==
  /\ telling[s] # <<>>
  /\ Tell(s, Head(telling[s]))
  /\ telling' = [telling EXCEPT ![s] = Tail(@)]
  /\ UNCHANGED <<store, purge, indexed, directory, leader, token, call, budget>>

(* apply_ops: a row that was copied is told at once, before what is still  *)
(* to be told of that row.                                                 *)
Overtaken(q, id) ==
  [n \in DOMAIN q |-> IF q[n].id = id THEN [q[n] EXCEPT !.late = TRUE] ELSE q[n]]

CommitCopy(s, t, id) ==
  /\ store' = [store EXCEPT ![s] = t]
  /\ Tell(s, ChangeEvent(id, t.docs[id], Nobody))
  /\ telling' = [telling EXCEPT ![s] = Overtaken(@, id)]

ensureIndexesForFilter(s, filter) ==
  indexed' = [indexed EXCEPT ![s] = @ \cup {c.field : c \in filter}]

-----------------------------------------------------------------------------
(* The directory.                                                          *)

start(s) ==
  /\ s \notin Range(directory[clusterId[s]])
  /\ Spend("starts")
  /\ directory' = [directory EXCEPT ![clusterId[s]] = Append(@, s)]
  /\ UNCHANGED <<tables, indexed, leader, token, call, subs>>

stop(s) ==
  /\ Spend("stops")
  /\ \E n \in DOMAIN directory[clusterId[s]] :
       /\ directory[clusterId[s]][n] = s
       /\ directory' = [directory EXCEPT ![clusterId[s]] = RemoveAt(@, n)]
  /\ UNCHANGED <<tables, indexed, leader, token, call, subs>>

(* The first service of the cluster is asked for the leader.               *)
getLeader(c) ==
  IF directory[c] = <<>> THEN Nobody
  ELSE LET l == leader[Head(directory[c])] IN
       IF l \in Range(directory[c]) THEN l ELSE Nobody

-----------------------------------------------------------------------------
(* Calls.                                                                  *)

Becomes(c, k) == call' = [call EXCEPT ![c] = k]
Running(c) == call[c] # NoCall /\ call[c].step \notin {"done", "failed"}
In(c, step) == call[c] # NoCall /\ call[c].step = step
To(k, step) == [k EXCEPT !.step = step]
Answer(k, rows) == [k EXCEPT !.step = "done", !.rows = rows]

(* A client logs in: the token of the answer is the one it uses from now.  *)
Login(c) ==
  /\ c \in budget.clients
  /\ Spend("logins")
  /\ \E granted \in Attempts : \E ctx \in granted \cap budget.tokens :
       token' = [token EXCEPT ![c] = ctx]
  /\ UNCHANGED <<tables, indexed, directory, leader, call, subs>>

Action(req) ==
  CASE req.op = "get" -> IF req.filter # {} /\ req.ids = {} THEN "query" ELSE "read"
    [] req.op = "delete" -> "delete"
    [] req.op = "subscribe" -> "subscribe"
    [] OTHER -> "write"

(* A call starts, or is refused at once.  rows is what the store of the    *)
(* service itself holds of a read, and in the end the answer; own is       *)
(* history, as is kept: the rows that the own store holds by right.        *)
Call(c, s) ==
  /\ ~Running(c)
  /\ token[c] # NoToken
  /\ Spend("requests")
  /\ \E req \in budget.asks :
       Becomes(c,
         [step |-> IF ~Permitted(token[c], Action(req)) THEN "failed"
                   ELSE IF req.op = "get" THEN "read"
                   ELSE IF req.op = "subscribe" THEN "subscribe" ELSE "route",
          at |-> s, ctx |-> token[c], req |-> req, left |-> readFallbacks[clusterId[s]],
          to |-> Nobody, rows |-> <<>>, own |-> <<>>, kept |-> {}])
  /\ UNCHANGED <<tables, indexed, directory, leader, token, subs>>

(* Mutant: any window is an old one once there is a watermark.             *)
OldWindowAny(filter, watermark) ==
  watermark # 0 /\ \E ub \in extractUpperBound(filter) : TRUE

(* The window that the filter asks for lies before the watermark.          *)
OldWindow(filter, watermark) ==
  watermark # 0 /\ \E ub \in extractUpperBound(filter) : ub <= watermark

Misses(k) == k.req.ids # {} /\ \E i \in k.req.ids : k.rows[i] = Absent

(* maybeFallbackRead, of a read whose own rows are known.                  *)
FallsBack(k, filter, watermark) ==
  CASE k.req.mode = "local_only" -> FALSE
    [] k.req.mode = "fallback_only" \/ Misses(k) -> TRUE
    [] k.req.ids = {} /\ k.rows = <<>> /\ k.left # <<>> -> TRUE
    [] OTHER -> OldWindow(filter, watermark)

ReadLocal(c) ==
  LET s == call[c].at
      t == store[s]
      req == call[c].req
      filter == applySiteScope(call[c].ctx, req.filter)
      rows == Rows(t, resolvePermission(call[c].ctx), req.ids, filter, req.start)
      k == [call[c] EXCEPT
              !.req.filter = filter, !.rows = rows, !.own = rows,
              !.kept = {i \in DOMAIN rows \cap Live(t) :
                          \/ timeField \notin DOMAIN t.docs[i]
                          \/ t.docs[i][timeField] >= t.watermark}]
  IN
  /\ In(c, "read")
  /\ Becomes(c, To(k, IF FallsBack(k, filter, t.watermark) THEN "fall" ELSE "done"))
  /\ ensureIndexesForFilter(s, filter)
  /\ UNCHANGED <<tables, directory, leader, token, subs, budget>>

(* readFromFallbacks: the first cluster that has a leader is asked.  When  *)
(* none has, the own rows are the answer.                                  *)
FindFallback(c) ==
  LET k == call[c]
      l == getLeader(Head(k.left))
  IN
  /\ In(c, "fall")
  /\ Becomes(c, IF k.left = <<>> THEN To(k, "done")
                ELSE IF l \in {Nobody, k.at} THEN [k EXCEPT !.left = Tail(@)]
                ELSE [To(k, "ask") EXCEPT !.to = l])
  /\ UNCHANGED <<tables, indexed, directory, leader, token, subs, budget>>

(* Mutant: the service that is asked looks for rows elsewhere in turn.     *)
AskOnwards(c) ==
  LET k == call[c] IN
  /\ In(c, "ask")
  /\ Becomes(c, [To(k, "read") EXCEPT !.at = k.to, !.left = readFallbacks[clusterId[k.to]]])
  /\ UNCHANGED <<tables, indexed, directory, leader, token, subs, budget>>

(* A read by ids that missed some keeps the rows it had.                   *)
Merged(k, rows) ==
  IF k.req.mode = "fallback_only" \/ ~Misses(k) THEN rows
  ELSE [i \in DOMAIN rows |-> IF k.rows[i] # Absent THEN k.rows[i] ELSE rows[i]]

(* The service that is asked checks the token again, which may have        *)
(* expired, and what it permits, where a read that was given the site as   *)
(* its filter counts as a query; it reads its own store and no other.      *)
AskFallback(c) ==
  LET k == call[c]
      filter == applySiteScope(k.ctx, k.req.filter)
      rows == Rows(store[k.to], resolvePermission(k.ctx), k.req.ids, filter, k.req.start)
  IN
  /\ In(c, "ask")
  /\ \/ /\ Permitted(k.ctx, Action(k.req))
        /\ Becomes(c, Answer(k, Merged(k, rows)))
        /\ ensureIndexesForFilter(k.to, filter)
     \/ Becomes(c, To(k, "failed")) /\ UNCHANGED indexed
  /\ UNCHANGED <<tables, directory, leader, token, subs, budget>>

subscribe_objs(c) ==
  LET k == call[c]
      filter == applySiteScope(k.ctx, k.req.filter)
  IN
  /\ In(c, "subscribe")
  /\ subs' = [subs EXCEPT ![c] =
                [at |-> k.at, ctx |-> k.ctx, filter |-> filter,
                 perm |-> resolvePermission(k.ctx),
                 view |-> [i \in DocId |-> Absent], changed |-> {}, misled |-> {}]]
  /\ ensureIndexesForFilter(k.at, filter)
  /\ Becomes(c, To(k, "done"))
  /\ UNCHANGED <<tables, directory, leader, token, budget>>

Unsubscribe(c) ==
  /\ subs[c] # NoSub
  /\ subs' = [subs EXCEPT ![c] = NoSub]
  /\ UNCHANGED <<tables, indexed, directory, leader, token, call, budget>>

-----------------------------------------------------------------------------
(* Writes.                                                                 *)

(* Mutant: writes go to the leader of the service's own cluster.           *)
RouteAtHome(c) ==
  LET k == call[c]
      l == getLeader(clusterId[k.at])
  IN
  /\ In(c, "route")
  /\ Becomes(c, IF l = Nobody THEN To(k, "failed") ELSE [To(k, "write") EXCEPT !.to = l])
  /\ UNCHANGED <<tables, indexed, directory, leader, token, subs, budget>>

routeWrite(c) ==
  LET k == call[c]
      l == getLeader(writePrimary[clusterId[k.at]])
  IN
  /\ In(c, "route")
  /\ Becomes(c, IF l = Nobody THEN To(k, "failed") ELSE [To(k, "write") EXCEPT !.to = l])
  /\ UNCHANGED <<tables, indexed, directory, leader, token, subs, budget>>

(* The node that led when it was asked writes, to its own store.  Ids of   *)
(* new rows are in use nowhere.                                            *)
Write(c) ==
  LET k == call[c]
      t == store[k.to]
      req == k.req
      v == applyWriteScope(k.ctx, req.value)
      free == {i \in DocId : \A s \in Service : store[s].docs[i] = Absent}
      id == IF req.op = "add" THEN Min(free) ELSE req.id
      refused == \/ req.op # "delete" /\ OutOfScope(k.ctx, req.value)
                 \/ req.op # "delete" /\ ~WritableFields(v, resolvePermission(k.ctx))
                 \/ req.op = "update" /\ req.id \notin Live(t)
  IN
  /\ In(c, "write")
  /\ req.op = "add" => free # {}
  /\ IF refused
     THEN Becomes(c, To(k, "failed")) /\ UNCHANGED <<store, telling>>
     ELSE /\ Commit(k.to, CASE req.op = "add" -> add_objs(t, id, v)
                            [] req.op = "update" -> update_objs(t, id, v, "deep")
                            [] req.op = "replace" -> replace_objs(t, id, v)
                            [] req.op = "delete" -> delete_objs(t, id), id, c)
          /\ Becomes(c, To(k, "tell"))
  /\ UNCHANGED <<purge, indexed, directory, leader, token, subs, budget>>

Finish(c) ==
  /\ In(c, "tell") /\ Published(call[c].to, c)
  /\ Becomes(c, To(call[c], "done"))
  /\ UNCHANGED <<tables, indexed, directory, leader, token, subs, budget>>

CallStep(c) ==
  \/ ReadLocal(c)
  \/ FindFallback(c)
  \/ AskFallback(c)
  \/ subscribe_objs(c)
  \/ routeWrite(c)
  \/ Write(c)
  \/ Finish(c)

-----------------------------------------------------------------------------
(* Around the services.                                                    *)

(* The cord of s comes to name another leader, or none.                    *)
Elect(s) ==
  /\ Spend("elections")
  /\ \E l \in {Nobody} \cup Members(clusterId[s]) :
       leader' = [leader EXCEPT ![s] = l]
  /\ UNCHANGED <<tables, indexed, directory, token, call, subs>>

(* replicateStengCluster: a node that takes itself for the leader hands    *)
(* its indexes, the next entry of its log and its watermark to a member of *)
(* its cluster.  A batch of entries is as many steps.                      *)
Replicate(l, s) ==
  LET next == read_ops_since(store[l], store[s].latestSeq, 1)
      done == apply_ops(store[s], next)
  IN
  /\ leader[l] = l /\ s \in Members(clusterId[l]) \ {l}
  /\ done.ok
  /\ indexed' = [indexed EXCEPT ![s] = @ \cup indexed[l]]
  /\ \/ next # <<>> /\ CommitCopy(s, done.table, next[1].id)
     \/ /\ store[l].watermark # 0
        /\ store' = [store EXCEPT ![s].watermark = store[l].watermark]
        /\ UNCHANGED <<telling, subs>>
  /\ UNCHANGED <<purge, directory, leader, token, call, budget>>

(* The rows that are older than the cutoff are found, and deleted one by   *)
(* one, whatever has become of them meanwhile.  One retention runs at a    *)
(* time in a store.                                                        *)
run_retention(s, cutoff) ==
  LET t == store[s]
      old == {i \in Live(t) : timeField \in DOMAIN t.docs[i] /\ t.docs[i][timeField] < cutoff}
  IN
  /\ purge[s] = Idle
  /\ Spend("retentions")
  /\ purge' = [purge EXCEPT ![s] = [left |-> old, cutoff |-> cutoff, found |-> old # {}]]
  /\ UNCHANGED <<store, telling, indexed, directory, leader, token, call, subs>>

Purge(s) ==
  LET p == purge[s]
      t == store[s]
  IN
  /\ p # Idle /\ Published(s, Nobody)
  /\ \/ \E i \in p.left :
          /\ Commit(s, delete_objs(t, i), i, Nobody)
          /\ purge' = [purge EXCEPT ![s].left = @ \ {i}]
     \/ /\ p.left = {}
        /\ store' = [store EXCEPT ![s].watermark =
                       IF p.found \/ p.cutoff > @ THEN p.cutoff ELSE @]
        /\ purge' = [purge EXCEPT ![s] = Idle]
        /\ UNCHANGED telling
  /\ UNCHANGED <<indexed, directory, leader, token, call, subs, budget>>

Init ==
  /\ budget \in Budgets
  /\ store = StoresAtStart
  /\ telling = [s \in Service |-> <<>>]
  /\ purge = [s \in Service |-> Idle]
  /\ indexed = [s \in Service |-> {}]
  /\ directory = DirectoryAtStart
  /\ leader = LeadersAtStart
  /\ token = [c \in Client |-> NoToken]
  /\ call = [c \in Client |-> NoCall]
  /\ subs = [c \in Client |-> NoSub]

Next ==
  \/ \E c \in Client : CallStep(c) \/ Unsubscribe(c) \/ Login(c) \/ \E s \in Service : Call(c, s)
  \/ \E s \in Service : start(s) \/ stop(s) \/ Elect(s) \/ Publish(s) \/ Purge(s)
  \/ \E l, s \in Service : Replicate(l, s)
  \/ \E s \in Service : \E cutoff \in budget.cutoffs : run_retention(s, cutoff)

Spec == Init /\ [][Next]_vars

(* A call that can go on does, and changes are told.                       *)
FairSpec ==
  /\ Spec
  /\ \A c \in Client : WF_vars(CallStep(c))
  /\ \A s \in Service : WF_vars(Publish(s))

-----------------------------------------------------------------------------
Answered(c) == In(c, "done") /\ call[c].req.op = "get"

(* A query, and a subscription, of a client that is bound to a site yields *)
(* rows of that site only, whichever cluster the rows come from, and       *)
(* however they change hands meanwhile.                                    *)
InScope ==
  LET own(v, ctx) == v # Absent /\ Bound(ctx) /\ "siteId" \in DOMAIN v => v["siteId"] = ctx.site
  IN \A c \in Client :
       /\ Answered(c) /\ call[c].req.ids = {} =>
            \A i \in DOMAIN call[c].rows : own(call[c].rows[i], call[c].ctx)
       /\ subs[c] # NoSub => \A i \in DocId : own(subs[c].view[i], subs[c].ctx)

(* Falling back hides nothing: a row that the service's own store holds    *)
(* and that retention has not passed over is in the answer as it is there. *)
KeptRowsAreServed ==
  \A c \in Client :
    Answered(c) /\ call[c].req.mode = "local_then_fallback" =>
      \A i \in call[c].kept :
        i \in DOMAIN call[c].rows /\ call[c].rows[i] = call[c].own[i]

(* Outside the primary cluster of the table nothing is written: whatever   *)
(* service is called, the other clusters only delete what is too old.      *)
OnlyPrimaryWrites ==
  \A s \in Service :
    clusterId[s] \notin Range(writePrimary) =>
      \A i \in DOMAIN store[s].ops :
        i > Len(StoresAtStart[s].ops) => store[s].ops[i].op_type = "DELETE"

(* A subscriber who applies what it is told holds every row of its filter  *)
(* that changed since, as it is now, and none that was deleted, but for    *)
(* rows it is still to be told of, and those of which it was told last     *)
(* what a copied entry had replaced before it was told.                    *)
ViewsAreTrue ==
  \A c \in Client :
    subs[c] # NoSub =>
      LET sub == subs[c]
          t == store[sub.at]
          untold == {telling[sub.at][n].id : n \in DOMAIN telling[sub.at]}
      IN \A i \in DocId \ (untold \cup sub.misled) :
           /\ sub.view[i] # Absent => i \in Live(t)
           /\ i \in sub.changed \cap Live(t) /\ matchesFilter(t.docs[i], sub.filter)
                => sub.view[i] = filterReadableValue(t.docs[i], sub.perm)

(* What the code does not keep: once all is told, a subscriber holds what  *)
(* the table holds.  A row that was copied while its deletion here was     *)
(* still to be told is missing from then on.                               *)
ViewsCatchUp ==
  \A c \in Client :
    subs[c] # NoSub /\ telling[subs[c].at] = <<>> =>
      LET sub == subs[c]
          t == store[sub.at]
      IN \A i \in sub.changed \cap Live(t) :
           matchesFilter(t.docs[i], sub.filter)
             => sub.view[i] = filterReadableValue(t.docs[i], sub.perm)

(* Every call is answered, also where clusters fall back on one another.   *)
CallsAnswered == \A c \in Client : Running(c) ~> ~Running(c)
=============================================================================
