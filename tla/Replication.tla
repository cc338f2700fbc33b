----------------------------- MODULE Replication -----------------------------
(***************************************************************************)
(* Replication of a steng table by CordNode.replicate_tick (src/src/cord/  *)
(* cord_node.ts): the node that finds itself the leader of the shard reads *)
(* its own log past the last entry of each started peer and applies it     *)
(* there.  Writes reach the leader through NetabService.routeWrite, which  *)
(* looks the leader up once: a write may run at a node that leads no more. *)
(*                                                                         *)
(* A Worker is one execution of replicate_tick on the node Host[w]; ticks  *)
(* are started by callers and may overlap.  A long local operation         *)
(* (retention, import) is a job of its node, one row a step, as each row   *)
(* is awaited.  Who leads is given: module Election says how.              *)
(***************************************************************************)
EXTENDS Steng, FiniteSets

CONSTANTS
  Node,         \* node ids, as integers: peers are visited in their order
  Worker, Host, \* executions of replicate_tick and the node of each
  First,        \* the first leader
  Inputs,       \* the JSON values that clients write
  Kinds,        \* the kinds of merge that clients ask for
  DocTime,      \* the value of the time field of each document
  Cutoffs,      \* the cutoffs retention may run with
  Retainers,    \* the nodes run_retention is called at
  Importers,    \* the nodes snapshots are imported at
  Modes,        \* import modes: <<mode, conflictMode>>
  MayFailOver,  \* TRUE: the leadership moves
  Batch,        \* the limit on the entries read at a time (10000)
  MaxWrites,    \* bound: client writes
  MaxMoves      \* bound: failovers, stops, retention runs and imports

ASSUME ReplicationAssumption ==
  /\ Node \subseteq Nat /\ First \in Node
  /\ Retainers \subseteq Node /\ Importers \subseteq Node
  /\ Host \in [Worker -> Node]
  /\ Inputs \subseteq Value /\ Kinds \subseteq {"deep", "shallow"}
  /\ DocTime \in [DocId -> Nat] /\ Cutoffs \subseteq Nat \ {0}
  /\ MayFailOver \in BOOLEAN
  /\ Batch \in Nat \ {0} /\ MaxWrites \in Nat /\ MaxMoves \in Nat

VARIABLES
  table,        \* the table at each node
  issued,       \* document ids generated so far
  leader,       \* the node get_leader answers
  led,          \* nodes that writes have been routed to
  started,      \* nodes whose runtime is started
  job,          \* rows a node's retention or import has yet to handle
  pc,           \* where each replication worker stands
  todo,         \* peers it has yet to visit
  after,        \* the last entry of the peer, as it was read
  batch,        \* the entries it read
  mark,         \* the watermark it read
  writes, moves \* bounds

workerVars == <<pc, todo, after, batch, mark>>
vars == <<table, issued, leader, led, started, job, writes, moves, workerVars>>

-----------------------------------------------------------------------------
(* Client writes.                                                          *)

Commit(n, t) ==
  /\ n \in led
  /\ writes > 0 /\ writes' = writes - 1
  /\ table' = [table EXCEPT ![n] = t]
  /\ UNCHANGED <<leader, led, started, job, moves, workerVars>>

AddObj(n) == \E d \in DocId \ issued, v \in Inputs :
  /\ Commit(n, add_objs(table[n], d, v))
  /\ issued' = issued \cup {d}

UpdateObj(n) == \E d \in Live(table[n]), v \in Inputs, kind \in Kinds :
  Commit(n, update_objs(table[n], d, v, kind)) /\ UNCHANGED issued

(* Replacing is an upsert: a tombstone comes back to life.                 *)
ReplaceObj(n) == \E d \in issued, v \in Inputs :
  Commit(n, replace_objs(table[n], d, v)) /\ UNCHANGED issued

DeleteObj(n) == \E d \in issued :
  Commit(n, delete_objs(table[n], d)) /\ UNCHANGED issued

AddBlob(n) == \E b \in BlobId, c \in Content :
  Commit(n, add_blob(table[n], b, c)) /\ UNCHANGED issued

DeleteBlob(n) == \E b \in BlobId :
  Commit(n, delete_blobs(table[n], b)) /\ UNCHANGED issued

-----------------------------------------------------------------------------
(* Retention and imports: the rows of a job.                               *)

Row(kind, id, payload, conflict) ==
  [kind |-> kind, id |-> id, payload |-> payload, conflict |-> conflict]

BeginJob(n, t, rows) ==
  /\ job[n] = <<>>
  /\ moves > 0 /\ moves' = moves - 1
  /\ table' = [table EXCEPT ![n] = t]
  /\ job' = [job EXCEPT ![n] = rows]
  /\ UNCHANGED <<issued, leader, led, started, writes, workerVars>>

(* run_retention(): find the live rows older than the cutoff.              *)
RunRetention(n) == \E cutoff \in Cutoffs :
  LET old == {d \in Live(table[n]) : DocTime[d] < cutoff}
      rows == [i \in 1..Cardinality(old) |->
                 Row("retire", SetToSeq(old)[i], Absent, "none")]
      force == IF old = {} THEN "none" ELSE "replace"
  IN /\ n \in Retainers
     /\ BeginJob(n, table[n],
          Append(rows, Row("cutoff", Absent, cutoff, force)))

(* import_snapshot() of a bundle exported from node m just before.         *)
ImportSnapshot(n) == \E m \in Node, mode \in Modes, dead \in BOOLEAN :
  LET s == export_snapshot(table[m], dead)
      row(kind, id, held) == Row(kind, id, held[id], mode[2])
      docs == SetToSeq(s.docs)
      blobs == SetToSeq(s.blobs)
  IN /\ n \in Importers
     /\ BeginJob(n,
          IF mode[1] = "replace" THEN resetTableData(table[n]) ELSE table[n],
          [i \in DOMAIN docs |-> row("doc", docs[i], table[m].docs)]
          \o [i \in DOMAIN blobs |-> row("blob", blobs[i], table[m].blobs)]
          \o <<Row(IF mode[1] = "replace" THEN "restore" ELSE "merge",
                   Absent, table[m].watermark, mode[2])>>)

(* The table after a row of a job.                                         *)
AfterRow(t, r) ==
  CASE r.kind = "retire"  -> delete_objs(t, r.id)
    [] r.kind = "doc"     -> importSnapshotDoc(t, r.id, r.payload)
    [] r.kind = "blob"    -> importSnapshotBlob(t, r.id, r.payload)
    [] r.kind = "restore" -> [t EXCEPT !.watermark = r.payload]
    [] r.kind = "merge"   -> [t EXCEPT !.watermark = mergeWatermark(@, r.payload)]
    [] r.kind = "cutoff"  -> [t EXCEPT !.watermark =
         IF r.conflict = "replace" \/ r.payload > @ THEN r.payload ELSE @]

Stumbles(t, r) ==
  \/ r.kind = "doc" /\ Conflicts(t, r.id)
  \/ r.kind = "blob" /\ BlobConflicts(t, r.id)

(* The next row; conflictMode 'error' abandons the rows after it.          *)
DoRow(n) ==
  /\ job[n] # <<>>
  /\ LET r == Head(job[n])
         clash == Stumbles(table[n], r)
     IN /\ table' = IF clash /\ r.conflict # "replace" THEN table
                    ELSE [table EXCEPT ![n] = AfterRow(@, r)]
        /\ job' = [job EXCEPT ![n] =
             IF clash /\ r.conflict = "error" THEN <<>> ELSE Tail(@)]
  /\ UNCHANGED <<issued, leader, led, started, writes, moves, workerVars>>

-----------------------------------------------------------------------------
(* replicate_tick(), one action from await to await.                       *)

(* Mutant: what is left of the visit stays behind.                         *)
ReturnInPlace(w) ==
  /\ pc' = [pc EXCEPT ![w] = "idle"]
  /\ UNCHANGED <<todo, after, batch, mark>>

Return(w) ==
  /\ pc' = [pc EXCEPT ![w] = "idle"]
  /\ todo' = [todo EXCEPT ![w] = {}]
  /\ after' = [after EXCEPT ![w] = 0]
  /\ batch' = [batch EXCEPT ![w] = <<>>]
  /\ mark' = [mark EXCEPT ![w] = 0]

(* The loop over the peers: the next one, or the end.                      *)
NextPeer(w, rest) ==
  IF rest = {} THEN Return(w)
  ELSE /\ pc' = [pc EXCEPT ![w] = "visit"]
       /\ todo' = [todo EXCEPT ![w] = rest]
       /\ after' = [after EXCEPT ![w] = 0]
       /\ batch' = [batch EXCEPT ![w] = <<>>]
       /\ mark' = [mark EXCEPT ![w] = 0]

Peer(w) == CHOOSE p \in todo[w] : \A q \in todo[w] : p <= q

others == <<issued, leader, led, started, job, writes, moves>>

(* The leader alone replicates.                                            *)
TickBegins(w) ==
  /\ pc[w] = "idle"
  /\ Host[w] = leader /\ leader \in started
  /\ NextPeer(w, Node \ {leader})
  /\ UNCHANGED <<table, others>>

(* Mutant: a peer that is not started ends the tick.                       *)
VisitOrReturn(w) ==
  /\ pc[w] = "visit"
  /\ IF Peer(w) \in started
     THEN /\ pc' = [pc EXCEPT ![w] = "read"]
          /\ after' = [after EXCEPT ![w] = table[Peer(w)].latestSeq]
          /\ UNCHANGED <<todo, batch, mark>>
     ELSE Return(w)
  /\ UNCHANGED <<table, others>>

(* A peer that is not started is passed over.  The table is there or is    *)
(* made, empty, and its last entry is read.                                *)
Visit(w) ==
  /\ pc[w] = "visit"
  /\ IF Peer(w) \in started
     THEN /\ pc' = [pc EXCEPT ![w] = "read"]
          /\ after' = [after EXCEPT ![w] = table[Peer(w)].latestSeq]
          /\ UNCHANGED <<todo, batch, mark>>
     ELSE NextPeer(w, todo[w] \ {Peer(w)})
  /\ UNCHANGED <<table, others>>

ReadOps(w) ==
  /\ pc[w] = "read"
  /\ batch' = [batch EXCEPT ![w] = read_ops_since(table[Host[w]], after[w], Batch)]
  /\ pc' = [pc EXCEPT ![w] = "apply"]
  /\ UNCHANGED <<table, others, todo, after, mark>>

Outcome(w) == apply_ops(table[Peer(w)], batch[w])

(* apply_ops() runs to its end; then the watermark is read.                *)
ApplyOps(w) ==
  /\ pc[w] = "apply"
  /\ Outcome(w).ok
  /\ table' = [table EXCEPT ![Peer(w)] = Outcome(w).table]
  /\ mark' = [mark EXCEPT ![w] = table'[Host[w]].watermark]
  /\ pc' = [pc EXCEPT ![w] = "mark"]
  /\ UNCHANGED <<others, todo, after, batch>>

(* It throws: what it applied stays, and the peers after this one are not  *)
(* visited.                                                                *)
ApplyFails(w) ==
  /\ pc[w] = "apply"
  /\ ~Outcome(w).ok
  /\ table' = [table EXCEPT ![Peer(w)] = Outcome(w).table]
  /\ Return(w)
  /\ UNCHANGED others

(* set_watermark() takes what it is given, if the leader has one at all.   *)
SetWatermark(w) ==
  /\ pc[w] = "mark"
  /\ table' = [table EXCEPT ![Peer(w)].watermark =
                 IF mark[w] = 0 THEN @ ELSE mark[w]]
  /\ NextPeer(w, todo[w] \ {Peer(w)})
  /\ UNCHANGED others

-----------------------------------------------------------------------------
(* The environment.                                                        *)

FailOver(n) ==
  /\ MayFailOver /\ n # leader
  /\ moves > 0 /\ moves' = moves - 1
  /\ leader' = n
  /\ led' = led \cup {n}
  /\ UNCHANGED <<table, issued, started, job, writes, workerVars>>

(* A stopped runtime keeps its engine.                                     *)
StopStart(n) ==
  /\ moves > 0 /\ moves' = moves - 1
  /\ started' = IF n \in started THEN started \ {n} ELSE started \cup {n}
  /\ UNCHANGED <<table, issued, leader, led, job, writes, workerVars>>

Init ==
  /\ table = [n \in Node |-> NewTable]
  /\ issued = {}
  /\ leader = First /\ led = {First}
  /\ started = Node
  /\ job = [n \in Node |-> <<>>]
  /\ pc = [w \in Worker |-> "idle"]
  /\ todo = [w \in Worker |-> {}]
  /\ after = [w \in Worker |-> 0]
  /\ batch = [w \in Worker |-> <<>>]
  /\ mark = [w \in Worker |-> 0]
  /\ writes = MaxWrites /\ moves = MaxMoves

Write(n) ==
  \/ AddObj(n) \/ UpdateObj(n) \/ ReplaceObj(n) \/ DeleteObj(n)
  \/ AddBlob(n) \/ DeleteBlob(n)

Replicate(w) ==
  \/ TickBegins(w) \/ Visit(w) \/ ReadOps(w)
  \/ ApplyOps(w) \/ ApplyFails(w) \/ SetWatermark(w)

Next ==
  \/ \E n \in Node : \/ Write(n) \/ DoRow(n)
                     \/ RunRetention(n) \/ ImportSnapshot(n)
                     \/ FailOver(n) \/ StopStart(n)
  \/ \E w \in Worker : Replicate(w)

Spec == Init /\ [][Next]_vars

(* Callers keep calling replicate_tick, and what was begun goes on.        *)
Fairness ==
  /\ \A w \in Worker : WF_vars(Replicate(w))
  /\ \A n \in Node : WF_vars(DoRow(n))

FairSpec == Spec /\ Fairness

-----------------------------------------------------------------------------
(* Properties.                                                             *)

TypeOK ==
  /\ \A n \in Node :
       /\ table[n].docs \in [DocId -> Value \cup {Absent, Dead}]
       /\ table[n].blobs \in [BlobId -> Content \cup {Absent}]
       /\ table[n].latestSeq \in Nat /\ table[n].watermark \in Nat
       /\ \A i \in DOMAIN table[n].ops : table[n].ops[i].op_type \in OpTypes
  /\ issued \subseteq DocId
  /\ leader \in led /\ led \subseteq Node /\ started \subseteq Node
  /\ pc \in [Worker -> {"idle", "visit", "read", "apply", "mark"}]
  /\ todo \in [Worker -> SUBSET Node]
  /\ \A w \in Worker : pc[w] = "idle" <=> todo[w] = {}
  /\ after \in [Worker -> Nat] /\ mark \in [Worker -> Nat]
  /\ writes \in Nat /\ moves \in Nat

(* The log of a table numbers its entries 1, 2, ... without a gap or a     *)
(* repetition, and latestSeq is its last: writes, applied batches and      *)
(* restored snapshots in any order.  (design.md of steng: "op_seq is       *)
(* strictly monotonic per table".)                                         *)
LogInStep ==
  \A n \in Node : LET t == table[n] IN
    /\ t.latestSeq = Len(t.ops)
    /\ \A i \in DOMAIN t.ops : t.ops[i].op_seq = i

(* What a table shows is what its log says, at the leader that wrote the   *)
(* log, at a replica that applied it, in whatever part, and after a        *)
(* restore.  So nodes with equal logs show equal tables.  (design.md,      *)
(* Remote Apply Path: "keeps local materialized state and local oplog      *)
(* consistent".)                                                           *)
DocsFollowLog ==
  \A n \in Node : View(Replayed(table[n].ops)) = View(table[n])

(* While one node leads, every replica holds the beginning of its log.     *)
PrefixOfLeader ==
  \A n \in Node : IsPrefix(table[n].ops, table[First].ops)

(* No batch is refused: the log of the leader fits the replica it is       *)
(* shipped to, overlapping ticks included, and so no replica keeps a tick  *)
(* from the peers after it.                                                *)
NeverRefused == \A w \in Worker : pc[w] = "apply" => Outcome(w).ok

(* A replica that is started has, in the end, what the leader has.         *)
Same(n, m) == /\ table[n].ops = table[m].ops
              /\ View(table[n]) = View(table[m])
              /\ table[n].watermark = table[m].watermark
CaughtUp ==
  \A n \in Node :
    <>[](n \in started /\ leader \in started => Same(n, leader))

(* The abstract log: entries are appended in one place and every node has  *)
(* a beginning of it, which is all that its table shows.                   *)
Shown(ops) == View(Replayed(ops))
Abstract == INSTANCE AbstractLog WITH
  log <- table[First].ops,
  have <- [n \in Node |-> table[n].latestSeq],
  view <- [n \in Node |-> View(table[n])],
  Meaning <- Shown
IsOneLog == Abstract!Spec

=============================================================================
