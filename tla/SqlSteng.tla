------------------------------ MODULE SqlSteng ------------------------------
(***************************************************************************)
(* One table of the SQL steng engine (src/src/steng/engine/                *)
(* sql_steng_engine.ts) on its two databases: a SQLite connection that all *)
(* calls share (sqldb/sqlite_db.ts), and a pool of Postgres connections at *)
(* the isolation level READ COMMITTED (sqldb/postgres_db.ts).              *)
(*                                                                         *)
(* The database is a function from keys to contents.  A call reads the     *)
(* catalogue, begins a transaction, handles its rows statement by          *)
(* statement, each of them awaited, and commits; a row that fails rolls    *)
(* the call back.  The statements that write one document and its index    *)
(* entries are one step.  What Steng says of the memory engine is what the *)
(* calls are compared with.                                                *)
(***************************************************************************)
EXTENDS Steng, FiniteSets

CONSTANTS
  Proc,         \* calls that may be under way side by side
  Dialects,     \* the databases to look at: "sqlite", "postgres"
  Calls,        \* for each dialect the rows of the calls that are made
  Indexes,      \* the indexes the table has at first
  NewIndexes,   \* for each dialect the indexes that calls add
  DocTime,      \* the value of the time field of each document
  Cutoffs,      \* the cutoffs retention runs with
  Filters,      \* the filters of reads: sets of clauses, all of which must hold
  NoGet,
  MaxCalls,     \* bound: calls
  MaxOps        \* bound: entries of the log

ASSUME SqlStengAssumption ==
  /\ Dialects \subseteq {"sqlite", "postgres"} /\ DOMAIN Calls = Dialects
  /\ DOMAIN NewIndexes = Dialects
  /\ IsFiniteSet(Proc)
  /\ DocTime \in [DocId -> Nat] /\ Cutoffs \subseteq Nat \ {0}
  /\ MaxCalls \in Nat /\ MaxOps \in Nat

VARIABLES
  dialect,      \* the database this engine runs on
  db,           \* what is committed
  own,          \* what the transaction of each call has written
  pc,           \* where each call stands
  conf,         \* the indexes each call read from the catalogue
  rows,         \* the rows each call has yet to handle
  stages,       \* the statements left of the first of them
  got,          \* the document each call read
  last,         \* the last number of the log each call knows of
  done,         \* ghost: the rows each call has handled
  issued,       \* document ids generated so far
  copy,         \* the log of a peer that reads this one
  gets,         \* the filtered read each call carries out, or NoGet
  calls         \* bound: calls still to be made

callVars == <<pc, conf, rows, stages, got, last, done>>
vars == <<dialect, db, own, callVars, issued, copy, gets, calls>>

DocKey(d) == <<"doc", d>>
IdxKey(d) == <<"idx", d>>
BlobKey(b) == <<"blob", b>>
OpKey(n) == <<"op", n>>
Config == <<"config">>
Watermark == <<"watermark">>

Key == {DocKey(d) : d \in DocId} \cup {IdxKey(d) : d \in DocId}
       \cup {BlobKey(b) : b \in BlobId} \cup {OpKey(n) : n \in 1..MaxOps}
       \cup {Config, Watermark}

Nothing == <<>>

(* What is there once w has been written over v.                           *)
Cell(k, x) == [key \in {k} |-> x]
w ++ v ==
  [k \in DOMAIN w \cup DOMAIN v |-> IF k \in DOMAIN w THEN w[k] ELSE v[k]]

-----------------------------------------------------------------------------
(* Transactions.                                                           *)

Open(p) == pc[p] = "open"

(* Mutant: Postgres at READ UNCOMMITTED, as if it had that level.          *)
OutsideDirty ==
  FoldLeft(LAMBDA v, q : own[q] ++ v, db, SetToSeq({q \in Proc : Open(q)}))

(* What a statement outside transactions sees: on a connection that is     *)
(* shared, what its one open transaction has written so far.               *)
Outside ==
  IF dialect = "sqlite" /\ \E q \in Proc : Open(q)
  THEN own[CHOOSE q \in Proc : Open(q)] ++ db
  ELSE db

(* What a statement of call p sees.                                        *)
Sees(p) == own[p] ++ Outside

Locked(p, k) == \E q \in Proc \ {p} : k \in DOMAIN own[q]

latestSeq(v) ==
  LET used == {n \in 1..MaxOps : v[OpKey(n)] # Absent}
  IN IF used = {} THEN 0 ELSE CHOOSE n \in used : \A m \in used : m <= n

LogOf(v) == [n \in 1..latestSeq(v) |-> v[OpKey(n)]]

(* The contents as a table of the memory engine.                           *)
TableOf(v) ==
  [docs |-> [d \in DocId |-> v[DocKey(d)]],
   blobs |-> [b \in BlobId |-> v[BlobKey(b)]],
   ops |-> LogOf(v), latestSeq |-> latestSeq(v), watermark |-> v[Watermark]]

-----------------------------------------------------------------------------
(* Rows, and the statements that handle one.                               *)

Row(kind, id, payload, mode) ==
  [kind |-> kind, id |-> id, payload |-> payload, mode |-> mode]

Stages(r) ==
  CASE r.kind \in {"add", "replace", "blob_add", "blob_del"} -> <<"write", "seq", "log">>
    [] r.kind \in {"update", "delete", "doc", "blob"} ->
         <<"read", "write", "seq", "log">>
    [] r.kind \in {"clear", "config"} -> <<"write">>
    [] r.kind \in {"cutoff", "merge"} -> <<"read", "write">>
    [] r.kind = "restore" -> <<"write">>
    [] r.kind = "latest" -> <<"seq">>
    [] r.kind = "apply" -> IF r.payload.op_type \in {"UPDATE", "DELETE"}
                           THEN <<"check", "read", "write", "log">>
                           ELSE <<"check", "write", "log">>

StagesOf(rs) == IF rs = <<>> THEN <<>> ELSE Stages(Head(rs))

NextRow(p) ==
  /\ rows' = [rows EXCEPT ![p] = Tail(@)]
  /\ stages' = [stages EXCEPT ![p] = StagesOf(Tail(rows[p]))]

(* To the next statement of the row, or to the next row.                   *)
Advance(p) ==
  IF Len(stages[p]) = 1
  THEN NextRow(p) /\ done' = [done EXCEPT ![p] = Append(@, Head(rows[p]))]
  ELSE /\ stages' = [stages EXCEPT ![p] = Tail(@)]
       /\ UNCHANGED <<rows, done>>

(* The call is over; what it wrote is dropped unless it is in db.          *)
Over(p) ==
  /\ pc' = [pc EXCEPT ![p] = "idle"]
  /\ own' = [own EXCEPT ![p] = Nothing]
  /\ conf' = [conf EXCEPT ![p] = {}]
  /\ rows' = [rows EXCEPT ![p] = <<>>]
  /\ stages' = [stages EXCEPT ![p] = <<>>]
  /\ got' = [got EXCEPT ![p] = Absent]
  /\ last' = [last EXCEPT ![p] = 0]
  /\ done' = [done EXCEPT ![p] = <<>>]

Rollback(p) == Over(p) /\ UNCHANGED <<dialect, db, issued, copy, gets, calls>>

(* History of the reads: these documents changed, or may have.             *)
Disturbed(D) ==
  [p \in Proc |-> IF gets[p] = NoGet THEN NoGet ELSE [gets[p] EXCEPT !.touched = @ \cup D]]

-----------------------------------------------------------------------------
(* A call, up to its transaction.                                          *)

Added(rs) == {rs[i].id : i \in {j \in DOMAIN rs : rs[j].kind = "add"}}

Arrive(p, rs) ==
  /\ pc[p] = "idle"
  /\ calls > 0 /\ calls' = calls - 1
  /\ Added(rs) \cap issued = {} /\ issued' = issued \cup Added(rs)
  /\ pc' = [pc EXCEPT ![p] = "called"]
  /\ conf' = [conf EXCEPT ![p] = Outside[Config]]
  /\ rows' = [rows EXCEPT ![p] = rs]
  /\ stages' = [stages EXCEPT ![p] = StagesOf(rs)]
  /\ UNCHANGED <<dialect, db, own, got, last, done, copy, gets>>

(* The writing methods, set_watermark, import_snapshot and apply_ops: the  *)
(* table is resolved.                                                      *)
Call(p) == \E rs \in Calls[dialect] : Arrive(p, rs)

(* add_index(), set_table_config(): the new configuration is made from the *)
(* one that is read here.                                                  *)
AddIndex(p) == \E f \in NewIndexes[dialect] :
  Arrive(p, <<Row("config", Absent, Outside[Config] \cup {f}, "rebuild")>>)

(* run_retention(): the documents that are too old are found before the    *)
(* transaction.  (Their time field has no index here.)                     *)
Expired(cutoff) ==
  SetToSeq({d \in Live(TableOf(Outside)) : DocTime[d] < cutoff})

RunRetention(p) == \E cutoff \in Cutoffs :
  LET old == Expired(cutoff)
  IN Arrive(p, [i \in DOMAIN old |-> Row("delete", old[i], Absent, "none")]
               \o <<Row("cutoff", Absent, cutoff,
                        IF old = <<>> THEN "none" ELSE "replace")>>)

(* Mutant: BEGIN inside the try block, whose ROLLBACK ends the transaction *)
(* that is under way.                                                      *)
BeginInTry(p) ==
  /\ pc[p] = "called"
  /\ IF dialect = "sqlite" /\ \E q \in Proc : Open(q)
     THEN /\ own' = [q \in Proc |-> Nothing]
          /\ pc' = [pc EXCEPT ![p] = "idle"]
          /\ conf' = [conf EXCEPT ![p] = {}]
          /\ rows' = [rows EXCEPT ![p] = <<>>]
          /\ stages' = [stages EXCEPT ![p] = <<>>]
          /\ UNCHANGED <<dialect, db, got, last, done, issued, copy, gets, calls>>
     ELSE /\ pc' = [pc EXCEPT ![p] = "open"]
          /\ UNCHANGED <<dialect, db, own, conf, rows, stages, got, last, done,
                         issued, copy, gets, calls>>

(* SqlDb.tx(): a SQLite connection has one transaction at a time, and the  *)
(* call that comes second fails.                                           *)
Begin(p) ==
  /\ pc[p] = "called"
  /\ IF dialect = "sqlite" /\ \E q \in Proc : Open(q) THEN Rollback(p)
     ELSE /\ pc' = [pc EXCEPT ![p] = "open"]
          /\ gets' = IF dialect = "sqlite" THEN Disturbed(DocId) ELSE gets
          /\ UNCHANGED <<dialect, db, own, conf, rows, stages, got, last, done,
                         issued, copy, calls>>

-----------------------------------------------------------------------------
(* Statements of a transaction.                                            *)

Indexed(c, v) == IF c = {} THEN Absent ELSE <<c, v>>

(* What a statement that writes leaves behind: writeDocTx,                 *)
(* writeTombstoneTx (its mutant keeps the index entries),                  *)
(* writeImportedDocTx, upsertBlobTx, resetTableDataTx, setTableConfigTx,   *)
(* setWatermarkTx.                                                         *)
DocRows(d, v, c) == Cell(DocKey(d), v) ++ Cell(IdxKey(d), Indexed(c, v))
TombstoneIndexed(d) == Cell(DocKey(d), Dead)
Tombstone(d) == Cell(DocKey(d), Dead) ++ Cell(IdxKey(d), Absent)
Blobs(b, c) == Cell(BlobKey(b), c)
Dropped(b, v) == IF v[BlobKey(b)] = Absent THEN Nothing ELSE Blobs(b, Absent)

Clear(v) == [k \in {key \in Key \ {Config} : v[key] # Absent} |->
               IF k = Watermark THEN 0 ELSE Absent]

Reconfigure(v, c, rebuild) ==
  [k \in {Config} \cup {IdxKey(d) : d \in DocId} |->
     IF k = Config THEN c
     ELSE IF rebuild /\ v[DocKey(k[2])] \notin {Absent, Dead}
     THEN Indexed(c, v[DocKey(k[2])]) ELSE Absent]

Applied(op, v, old, c) ==
  CASE op.op_type \in {"ADD", "REPLACE"} -> DocRows(op.id, op.payload, c)
    [] op.op_type = "UPDATE" -> DocRows(op.id, deepMerge(old, op.payload), c)
    [] op.op_type = "DELETE" -> Tombstone(op.id)
    [] op.op_type = "BLOB_ADD" -> Blobs(op.id, op.payload)
    [] op.op_type = "BLOB_DEL" -> Dropped(op.id, v)

(* v is what the call sees, old what it read, c the indexes it knows of.   *)
Written(r, v, old, c) ==
  CASE r.kind \in {"add", "replace"} -> DocRows(r.id, r.payload, c)
    [] r.kind = "update" -> DocRows(r.id, Merge(r.mode, old, r.payload), c)
    [] r.kind = "delete" -> Tombstone(r.id)
    [] r.kind = "doc" -> IF r.payload = Dead THEN Tombstone(r.id)
                         ELSE DocRows(r.id, r.payload, c)
    [] r.kind \in {"blob", "blob_add"} -> Blobs(r.id, r.payload)
    [] r.kind = "blob_del" -> Dropped(r.id, v)
    [] r.kind = "clear" -> Clear(v)
    [] r.kind = "config" -> Reconfigure(v, r.payload, r.mode = "rebuild")
    [] r.kind = "restore" -> Cell(Watermark, r.payload)
    [] r.kind = "merge" -> Cell(Watermark, mergeWatermark(old, r.payload))
    [] r.kind = "cutoff" ->
         Cell(Watermark, IF r.mode = "replace" \/ r.payload > old THEN r.payload ELSE old)
    [] r.kind = "apply" -> Applied(r.payload, v, old, c)

Logged(r, old) ==
  CASE r.kind = "add" -> "ADD"
    [] r.kind = "replace" -> "REPLACE"
    [] r.kind = "update" -> "UPDATE"
    [] r.kind = "delete" -> "DELETE"
    [] r.kind = "doc" -> IF r.payload = Dead THEN "DELETE"
                         ELSE IF old \in {Absent, Dead} THEN "ADD" ELSE "REPLACE"
    [] r.kind \in {"blob", "blob_add"} -> "BLOB_ADD"
    [] r.kind = "blob_del" -> "BLOB_DEL"

OpRow(r, old, n) ==
  IF r.kind = "apply" THEN r.payload
  ELSE [op_seq |-> n, op_type |-> Logged(r, old), id |-> r.id,
        payload |-> IF r.payload = Dead THEN Absent ELSE r.payload]

At(p, stage) == Open(p) /\ rows[p] # <<>> /\ Head(stages[p]) = stage

(* What the row at hand reads before it writes.                            *)
ReadKey(r) ==
  CASE r.kind \in {"cutoff", "merge"} -> Watermark
    [] r.kind = "blob" -> BlobKey(r.id)
    [] r.kind = "apply" -> DocKey(r.payload.id)
    [] OTHER -> DocKey(r.id)

(* An update of a document that is not there fails the call; so does an    *)
(* imported row that is there already, in mode 'error'.                    *)
Fails(r, old) ==
  \/ r.kind = "update" /\ old \in {Absent, Dead}
  \/ /\ r.kind = "apply" /\ old \in {Absent, Dead}
     /\ r.payload.op_type = "UPDATE"
  \/ r.kind \in {"doc", "blob"} /\ r.mode = "error" /\ old # Absent

Skipped(r, old) == r.kind \in {"doc", "blob"} /\ r.mode = "skip" /\ old # Absent

Read(p) ==
  LET r == Head(rows[p])
      old == Sees(p)[ReadKey(r)]
  IN /\ At(p, "read")
     /\ \/ Fails(r, old) /\ Rollback(p)
        \/ /\ Skipped(r, old) /\ NextRow(p)
           /\ UNCHANGED <<dialect, db, own, pc, conf, got, last, done, issued,
                          copy, gets, calls>>
        \/ /\ ~Fails(r, old) /\ ~Skipped(r, old) /\ Advance(p)
           /\ got' = [got EXCEPT ![p] = old]
           /\ UNCHANGED <<dialect, db, own, pc, conf, last, issued, copy, gets, calls>>

(* apply_ops(): an entry that is there already is skipped, and one that    *)
(* does not follow the last one fails the call.                            *)
Check(p) ==
  LET n == Head(rows[p]).payload.op_seq
  IN /\ At(p, "check")
     /\ \/ n > last[p] + 1 /\ Rollback(p)
        \/ /\ n <= last[p] /\ NextRow(p)
           /\ UNCHANGED <<dialect, db, own, pc, conf, got, last, done, issued,
                          copy, gets, calls>>
        \/ /\ n = last[p] + 1 /\ Advance(p)
           /\ UNCHANGED <<dialect, db, own, pc, conf, got, last, issued, copy, gets,
                          calls>>

Put(p, written) == own' = [own EXCEPT ![p] = written ++ @]

(* A write waits for the rows that another transaction has written.        *)
Write(p) ==
  LET w == Written(Head(rows[p]), Sees(p), got[p], conf[p])
  IN /\ At(p, "write")
     /\ \A k \in DOMAIN w : ~Locked(p, k)
     /\ Put(p, w) /\ Advance(p)
     /\ UNCHANGED <<dialect, db, pc, conf, got, last, issued, copy, gets, calls>>

(* latestSeqTx().                                                          *)
Seq1(p) ==
  /\ At(p, "seq")
  /\ last' = [last EXCEPT ![p] = latestSeq(Sees(p))]
  /\ Advance(p)
  /\ UNCHANGED <<dialect, db, own, pc, conf, got, issued, copy, gets, calls>>

Number(p) == IF Head(rows[p]).kind = "apply" THEN Head(rows[p]).payload.op_seq
             ELSE last[p] + 1

(* Mutant: the entry replaces one that has its number, as in the upserts   *)
(* of the other tables.                                                    *)
LogUpsert(p) ==
  LET k == OpKey(Number(p))
  IN /\ At(p, "log")
     /\ Number(p) <= MaxOps /\ ~Locked(p, k)
     /\ Put(p, Cell(k, OpRow(Head(rows[p]), got[p], Number(p))))
     /\ last' = [last EXCEPT ![p] = Number(p)]
     /\ Advance(p)
     /\ UNCHANGED <<dialect, db, pc, conf, got, issued, copy, gets, calls>>

(* insertOpTx(): (table_id, op_seq) is the primary key.                    *)
Log(p) ==
  LET k == OpKey(Number(p))
  IN /\ At(p, "log")
     /\ Number(p) <= MaxOps /\ ~Locked(p, k)
     /\ \/ Sees(p)[k] # Absent /\ Rollback(p)
        \/ /\ Sees(p)[k] = Absent
           /\ Put(p, Cell(k, OpRow(Head(rows[p]), got[p], Number(p))))
           /\ last' = [last EXCEPT ![p] = Number(p)]
           /\ Advance(p)
           /\ UNCHANGED <<dialect, db, pc, conf, got, issued, copy, gets, calls>>

Commit(p) ==
  /\ Open(p) /\ rows[p] = <<>>
  /\ db' = own[p] ++ db
  /\ Over(p)
  /\ gets' = Disturbed({d \in DocId : DocKey(d) \in DOMAIN own[p]})
  /\ UNCHANGED <<dialect, issued, copy, calls>>

(* The key a call is about to write, if another one has written it.        *)
Wanted(p) ==
  IF At(p, "write") THEN DOMAIN Written(Head(rows[p]), Sees(p), got[p], conf[p])
  ELSE IF At(p, "log") THEN {OpKey(Number(p))} ELSE {}

(* Postgres ends a transaction of a set in which each waits for another.   *)
Deadlocked(p) ==
  /\ dialect = "postgres"
  /\ \E S \in SUBSET Proc :
       /\ p \in S
       /\ \A q \in S : \E o \in S \ {q} : Wanted(q) \cap DOMAIN own[o] # {}
  /\ Rollback(p)

-----------------------------------------------------------------------------
(* A peer that takes over the log, outside any transaction.                *)
Ship ==
  LET log == LogOf(Outside)
  IN /\ Len(log) > Len(copy)
     /\ copy' = copy \o SubSeq(log, Len(copy) + 1, Len(log))
     /\ UNCHANGED <<dialect, db, own, callVars, issued, gets, calls>>

-----------------------------------------------------------------------------
(* get_objs() with a filter or with none, statement by statement and       *)
(* outside any transaction.                                                *)

(* The statements of a filter, clause by clause, of which that of a "!="   *)
(* has two; the documents that the filter selects are looked at once more. *)
First(left) ==
  IF left = {} THEN "recheck"
  ELSE IF (CHOOSE c \in left : TRUE).op = "!=" THEN "equal" ELSE "lookup"

(* The documents whose index entries, as they are in v, match the clause.  *)
querySimpleIndexIds(v, c) ==
  {d \in DocId : /\ v[IdxKey(d)] # Absent
                 /\ Field[c.field] \in v[IdxKey(d)][1]
                 /\ c.field \in DOMAIN v[IdxKey(d)][2]
                 /\ matchClause(v[IdxKey(d)][2], c)}

GetObjs(p) == \E filter \in Filters :
  /\ pc[p] = "idle"
  /\ calls > 0 /\ calls' = calls - 1
  /\ {Field[c.field] : c \in filter} \subseteq Outside[Config]
  /\ pc' = [pc EXCEPT ![p] = "get"]
  /\ gets' = [gets EXCEPT ![p] =
       [filter |-> filter, left |-> filter,
        next |-> IF filter = {} THEN "live" ELSE First(filter),
        found |-> DocId, equal |-> {},
        touched |-> IF dialect = "sqlite" /\ \E q \in Proc : Open(q) THEN DocId ELSE {}]]
  /\ UNCHANGED <<dialect, db, own, conf, rows, stages, got, last, done, issued, copy>>

(* Mutant: the documents that differ are those of the index that do.       *)
SelectedByIndex(v, g, c) ==
  LET live == Live(TableOf(v)) IN
  CASE g.next = "live" -> live
    [] g.next = "lookup" -> querySimpleIndexIds(v, c)
    [] g.next = "others" -> querySimpleIndexIds(v, c)
    [] g.next = "recheck" -> {d \in live : matchesFilter(v[DocKey(d)], g.filter)}

(* queryIdsForClause(), queryLiveIds().                                    *)
Selected(v, g, c) ==
  LET live == Live(TableOf(v)) IN
  CASE g.next = "live" -> live
    [] g.next = "lookup" -> querySimpleIndexIds(v, c)
    [] g.next = "others" -> live \ g.equal
    [] g.next = "recheck" -> {d \in live : matchesFilter(v[DocKey(d)], g.filter)}

(* queryFilteredIds(): once nothing is left, nothing more is asked.        *)
QueryIds(p) ==
  LET g == gets[p]
      c == CHOOSE x \in g.left : TRUE
      found == g.found \cap Selected(Outside, g, c)
      left == {x \in g.left : x # c}
  IN /\ g # NoGet /\ g.next # "end"
     /\ gets' = [gets EXCEPT ![p] =
          IF g.next = "equal"
          THEN [g EXCEPT !.next = "others",
                         !.equal = querySimpleIndexIds(Outside, [c EXCEPT !.op = "=="])]
          ELSE [g EXCEPT !.next = IF found = {} \/ @ \in {"live", "recheck"} THEN "end"
                                  ELSE First(left),
                         !.left = left, !.found = found, !.equal = {}]]
     /\ UNCHANGED <<dialect, db, own, callVars, issued, copy, calls>>

(* The answer: the documents found, as they are by now.                    *)
FetchDocs(p) ==
  /\ gets[p] # NoGet /\ gets[p].next = "end"
  /\ gets' = [gets EXCEPT ![p] = NoGet]
  /\ pc' = [pc EXCEPT ![p] = "idle"]
  /\ UNCHANGED <<dialect, db, own, conf, rows, stages, got, last, done, issued,
                 copy, calls>>

Init ==
  /\ dialect \in Dialects
  /\ db = [k \in Key |-> CASE k = Config -> Indexes
                         [] k = Watermark -> 0
                         [] OTHER -> Absent]
  /\ own = [p \in Proc |-> Nothing]
  /\ pc = [p \in Proc |-> "idle"]
  /\ conf = [p \in Proc |-> {}]
  /\ rows = [p \in Proc |-> <<>>] /\ stages = [p \in Proc |-> <<>>]
  /\ got = [p \in Proc |-> Absent] /\ last = [p \in Proc |-> 0]
  /\ done = [p \in Proc |-> <<>>]
  /\ issued = {} /\ copy = <<>> /\ calls = MaxCalls
  /\ gets = [p \in Proc |-> NoGet]

Next ==
  \/ \E p \in Proc :
       \/ Call(p) \/ AddIndex(p) \/ RunRetention(p) \/ Begin(p)
       \/ Read(p) \/ Check(p) \/ Write(p) \/ Seq1(p) \/ Log(p)
       \/ Commit(p) \/ Deadlocked(p)
       \/ GetObjs(p) \/ QueryIds(p) \/ FetchDocs(p)
  \/ Ship

Spec == Init /\ [][Next]_vars

-----------------------------------------------------------------------------
(* Properties.                                                             *)

(* What the memory engine makes of a row.                                  *)
InMemory(t, r) ==
  CASE r.kind = "add" -> add_objs(t, r.id, r.payload)
    [] r.kind = "update" -> update_objs(t, r.id, r.payload, r.mode)
    [] r.kind = "replace" -> replace_objs(t, r.id, r.payload)
    [] r.kind = "delete" -> delete_objs(t, r.id)
    [] r.kind = "blob_add" -> add_blob(t, r.id, r.payload)
    [] r.kind = "blob_del" -> delete_blobs(t, r.id)
    [] r.kind = "doc" -> importSnapshotDoc(t, r.id, r.payload)
    [] r.kind = "blob" -> importSnapshotBlob(t, r.id, r.payload)
    [] r.kind = "clear" -> resetTableData(t)
    [] r.kind = "restore" -> [t EXCEPT !.watermark = r.payload]
    [] r.kind = "merge" -> [t EXCEPT !.watermark = mergeWatermark(@, r.payload)]
    [] r.kind = "cutoff" -> [t EXCEPT !.watermark =
         IF r.mode = "replace" \/ r.payload > @ THEN r.payload ELSE @]
    [] r.kind = "apply" -> ApplyOne([table |-> t, ok |-> TRUE], r.payload).table
    [] r.kind \in {"config", "latest"} -> t

(* On SQLite a call that is acknowledged does to the table what the memory *)
(* engine does for the same rows in one go, whatever other calls try       *)
(* meanwhile, fail at or are rolled back.                                  *)
SerialCommits ==
  [][\A p \in Proc : dialect = "sqlite" /\ Commit(p) =>
       TableOf(db') = FoldLeft(InMemory, TableOf(db), done[p])]_vars

(* The rows that add an entry to the log.                                  *)
Adds(r) == r.kind \notin {"clear", "config", "restore", "merge", "cutoff", "latest"}
Keep(s, r) == IF Adds(r) THEN Append(s, r) ELSE s
Entries(rs) == FoldLeft(Keep, <<>>, rs)

(* On either database a call that is acknowledged adds its entries to the  *)
(* end of the log, one for each row and none between them, and changes no  *)
(* entry that was there; a restored table starts its log anew.             *)
LogGrows ==
  [][\A p \in Proc : Commit(p) =>
       LET before == IF \E i \in DOMAIN done[p] : done[p][i].kind = "clear" THEN <<>>
                     ELSE LogOf(db)
           mine == Entries(done[p])
           after == LogOf(db')
       IN /\ Len(after) = Len(before) + Len(mine)
          /\ IsPrefix(before, after)
          /\ \A i \in DOMAIN mine : after[Len(before) + i].id =
               IF mine[i].kind = "apply" THEN mine[i].payload.id ELSE mine[i].id]_vars

(* An index entry never says what its document does not hold.              *)
(* (steng README.md, 153: "JSON rows are canonical; indexes are derived    *)
(* views.")                                                                *)
IndexNeverStale ==
  \A d \in DocId : db[IdxKey(d)] # Absent =>
    db[DocKey(d)] \notin {Absent, Dead} /\ db[IdxKey(d)][2] = db[DocKey(d)]

(* Every live document is in the indexes of its table, where the filtered  *)
(* reads look for it. (The same line, and design.md, 152.)                 *)
IndexFollowsDocs ==
  \A d \in Live(TableOf(db)) : db[IdxKey(d)] = Indexed(db[Config], db[DocKey(d)])

(* A filtered read finds through the indexes what a look at every document *)
(* would: of the documents that no other call changed meanwhile exactly    *)
(* those that match, also by lacking a field.                              *)
ReadsFindMatches ==
  \A p \in Proc :
    gets[p] # NoGet /\ gets[p].next = "end" =>
      \A d \in DocId \ gets[p].touched :
        d \in gets[p].found <=>
          d \in Live(TableOf(db)) /\ matchesFilter(db[DocKey(d)], gets[p].filter)

(* On Postgres a peer never takes over an entry that the log then lacks.   *)
ShippedIsLogged == dialect = "postgres" => IsPrefix(copy, LogOf(db))

=============================================================================
