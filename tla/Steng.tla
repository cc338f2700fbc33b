-------------------------------- MODULE Steng --------------------------------
(***************************************************************************)
(* One table of the in-memory steng engine (src/src/steng/engine/          *)
(* steng_engine.ts): what each operation makes of the documents, the blobs *)
(* and the operation log of the table.                                     *)
(*                                                                         *)
(* A JSON value is a function on the leaves it has; leaves that lie under  *)
(* one top-level field share their Field.  Ids that the engine generates   *)
(* are members of a finite set, and time stamps and etags are left out.    *)
(* Every operator maps a table to the table the code leaves behind.        *)
(***************************************************************************)
EXTENDS Integers, Sequences, SequencesExt, TLC

CONSTANTS
  DocId,        \* document ids
  BlobId,       \* blob ids
  Content,      \* blob contents
  Leaf,         \* leaves of JSON values
  Field,        \* the top-level field a leaf lies under
  Val,          \* values of leaves
  Absent,       \* what a table holds of an id it never saw
  Dead          \* a tombstone

Value == UNION {[S -> Val] : S \in SUBSET Leaf}

ASSUME StengAssumption ==
  /\ DOMAIN Field = Leaf
  /\ Absent # Dead /\ {Absent, Dead} \cap Value = {}

OpTypes == {"ADD", "UPDATE", "REPLACE", "DELETE", "BLOB_ADD", "BLOB_DEL"}

NewTable ==
  [docs |-> [d \in DocId |-> Absent], blobs |-> [b \in BlobId |-> Absent],
   ops |-> <<>>, latestSeq |-> 0, watermark |-> 0]

Live(t) == {d \in DocId : t.docs[d] \notin {Absent, Dead}}

(* What a reader sees: the live documents and the blobs.                   *)
View(t) == [docs |-> [d \in Live(t) |-> t.docs[d]], blobs |-> t.blobs]

-----------------------------------------------------------------------------
(* src/src/shared/utils.ts.                                                *)

Overlay(v, kept, patch) ==
  [l \in kept \cup DOMAIN patch |-> IF l \in DOMAIN patch THEN patch[l] ELSE v[l]]

deepMerge(v, patch) == Overlay(v, DOMAIN v, patch)

shallowMerge(v, patch) ==
  Overlay(v, {l \in DOMAIN v : \A m \in DOMAIN patch : Field[m] # Field[l]}, patch)

Merge(kind, v, patch) ==
  IF kind = "shallow" THEN shallowMerge(v, patch) ELSE deepMerge(v, patch)

-----------------------------------------------------------------------------
(* Local operations, each with its entry in the log.                       *)

Recorded(t, op) == [t EXCEPT !.latestSeq = op.op_seq, !.ops = Append(@, op)]

appendOp(t, type, id, payload) ==
  Recorded(t, [op_seq |-> t.latestSeq + 1, op_type |-> type,
               id |-> id, payload |-> payload])

writeDoc(t, id, v) == [t EXCEPT !.docs[id] = v]
writeTombstone(t, id) == [t EXCEPT !.docs[id] = Dead]

add_objs(t, id, v) == appendOp(writeDoc(t, id, v), "ADD", id, v)

(* The patch is logged, not the merged value and not the kind of merge.    *)
update_objs(t, id, patch, kind) ==
  appendOp(writeDoc(t, id, Merge(kind, t.docs[id], patch)), "UPDATE", id, patch)

replace_objs(t, id, v) == appendOp(writeDoc(t, id, v), "REPLACE", id, v)

(* Mutant: the tombstone is written and not logged.                        *)
DeletedUnlogged(t, id) == writeTombstone(t, id)

delete_objs(t, id) == appendOp(writeTombstone(t, id), "DELETE", id, Absent)

add_blob(t, id, c) ==
  appendOp([t EXCEPT !.blobs[id] = c], "BLOB_ADD", id, c)

delete_blobs(t, id) ==
  appendOp([t EXCEPT !.blobs[id] = Absent], "BLOB_DEL", id, Absent)

-----------------------------------------------------------------------------
(* The log as the replication boundary.                                    *)

(* The entries after a number, up to a limit, in the order of the log.     *)
Take(s, op) ==
  IF op.op_seq > s.after /\ Len(s.kept) < s.limit
  THEN [s EXCEPT !.kept = Append(@, op)] ELSE s

read_ops_since(t, after, limit) ==
  FoldLeft(Take, [after |-> after, limit |-> limit, kept |-> <<>>], t.ops).kept

(* The effect of one operation of another table's log.                     *)
Effect(t, op) ==
  CASE op.op_type \in {"ADD", "REPLACE"} -> writeDoc(t, op.id, op.payload)
    [] op.op_type = "UPDATE" ->
         writeDoc(t, op.id, deepMerge(t.docs[op.id], op.payload))
    [] op.op_type = "DELETE" -> writeTombstone(t, op.id)
    [] op.op_type = "BLOB_ADD" -> [t EXCEPT !.blobs[op.id] = op.payload]
    [] op.op_type = "BLOB_DEL" -> [t EXCEPT !.blobs[op.id] = Absent]

(* Mutant: gaps are let through.                                           *)
RefusedUpdate(t, op) == op.op_type = "UPDATE" /\ op.id \notin Live(t)

(* An operation is refused when it leaves a gap or updates no document.    *)
Refused(t, op) ==
  \/ op.op_seq # t.latestSeq + 1
  \/ op.op_type = "UPDATE" /\ op.id \notin Live(t)

(* Mutants: a turn that skips nothing; one that logs the operation as a    *)
(* local one, under the table's own next number.                           *)
ApplyTwice(s, op) ==
  IF ~s.ok THEN s
  ELSE IF Refused(s.table, op) THEN [s EXCEPT !.ok = FALSE]
  ELSE [s EXCEPT !.table = Recorded(Effect(@, op), op)]
ApplyAsLocal(s, op) ==
  IF op.op_type = "UPDATE" /\ op.id \notin Live(s.table)
  THEN [s EXCEPT !.ok = FALSE]
  ELSE [s EXCEPT !.table = appendOp(Effect(@, op), op.op_type, op.id, op.payload)]

(* One turn of the loop of apply_ops: operations that are there already    *)
(* are skipped, and the first refused one ends the loop where it stands.   *)
ApplyOne(s, op) ==
  IF ~s.ok \/ op.op_seq <= s.table.latestSeq THEN s
  ELSE IF Refused(s.table, op) THEN [s EXCEPT !.ok = FALSE]
  ELSE [s EXCEPT !.table = Recorded(Effect(@, op), op)]

apply_ops(t, ops) == FoldLeft(ApplyOne, [table |-> t, ok |-> TRUE], ops)

(* What the log alone says the table holds.                                *)
Replayed(ops) == apply_ops(NewTable, ops).table

-----------------------------------------------------------------------------
(* Snapshots: rows of documents, tombstones and blobs, without the log.    *)

export_snapshot(t, tombstones) ==
  [docs  |-> {d \in DocId : \/ d \in Live(t)
                            \/ tombstones /\ t.docs[d] = Dead},
   blobs |-> {b \in BlobId : t.blobs[b] # Absent},
   table |-> t]

resetTableData(t) == NewTable

(* Mutant: an imported tombstone is written and not logged.                *)
ImportTombstoneUnlogged(t, d, row) ==
  IF row = Dead THEN writeTombstone(t, d)
  ELSE IF t.docs[d] \in {Absent, Dead} THEN add_objs(t, d, row)
  ELSE replace_objs(t, d, row)

(* A row that the table knows is replaced (conflictMode 'replace').        *)
importSnapshotDoc(t, d, row) ==
  IF row = Dead THEN delete_objs(t, d)
  ELSE IF t.docs[d] \in {Absent, Dead} THEN add_objs(t, d, row)
  ELSE replace_objs(t, d, row)

importSnapshotBlob(t, b, c) == add_blob(t, b, c)

(* The rows of both kinds that the other conflict modes stumble on.        *)
Conflicts(t, d) == t.docs[d] # Absent
BlobConflicts(t, b) == t.blobs[b] # Absent

mergeWatermark(a, b) == IF a < b THEN b ELSE a

-----------------------------------------------------------------------------
(* Filters (filtering.ts): sets of clauses on top-level fields, all of     *)
(* which must hold.                                                        *)

Clause(field, op, value) == [field |-> field, op |-> op, value |-> value]

matchClause(v, c) ==
  LET a == v[c.field] IN
  CASE c.op = "!=" -> c.field \notin DOMAIN v \/ a # c.value
    [] OTHER ->
         /\ c.field \in DOMAIN v
         /\ CASE c.op = "==" -> a = c.value
              [] c.op = "in" -> a \in c.value
              [] c.op = "<" -> a < c.value
              [] c.op = "<=" -> a <= c.value
              [] c.op = ">" -> a > c.value
              [] c.op = ">=" -> a >= c.value
              [] c.op = "between" -> c.value[1] <= a /\ a < c.value[2]

matchesFilter(v, filter) == \A c \in filter : matchClause(v, c)

=============================================================================
