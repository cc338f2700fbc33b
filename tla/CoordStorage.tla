---------------------------- MODULE CoordStorage ----------------------------
(***************************************************************************)
(* The durable store of a coord root and the choice of where it is kept    *)
(* (src/src/cord/coord_storage.ts and store.ts).  Every command is a       *)
(* process of its own that opens the configured store, works on it and     *)
(* closes it: this is a session.  Opening may write the configuration      *)
(* (first use), copy the JSON file into SQLite (promotion), or turn to the *)
(* file when SQLite does not open (fallback); switching copies the store   *)
(* into another one.                                                       *)
(*                                                                         *)
(* Keys are numbers in their lexical order.  The store of a steng table is *)
(* that of SQLite; the one on Postgres has the same code, never falls back *)
(* and is left out.  A write of the configuration empties the file before  *)
(* it fills it, and an empty file is taken for none at all.                *)
(***************************************************************************)
EXTENDS Integers, FiniteSets, SequencesExt

CONSTANTS
  Process, Key,
  RowId,            \* rows that a table may ever have, in the order of their ids
  Absent, NoRow, NoConfig, NoProcess, Gone, Idle

ASSUME CoordStorageAssumption == Key \subseteq Nat /\ RowId \subseteq Nat

VARIABLES
  config,       \* coord.storage.json: the policy and the backend in use
  document,     \* coord.store.json: the value of each key
  lock,         \* the process whose lock file lies beside it, or Gone
  rows,         \* coord.store.sqlite: the rows of the table
  sqliteUp,     \* whether SQLite opens
  session,      \* what each process does with the store
  hopes         \* history: the writes that a read of each key may return

storageVars == <<config, document, lock, rows, sqliteUp, session, hopes>>

Backend == {"file", "sqlite"}
Config == [policy : {"auto", "explicit"}, current : Backend]
Automatic(b) == [policy |-> "auto", current |-> b]
Explicit(b) == [policy |-> "explicit", current |-> b]

(* Deleted rows are kept, and replace_objs brings one back to life.        *)
Row(k, v) == [key |-> k, value |-> v, live |-> TRUE]
Unused == {r \in RowId : rows[r] = NoRow}
LiveRows(k) == {r \in RowId : rows[r] # NoRow /\ rows[r].live /\ rows[r].key = k}
FirstRow(R) == CHOOSE r \in R : \A x \in R : r <= x

Bury(R) == [r \in RowId |-> IF r \in R THEN [rows[r] EXCEPT !.live = FALSE] ELSE rows[r]]

(* What get finds, and list: a key with several rows is listed with each.  *)
Lookup(b, k) ==
  IF b = "file" THEN document[k]
  ELSE IF LiveRows(k) = {} THEN Absent ELSE rows[FirstRow(LiveRows(k))].value

Entry(k, v) == [kind |-> "set", key |-> k, value |-> v]
Sorted(S) == SetToSortSeq(S, LAMBDA x, y : x < y)

EntriesOf(k, b) ==
  IF b = "file" THEN (IF document[k] = Absent THEN <<>> ELSE <<Entry(k, document[k])>>)
  ELSE LET ids == Sorted(LiveRows(k)) IN [i \in DOMAIN ids |-> Entry(k, rows[ids[i]].value)]

list(b) == LET keys == Sorted(Key)
           IN FlattenSeq([i \in DOMAIN keys |-> EntriesOf(keys[i], b)])

KeysOf(entries) == {entries[i].key : i \in DOMAIN entries}

-----------------------------------------------------------------------------
(* Sessions.  A task says what is done once the store is open: "ops" is a  *)
(* sequence of gets, sets and deletions, "fill" makes the store hold the   *)
(* given entries and no others, "list" reads it, "switch" moves it to      *)
(* another backend, "hold" keeps it open.                                  *)

Task(kind, upgrade) == [kind |-> kind, upgrade |-> upgrade, entries |-> <<>>, to |-> "file"]

NoOp == [pc |-> "begin", found |-> {}, before |-> {}]

NewSession(task) ==
  [task |-> task, pc |-> "load", cfg |-> NoConfig, goal |-> NoConfig, then |-> "open",
   b |-> "file", entries |-> <<>>, todo |-> <<>>, op |-> NoOp, ok |-> TRUE]

In(p, pc) == session[p] # Idle /\ session[p].pc = pc
Becomes(p, s) == session' = [session EXCEPT ![p] = s]
Finished(p) == In(p, "done")

Failed(s) == [s EXCEPT !.pc = "done", !.ok = FALSE]
Saves(s, goal, then) == [s EXCEPT !.pc = "save", !.goal = goal, !.then = then]

OnlySession == UNCHANGED <<config, document, lock, rows, sqliteUp, hopes>>

Opens(b) == b = "file" \/ sqliteUp

(* loadStorageConfig, and what openCoordStorage does with what it found.   *)
Proceed(s, c) ==
  [s EXCEPT !.cfg = c,
     !.pc = IF s.task.upgrade /\ c = Automatic("file") THEN "promote" ELSE "open"]

loadStorageConfig(p) ==
  /\ In(p, "load")
  /\ Becomes(p, IF config = NoConfig THEN [session[p] EXCEPT !.pc = "initialize"]
                ELSE Proceed(session[p], config))
  /\ OnlySession

initializeAutoStorage(p) ==
  /\ In(p, "initialize")
  /\ Becomes(p, Saves(session[p], Automatic(IF sqliteUp THEN "sqlite" ELSE "file"), "proceed"))
  /\ OnlySession

(* saveStorageConfig, a write that is not atomic.                          *)
EmptyConfig(p) ==
  /\ In(p, "save")
  /\ config' = NoConfig
  /\ Becomes(p, [session[p] EXCEPT !.pc = "write"])
  /\ UNCHANGED <<document, lock, rows, sqliteUp, hopes>>

WriteConfig(p) ==
  LET s == session[p] IN
  /\ In(p, "write")
  /\ config' = s.goal
  /\ Becomes(p, IF s.then = "proceed" THEN Proceed(s, s.goal)
                ELSE [s EXCEPT !.cfg = s.goal, !.pc = s.then])
  /\ UNCHANGED <<document, lock, rows, sqliteUp, hopes>>

(* A migration: what it reads from the source goes into the target.        *)
Migrates(s, to, entries) == [s EXCEPT !.b = to, !.entries = entries, !.pc = "survey"]

(* maybePromoteAutoFileStore; when it fails the file stays in use.         *)
maybePromoteAutoFileStore(p) ==
  /\ In(p, "promote")
  /\ Becomes(p, IF Opens("sqlite")
                THEN [Migrates(session[p], "sqlite", list("file")) EXCEPT !.goal = Automatic("sqlite")]
                ELSE [session[p] EXCEPT !.pc = "open"])
  /\ OnlySession

openHandle(p) ==
  LET s == session[p] IN
  /\ In(p, "open")
  /\ Becomes(p, IF Opens(s.cfg.current) THEN [s EXCEPT !.pc = "use", !.b = s.cfg.current]
                ELSE IF s.cfg.policy = "auto" THEN Saves(s, Automatic("file"), "open")
                ELSE Failed(s))
  /\ OnlySession

(* The store is open: inspectCoordStorage, which only closes it again, a   *)
(* listing, a sequence of operations, or switchCoordStorage.               *)
Use(p) ==
  LET s == session[p]
      task == s.task
  IN
  /\ In(p, "use") /\ task.kind # "hold"
  /\ Becomes(p,
       CASE task.kind = "inspect" -> [s EXCEPT !.pc = "done"]
         [] task.kind = "list" -> [s EXCEPT !.entries = list(s.b), !.pc = "done"]
         [] task.kind = "ops" -> [s EXCEPT !.todo = task.entries, !.pc = "work"]
         [] task.kind = "fill" -> [s EXCEPT !.entries = task.entries, !.pc = "survey"]
         [] task.kind = "switch" ->
              IF s.cfg = Explicit(task.to) THEN [s EXCEPT !.pc = "done"]
              ELSE IF s.cfg.current = task.to THEN Saves(s, Explicit(task.to), "done")
              ELSE IF ~Opens(task.to) THEN Failed(s)
              ELSE [Migrates(s, task.to, list(s.b)) EXCEPT !.goal = Explicit(task.to)])
  /\ OnlySession

(* clearStore before a migration, or the part of it that saveNodes does:   *)
(* the listed entries are deleted one by one, then the new ones are set.   *)
SurveyStore(p) ==
  LET s == session[p]
      keep == IF s.task.kind = "fill" THEN KeysOf(s.task.entries) ELSE {}
      drop == SelectSeq(list(s.b), LAMBDA e : e.key \notin keep)
      del(e) == [e EXCEPT !.kind = "del"]
  IN
  /\ In(p, "survey")
  /\ Becomes(p, [s EXCEPT !.pc = "work",
                   !.todo = [i \in DOMAIN drop |-> del(drop[i])] \o s.entries])
  /\ OnlySession

Migrating(s) == s.goal # NoConfig /\ s.goal # s.cfg

(* The last operation is done.                                             *)
EndWork(p) ==
  LET s == session[p] IN
  /\ In(p, "work") /\ s.todo = <<>>
  /\ Becomes(p, IF ~Migrating(s) THEN [s EXCEPT !.pc = "done"]
                ELSE Saves(s, s.goal, IF s.task.kind = "switch" THEN "done" ELSE "open"))
  /\ OnlySession

-----------------------------------------------------------------------------
(* The operations of the stores, each with its steps.                      *)

Working(p, b, pc) ==
  /\ In(p, "work") /\ session[p].todo # <<>>
  /\ session[p].b = b /\ session[p].op.pc = pc

op(p) == Head(session[p].todo)

Ended(s) == [s EXCEPT !.todo = Tail(@), !.op = NoOp]

Begun(p, pc) == [session[p] EXCEPT !.op.pc = pc, !.op.before = hopes[op(p).key]]

(* A write that is done outdoes those that were done before it began.  The *)
(* copies of a migration are none, and the catalogue is not followed here. *)
Tracked(p) == ~Migrating(session[p]) /\ op(p).kind # "get"
Hope(p) == <<op(p).value, IF op(p).kind = "del" THEN Absent ELSE op(p).value>>

Settled(p, before) ==
  IF ~Tracked(p) THEN hopes
  ELSE [hopes EXCEPT ![op(p).key] =
          IF session[p].task.kind = "fill" THEN {} ELSE (@ \ before) \cup {Hope(p)}]

Ends(p) ==
  /\ hopes' = Settled(p, session[p].op.before)
  /\ Becomes(p, Ended(session[p]))

(* FileJsonStore.  The lock file keeps other writers out between the read  *)
(* and the rename; readers go without.                                     *)
FileGet(p) ==
  /\ Working(p, "file", "begin") /\ op(p).kind = "get"
  /\ Becomes(p, Ended(session[p]))
  /\ OnlySession

(* Mutant: the lock is taken for granted.                                  *)
acquireNothing(p) ==
  /\ Working(p, "file", "begin") /\ op(p).kind # "get"
  /\ Becomes(p, [Begun(p, "locked") EXCEPT !.op.found = document])
  /\ UNCHANGED <<config, document, lock, rows, sqliteUp, hopes>>

acquireLock(p) ==
  /\ Working(p, "file", "begin") /\ op(p).kind # "get"
  /\ lock = NoProcess
  /\ lock' = p
  /\ Becomes(p, [Begun(p, "locked") EXCEPT !.op.found = document])
  /\ UNCHANGED <<config, document, rows, sqliteUp, hopes>>

save(p) ==
  /\ Working(p, "file", "locked")
  /\ document' = [session[p].op.found EXCEPT
                    ![op(p).key] = IF op(p).kind = "del" THEN Absent ELSE op(p).value]
  /\ Becomes(p, [session[p] EXCEPT !.op.pc = "saved"])
  /\ UNCHANGED <<config, lock, rows, sqliteUp, hopes>>

(* Mutant: the lock file is closed and not removed.                        *)
UnlockLater(p) ==
  /\ Working(p, "file", "saved")
  /\ Ends(p)
  /\ UNCHANGED <<config, document, lock, rows, sqliteUp>>

Unlock(p) ==
  /\ Working(p, "file", "saved")
  /\ lock' = NoProcess
  /\ Ends(p)
  /\ UNCHANGED <<config, document, rows, sqliteUp>>

(* The id of a new row begins with the time: it comes after the others,    *)
(* but for those that processes add within one millisecond.                *)
NewRows(p) ==
  LET others == {q \in Process \ {p} : In(q, "work") \/ Finished(q)}
  IN {r \in Unused : Cardinality({x \in Unused : x < r}) <= Cardinality(others)}

(* StengCoordStore: the rows of the key are looked up, then the first is   *)
(* replaced or a new one added, then the others go.                        *)
findRows(p) ==
  /\ Working(p, "sqlite", "begin")
  /\ LET found == LiveRows(op(p).key) IN
     IF found = {} /\ op(p).kind # "set"
     THEN /\ Becomes(p, Ended(session[p]))
          /\ hopes' = Settled(p, hopes[op(p).key])
     ELSE /\ Becomes(p, [Begun(p, "found") EXCEPT !.op.found = found])
          /\ UNCHANGED hopes
  /\ UNCHANGED <<config, document, lock, rows, sqliteUp>>

SqliteSet(p) ==
  LET found == session[p].op.found IN
  /\ Working(p, "sqlite", "found") /\ op(p).kind = "set"
  /\ \E r \in IF found = {} THEN NewRows(p) ELSE {FirstRow(found)} :
       rows' = [rows EXCEPT ![r] = Row(op(p).key, op(p).value)]
  /\ IF Cardinality(found) > 1
     THEN Becomes(p, [session[p] EXCEPT !.op.pc = "stored"]) /\ UNCHANGED hopes
     ELSE Ends(p)
  /\ UNCHANGED <<config, document, lock, sqliteUp>>

(* deleteDuplicateRows, after a set or within a get.                       *)
deleteDuplicateRows(p) ==
  LET found == session[p].op.found IN
  /\ \/ Working(p, "sqlite", "stored")
     \/ Working(p, "sqlite", "found") /\ op(p).kind = "get"
  /\ rows' = Bury(found \ {FirstRow(found)})
  /\ Ends(p)
  /\ UNCHANGED <<config, document, lock, sqliteUp>>

SqliteDel(p) ==
  /\ Working(p, "sqlite", "found") /\ op(p).kind = "del"
  /\ rows' = Bury(session[p].op.found)
  /\ Ends(p)
  /\ UNCHANGED <<config, document, lock, sqliteUp>>

-----------------------------------------------------------------------------
Step(p) ==
  \/ loadStorageConfig(p)
  \/ initializeAutoStorage(p)
  \/ EmptyConfig(p)
  \/ WriteConfig(p)
  \/ maybePromoteAutoFileStore(p)
  \/ openHandle(p)
  \/ Use(p)
  \/ SurveyStore(p)
  \/ EndWork(p)
  \/ FileGet(p)
  \/ acquireLock(p)
  \/ save(p)
  \/ Unlock(p)
  \/ findRows(p)
  \/ SqliteSet(p)
  \/ deleteDuplicateRows(p)
  \/ SqliteDel(p)

(* A process dies.  A write of its that has begun may have been done; its  *)
(* lock file stays.                                                        *)
Die(p) ==
  /\ session[p] # Idle
  /\ hopes' = IF In(p, "work") /\ session[p].todo # <<>> /\ session[p].op.pc # "begin" /\ Tracked(p)
              THEN [hopes EXCEPT ![op(p).key] = @ \cup {Hope(p)}] ELSE hopes
  /\ lock' = IF lock = p THEN Gone ELSE lock
  /\ Becomes(p, Idle)
  /\ UNCHANGED <<config, document, rows, sqliteUp>>

(* SQLite comes up or goes down.                                           *)
ToggleSqlite ==
  /\ sqliteUp' = ~sqliteUp
  /\ UNCHANGED <<config, document, lock, rows, session, hopes>>

StorageInit ==
  /\ config = NoConfig
  /\ document = [k \in Key |-> Absent]
  /\ lock = NoProcess
  /\ rows = [r \in RowId |-> NoRow]
  /\ sqliteUp \in BOOLEAN
  /\ session = [p \in Process |-> Idle]
  /\ hopes = [k \in Key |-> {<<0, Absent>>}]
-----------------------------------------------------------------------------
Holding(p) == session[p] # Idle /\ session[p].task.kind = "hold" /\ session[p].pc = "use"

AtRest == \A p \in Process : session[p] = Idle \/ Holding(p)

(* The backend that the next session opens, and what it finds there.       *)
Current == IF config # NoConfig THEN config.current
           ELSE IF sqliteUp THEN "sqlite" ELSE "file"

(* With no session under way, the store holds of every key what a last     *)
(* write left there: one that was acknowledged and not overwritten since,  *)
(* or one whose process died.  Lock files, promotions and switches lose    *)
(* none of it, nor do duplicate rows unless rows are deleted beside other  *)
(* writers.  No claim is made of keys of the catalogue.                    *)
NothingForgotten ==
  AtRest => \A k \in Key :
              hopes[k] = {} \/ \E hope \in hopes[k] : hope[2] = Lookup(Current, k)
=============================================================================
