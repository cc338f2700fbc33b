---------------------------- MODULE CordProofs ------------------------------
(* What TLAPS proves of the parts of cord that decide who leads and what a *)
(* coord root knows: of the coord store with its writers, and of the       *)
(* election, for every set of nodes, of workers, of fault bounds and of    *)
(* lease modes.                                                            *)
EXTENDS CoordRuntime, Election, FiniteSetTheorems, SequenceTheorems, TLAPS

-----------------------------------------------------------------------------
(* The coord store.                                                        *)
(*                                                                         *)
(* The store of a coord root, with processes that write it side by side,   *)
(* for any number of them, of keys, of rows and of crashes.  SQLite is     *)
(* there all the time or never; where it is there, each process has one    *)
(* operation, which is no deletion.                                        *)

(* Any operator: of FoldProofs only the least natural is used.             *)
Pair(a, b) == <<a, b>>
Count == INSTANCE FoldProofs WITH Op <- Pair

Op == [kind : {"get", "set", "del"}, key : Key, value : Nat]
OpTask == [kind : {"ops"}, upgrade : BOOLEAN, entries : Seq(Op), to : {"file"}]
OpAsk == [kind : {"task"}, task : OpTask]
Alone(task) == \E o \in Op : o.kind # "del" /\ task.entries = <<o>>

BudgetOfWriters ==
  [asks : SUBSET OpAsk, requests : Nat, alone : BOOLEAN, sqlite : SUBSET BOOLEAN,
   crashes : Nat, toggles : {0}, deaths : Nat, slow : Nat]
WriterBudgets ==
  {b \in BudgetOfWriters : TRUE \in b.sqlite => \A ask \in b.asks : Alone(ask.task)}

Stored == Nat \cup {Absent}
OpState == [pc : {"begin", "locked", "saved", "found", "stored"},
            found : (SUBSET RowId) \cup [Key -> Stored], before : SUBSET (Nat \X Stored)]
Chosen == {NoConfig, Automatic("file"), Automatic("sqlite")}
Sessions ==
  [task : OpTask,
   pc : {"load", "initialize", "save", "write", "promote", "open", "use", "work", "done"},
   cfg : Chosen, goal : Chosen, then : {"open", "proceed"}, b : Backend,
   entries : {<<>>}, todo : Seq(Op), op : OpState, ok : BOOLEAN]
Table == [key : Key, value : Nat, live : BOOLEAN]

(* Values that stand for nothing are none of those they stand beside.      *)
StoreSetting ==
  /\ {NoProcess, Gone} \cap Process = {}
  /\ NoConfig \notin Config
  /\ NoRow \notin Table
  /\ Idle \notin Sessions
  /\ \A ask \in OpAsk : Command(ask, "provision", "none") # Idle

Writers == Budgets \subseteq WriterBudgets

-----------------------------------------------------------------------------
(* What every process is about.                                            *)

Used == IF sqliteUp THEN "sqlite" ELSE "file"

Works(s) == s # Idle /\ s.pc = "work" /\ s.todo # <<>>

SessionOk(s) ==
  /\ s.goal \in {NoConfig, Automatic(Used)}
  /\ s.pc \in {"save", "write"} => s.goal = Automatic(Used) /\ s.then = "proceed"
  /\ s.pc \in {"promote", "open", "use", "work"} => s.cfg = Automatic(Used)
  /\ s.pc \in {"use", "work"} => s.b = Used
  /\ ~Works(s) \/ s.op.pc = "begin" => s.op = NoOp
  /\ s.pc = "promote" => ~sqliteUp
  /\ sqliteUp => /\ Alone(s.task)
                 /\ s.pc = "work" => s.todo \in {<<>>, s.task.entries}
                 /\ s.op.pc \in {"begin", "found", "stored"}
                 /\ s.op.pc # "begin" => s.op.found \in SUBSET RowId
  /\ ~sqliteUp => s.op.pc \in {"begin", "locked", "saved"}
  /\ s.op.pc \in {"locked", "saved"} =>
       Head(s.todo).kind # "get" /\ s.op.found \in [Key -> Stored]

StoreTyped ==
  /\ budget \in WriterBudgets /\ (sqliteUp => \A ask \in budget.asks : Alone(ask.task))
  /\ sqliteUp \in BOOLEAN
  /\ config \in {NoConfig, Automatic(Used)}
  /\ document \in [Key -> Stored]
  /\ lock \in Process \cup {NoProcess, Gone}
  /\ rows \in [RowId -> Table \cup {NoRow}]
  /\ hopes \in [Key -> SUBSET (Nat \X Stored)]
  /\ session \in [Process -> Sessions \cup {Idle}]
  /\ \A p \in Process : session[p] # Idle => SessionOk(session[p])
  /\ daemon = [q \in Pid |-> [phase |-> "unborn", node |-> 0]]
  /\ DOMAIN command = Cli
  /\ \A p \in Cli : \/ command[p] = Idle /\ session[p] = Idle
                    \/ \E ask \in OpAsk : command[p] = Command(ask, "provision", "none")
  /\ \A p \in Process \ Cli : session[p] = Idle

-----------------------------------------------------------------------------
(* The fields of a session after a step.                                   *)
Same(u, s) ==
  /\ u.task = s.task /\ u.pc = s.pc /\ u.cfg = s.cfg /\ u.goal = s.goal /\ u.then = s.then
  /\ u.b = s.b /\ u.entries = s.entries /\ u.ok = s.ok

LEMMA EndedIs ==
  ASSUME NEW s \in Sessions, s.todo # <<>>, NEW u, u = Ended(s)
  PROVE  u \in Sessions /\ Same(u, s) /\ u.todo = Tail(s.todo) /\ u.op = NoOp
<1>1. NoOp \in OpState BY DEF NoOp, OpState
<1>2. Tail(s.todo) \in Seq(Op) BY DEF Sessions
<1> QED BY <1>1, <1>2 DEF Sessions, Same, Ended

Staged(s, n) == [s EXCEPT !.op.pc = n]

LEMMA StageIs ==
  ASSUME NEW s \in Sessions, NEW n \in {"locked", "saved", "found", "stored"},
         NEW u, u = Staged(s, n)
  PROVE  u \in Sessions /\ Same(u, s) /\ u.todo = s.todo
         /\ u.op = [pc |-> n, found |-> s.op.found, before |-> s.op.before]
<1> DEFINE o == [s.op EXCEPT !.pc = n]
<1>1. u = [s EXCEPT !.op = o] BY DEF Staged
<1>2. o = [pc |-> n, found |-> s.op.found, before |-> s.op.before] /\ o \in OpState
  BY DEF Sessions, OpState
<1> HIDE DEF o
<1> QED BY <1>1, <1>2 DEF Sessions, Same

BegunWith(s, n, h, f) == [[s EXCEPT !.op.pc = n, !.op.before = h] EXCEPT !.op.found = f]

LEMMA BegunIs ==
  ASSUME NEW s \in Sessions, NEW n \in {"locked", "found"},
         NEW h \in SUBSET (Nat \X Stored), NEW f \in (SUBSET RowId) \cup [Key -> Stored],
         NEW u, u = BegunWith(s, n, h, f)
  PROVE  u \in Sessions /\ Same(u, s) /\ u.todo = s.todo
         /\ u.op = [pc |-> n, found |-> f, before |-> h]
<1> DEFINE o == [pc |-> n, found |-> f, before |-> h]
           t == Staged(s, n)
           w == [t EXCEPT !.op.before = h]
<1>1. t \in Sessions /\ Same(t, s) /\ t.todo = s.todo
      /\ t.op = [pc |-> n, found |-> s.op.found, before |-> s.op.before]
  <2>1. n \in {"locked", "saved", "found", "stored"} /\ t = Staged(s, n) OBVIOUS
  <2> HIDE DEF t, o, w
  <2> QED BY <2>1, StageIs
<1>2. u = [w EXCEPT !.op.found = f] BY DEF Sessions, Staged, BegunWith
<1> HIDE DEF t
<1>3. [t.op EXCEPT !.before = h] = [pc |-> n, found |-> s.op.found, before |-> h]
      /\ [t.op EXCEPT !.before = h] \in OpState
  BY <1>1 DEF Sessions, OpState
<1>4. w \in Sessions /\ Same(w, t) /\ w.todo = t.todo
      /\ w.op = [pc |-> n, found |-> s.op.found, before |-> h]
  BY <1>1, <1>3 DEF Sessions, Same
<1> HIDE DEF w
<1>5. [w.op EXCEPT !.found = f] = o /\ o \in OpState
  BY <1>4 DEF Sessions, OpState
<1> HIDE DEF o
<1>6. u \in Sessions /\ Same(u, w) /\ u.todo = w.todo /\ u.op = o
  BY <1>2, <1>4, <1>5 DEF Sessions, Same
<1> QED BY <1>1, <1>4, <1>6 DEF Same, o

-----------------------------------------------------------------------------
(* A process takes a step.                                                 *)
LEMMA SessionStep ==
  ASSUME StoreSetting, StoreTyped, NEW p \in Process, session[p] # Idle,
         NEW u \in Sessions, SessionOk(u), Becomes(p, u),
         UNCHANGED <<sqliteUp, daemon, mirror, command, budget>>,
         config' \in {NoConfig, Automatic(Used)},
         document' \in [Key -> Stored], lock' \in Process \cup {NoProcess, Gone},
         rows' \in [RowId -> Table \cup {NoRow}],
         hopes' \in [Key -> SUBSET (Nat \X Stored)]
  PROVE  StoreTyped'
<1>1. session' = [session EXCEPT ![p] = u] BY DEF Becomes
<1>2. Used' = Used /\ \A s : SessionOk(s)' = SessionOk(s) BY DEF SessionOk, Used
<1>3. session' \in [Process -> Sessions \cup {Idle}] BY <1>1 DEF StoreTyped
<1>4. \A q \in Process : session'[q] = IF q = p THEN u ELSE session[q]
  BY <1>1 DEF StoreTyped
<1>5. \A q \in Process : session'[q] # Idle => SessionOk(session'[q])
  BY <1>4 DEF StoreTyped
<1>6. \A q \in Cli : \/ command'[q] = Idle /\ session'[q] = Idle
                     \/ \E ask \in OpAsk : command'[q] = Command(ask, "provision", "none")
  BY CoordRuntimeAssumption, <1>4 DEF StoreTyped
<1>7. \A q \in Process \ Cli : session'[q] = Idle BY <1>4 DEF StoreTyped
<1>8. \A q \in Process : session'[q] # Idle => SessionOk(session[q])'
  <2>1. \A q \in Process : SessionOk(session[q])' <=> SessionOk(session'[q])
    BY DEF SessionOk, Used
  <2> QED BY <1>5, <2>1
<1> QED BY <1>2, <1>3, <1>6, <1>7, <1>8 DEF StoreTyped

Pending(s) == s.pc # "done" /\ (s.pc = "work" => s.todo # <<>>)

(* A step of a session between its operations.                             *)
MovesOn(p, u) ==
  /\ session[p] # Idle /\ session[p].op = NoOp /\ (Pending(u) => Pending(session[p]))
  /\ u \in Sessions /\ SessionOk(u) /\ u.op = NoOp /\ u.task = session[p].task
  /\ Becomes(p, u) /\ config' \in {NoConfig, Automatic(Used)}
  /\ UNCHANGED <<document, lock, rows, sqliteUp, hopes>>

LEMMA NoSession ==
  ASSUME StoreTyped, NEW p \in Process, NEW n, In(p, n)
  PROVE  /\ session[p] # Idle /\ session[p] \in Sessions /\ session[p].pc = n
         /\ SessionOk(session[p])
BY DEF StoreTyped, In

(* At these places no operation is under way.                              *)
LEMMA BetweenOps ==
  ASSUME StoreTyped, NEW p \in Process, NEW n, In(p, n), n # "work"
  PROVE  session[p].op = NoOp
BY NoSession DEF SessionOk, Works

LEMMA NoConfigIsNone ==
  ASSUME StoreSetting
  PROVE  /\ Automatic("file") # NoConfig /\ Automatic("sqlite") # NoConfig
         /\ Automatic("file") # Automatic("sqlite")
         /\ Automatic(Used) \in Chosen /\ Automatic(Used) # NoConfig
         /\ Automatic(Used).current = Used /\ Opens(Used)
<1>1. \A b \in {"file", "sqlite"} : Automatic(b) \in Config /\ Automatic(b).current = b
  BY DEF Automatic, Config, Backend
<1>2. Used \in {"file", "sqlite"} BY DEF Used
<1> QED BY <1>1, <1>2 DEF StoreSetting, Chosen, Opens, Used

LEMMA LoadQuiet ==
  ASSUME StoreSetting, StoreTyped, NEW p \in Process, loadStorageConfig(p)
  PROVE  \E u : MovesOn(p, u)
<1> DEFINE s == session[p]
           u == IF config = NoConfig THEN [s EXCEPT !.pc = "initialize"]
                ELSE Proceed(s, config)
<1>1. /\ In(p, "load") /\ Becomes(p, u)
      /\ UNCHANGED <<config, document, lock, rows, sqliteUp, hopes>>
  BY DEF loadStorageConfig, OnlySession
<1>2. s # Idle /\ s \in Sessions /\ s.pc = "load" /\ SessionOk(s) /\ s.op = NoOp
  BY <1>1, NoSession, BetweenOps
<1>3. config \in {NoConfig, Automatic(Used)} BY DEF StoreTyped
<1>4. config # NoConfig /\ config = Automatic("file") => ~sqliteUp
  BY <1>3, NoConfigIsNone DEF Used
<1> HIDE DEF s
<1>5. u \in Sessions /\ u.task = s.task /\ u.op = s.op /\ u.goal = s.goal
      /\ \/ u.pc = "initialize"
         \/ u.cfg = Automatic(Used) /\ u.pc \in {"open", "promote"}
            /\ (u.pc = "promote" => ~sqliteUp)
  BY <1>2, <1>3, <1>4, NoConfigIsNone DEF Sessions, Proceed
<1> HIDE DEF u
<1>6. SessionOk(u) BY <1>2, <1>5 DEF SessionOk, Works, NoOp
<1> QED BY <1>1, <1>2, <1>3, <1>5, <1>6 DEF MovesOn, s, Pending

LEMMA InitializeQuiet ==
  ASSUME StoreSetting, StoreTyped, NEW p \in Process, initializeAutoStorage(p)
  PROVE  \E u : MovesOn(p, u)
<1> DEFINE s == session[p]
           u == Saves(s, Automatic(IF sqliteUp THEN "sqlite" ELSE "file"), "proceed")
<1>1. /\ In(p, "initialize") /\ Becomes(p, u)
      /\ UNCHANGED <<config, document, lock, rows, sqliteUp, hopes>>
  BY DEF initializeAutoStorage, OnlySession
<1>2. s # Idle /\ s \in Sessions /\ s.pc = "initialize" /\ SessionOk(s) /\ s.op = NoOp
  BY <1>1, NoSession, BetweenOps
<1>3. config \in {NoConfig, Automatic(Used)} BY DEF StoreTyped
<1> HIDE DEF s
<1>4. u \in Sessions /\ u.task = s.task /\ u.op = s.op /\ u.goal = Automatic(Used)
      /\ u.pc = "save" /\ u.then = "proceed"
  BY <1>2, NoConfigIsNone DEF Sessions, Saves, Used
<1> HIDE DEF u
<1>5. SessionOk(u) BY <1>2, <1>4 DEF SessionOk, Works, NoOp
<1> QED BY <1>1, <1>2, <1>3, <1>4, <1>5 DEF MovesOn, s, Pending

LEMMA EmptyQuiet ==
  ASSUME StoreSetting, StoreTyped, NEW p \in Process, EmptyConfig(p)
  PROVE  \E u : MovesOn(p, u)
<1> DEFINE s == session[p]
           u == [s EXCEPT !.pc = "write"]
<1>1. /\ In(p, "save") /\ Becomes(p, u) /\ config' = NoConfig
      /\ UNCHANGED <<document, lock, rows, sqliteUp, hopes>>
  BY DEF EmptyConfig
<1>2. s # Idle /\ s \in Sessions /\ s.pc = "save" /\ SessionOk(s) /\ s.op = NoOp
  BY <1>1, NoSession, BetweenOps
<1> HIDE DEF s
<1>3. u \in Sessions /\ u.task = s.task /\ u.op = s.op /\ u.goal = s.goal
      /\ u.pc = "write" /\ u.then = s.then
  BY <1>2 DEF Sessions
<1> HIDE DEF u
<1>4. SessionOk(u) BY <1>2, <1>3 DEF SessionOk, Works, NoOp
<1> QED BY <1>1, <1>2, <1>3, <1>4 DEF MovesOn, s, Pending

LEMMA WriteQuiet ==
  ASSUME StoreSetting, StoreTyped, NEW p \in Process, WriteConfig(p)
  PROVE  \E u : MovesOn(p, u)
<1> DEFINE s == session[p]
           u == IF s.then = "proceed" THEN Proceed(s, s.goal)
                ELSE [s EXCEPT !.cfg = s.goal, !.pc = s.then]
<1>1. /\ In(p, "write") /\ Becomes(p, u) /\ config' = s.goal
      /\ UNCHANGED <<document, lock, rows, sqliteUp, hopes>>
  BY DEF WriteConfig
<1>2. s # Idle /\ s \in Sessions /\ s.pc = "write" /\ SessionOk(s) /\ s.op = NoOp
  BY <1>1, NoSession, BetweenOps
<1> HIDE DEF s
<1>3. s.goal = Automatic(Used) /\ s.then = "proceed" BY <1>2 DEF SessionOk
<1>4. s.goal = Automatic("file") => ~sqliteUp BY <1>3, NoConfigIsNone DEF Used
<1>5. u \in Sessions /\ u.task = s.task /\ u.op = s.op /\ u.goal = s.goal
      /\ u.cfg = Automatic(Used) /\ u.pc \in {"open", "promote"}
      /\ (u.pc = "promote" => ~sqliteUp)
  BY <1>2, <1>3, <1>4 DEF Sessions, Proceed
<1> HIDE DEF u
<1>6. SessionOk(u) BY <1>2, <1>5 DEF SessionOk, Works, NoOp
<1> QED BY <1>1, <1>2, <1>3, <1>5, <1>6 DEF MovesOn, s, Pending

LEMMA PromoteQuiet ==
  ASSUME StoreSetting, StoreTyped, NEW p \in Process, maybePromoteAutoFileStore(p)
  PROVE  \E u : MovesOn(p, u)
<1> DEFINE s == session[p]
           u == [s EXCEPT !.pc = "open"]
<1>0. In(p, "promote") BY DEF maybePromoteAutoFileStore
<1>1. s # Idle /\ s \in Sessions /\ s.pc = "promote" /\ SessionOk(s) /\ s.op = NoOp
  BY <1>0, NoSession, BetweenOps
<1>2. ~Opens("sqlite") BY <1>1 DEF SessionOk, Opens
<1>3. Becomes(p, u) /\ UNCHANGED <<config, document, lock, rows, sqliteUp, hopes>>
  BY <1>2 DEF maybePromoteAutoFileStore, OnlySession
<1>4. config \in {NoConfig, Automatic(Used)} BY DEF StoreTyped
<1> HIDE DEF s
<1>5. u \in Sessions /\ u.task = s.task /\ u.op = s.op /\ u.goal = s.goal
      /\ u.pc = "open" /\ u.cfg = s.cfg
  BY <1>1 DEF Sessions
<1> HIDE DEF u
<1>6. SessionOk(u) BY <1>1, <1>5 DEF SessionOk, Works, NoOp
<1> QED BY <1>1, <1>3, <1>4, <1>5, <1>6 DEF MovesOn, s, Pending

LEMMA OpenQuiet ==
  ASSUME StoreSetting, StoreTyped, NEW p \in Process, openHandle(p)
  PROVE  \E u : MovesOn(p, u)
<1> DEFINE s == session[p]
           u == [s EXCEPT !.pc = "use", !.b = s.cfg.current]
<1>0. In(p, "open") BY DEF openHandle
<1>1. s # Idle /\ s \in Sessions /\ s.pc = "open" /\ SessionOk(s) /\ s.op = NoOp
  BY <1>0, NoSession, BetweenOps
<1>2. s.cfg = Automatic(Used) /\ s.cfg.current = Used /\ Opens(s.cfg.current)
  BY <1>1, NoConfigIsNone DEF SessionOk
<1>3. Becomes(p, u) /\ UNCHANGED <<config, document, lock, rows, sqliteUp, hopes>>
  BY <1>2 DEF openHandle, OnlySession
<1>4. config \in {NoConfig, Automatic(Used)} BY DEF StoreTyped
<1>5. Used \in Backend BY DEF Used, Backend
<1> HIDE DEF s
<1>6. u \in Sessions /\ u.task = s.task /\ u.op = s.op /\ u.goal = s.goal
      /\ u.pc = "use" /\ u.cfg = s.cfg /\ u.b = Used
  BY <1>1, <1>2, <1>5 DEF Sessions
<1> HIDE DEF u
<1>7. SessionOk(u) BY <1>1, <1>6 DEF SessionOk, Works, NoOp
<1> QED BY <1>1, <1>3, <1>4, <1>6, <1>7 DEF MovesOn, s, Pending

LEMMA UseQuiet ==
  ASSUME StoreSetting, StoreTyped, NEW p \in Process, Use(p)
  PROVE  \E u : MovesOn(p, u)
<1> DEFINE s == session[p]
           u == [s EXCEPT !.todo = s.task.entries, !.pc = "work"]
<1>0. In(p, "use") BY DEF Use
<1>1. s # Idle /\ s \in Sessions /\ s.pc = "use" /\ SessionOk(s) /\ s.op = NoOp
  BY <1>0, NoSession, BetweenOps
<1>2. s.task.kind = "ops" /\ s.task.entries \in Seq(Op) BY <1>1 DEF Sessions, OpTask
<1>3. Becomes(p, u) /\ UNCHANGED <<config, document, lock, rows, sqliteUp, hopes>>
  BY <1>2 DEF Use, OnlySession
<1>4. config \in {NoConfig, Automatic(Used)} BY DEF StoreTyped
<1> HIDE DEF s
<1>5. u \in Sessions /\ u.task = s.task /\ u.op = s.op /\ u.goal = s.goal
      /\ u.pc = "work" /\ u.cfg = s.cfg /\ u.b = s.b /\ u.todo = s.task.entries
  BY <1>1, <1>2 DEF Sessions
<1> HIDE DEF u
<1>6. SessionOk(u) BY <1>1, <1>5 DEF SessionOk, Works, NoOp
<1> QED BY <1>1, <1>3, <1>4, <1>5, <1>6 DEF MovesOn, s, Pending

LEMMA EndWorkQuiet ==
  ASSUME StoreSetting, StoreTyped, NEW p \in Process, EndWork(p)
  PROVE  \E u : MovesOn(p, u)
<1> DEFINE s == session[p]
           u == [s EXCEPT !.pc = "done"]
<1>0. In(p, "work") /\ s.todo = <<>> BY DEF EndWork
<1>1. s # Idle /\ s \in Sessions /\ s.pc = "work" /\ SessionOk(s) BY <1>0, NoSession
<1>2. s.op = NoOp BY <1>0, <1>1 DEF SessionOk, Works
<1>3. ~Migrating(s) BY <1>1 DEF SessionOk, Migrating
<1>4. Becomes(p, u) /\ UNCHANGED <<config, document, lock, rows, sqliteUp, hopes>>
  BY <1>3 DEF EndWork, OnlySession
<1>5. config \in {NoConfig, Automatic(Used)} BY DEF StoreTyped
<1> HIDE DEF s
<1>6. u \in Sessions /\ u.task = s.task /\ u.op = s.op /\ u.goal = s.goal
      /\ u.pc = "done" /\ u.cfg = s.cfg
  BY <1>1 DEF Sessions
<1> HIDE DEF u
<1>7. SessionOk(u) BY <1>1, <1>2, <1>6 DEF SessionOk, Works, NoOp
<1> QED BY <1>1, <1>2, <1>4, <1>5, <1>6, <1>7 DEF MovesOn, s, Pending

-----------------------------------------------------------------------------
(* A process that works, and what it does.                                 *)
Doing(s) == Head(s.todo)
Hoped(s) == <<Doing(s).value, IF Doing(s).kind = "del" THEN Absent ELSE Doing(s).value>>

LEMMA WorkingIs ==
  ASSUME StoreTyped, NEW p \in Process, NEW b, NEW n, Working(p, b, n)
  PROVE  /\ session[p] # Idle /\ session[p] \in Sessions /\ SessionOk(session[p])
         /\ Works(session[p]) /\ Pending(session[p])
         /\ session[p].op.pc = n /\ b = Used
         /\ op(p) = Doing(session[p]) /\ Doing(session[p]) \in Op
         /\ Hope(p) = Hoped(session[p])
         /\ Tracked(p) <=> Doing(session[p]).kind # "get"
         /\ session[p].task.kind = "ops"
<1> DEFINE s == session[p]
<1>1. s # Idle /\ s \in Sessions /\ SessionOk(s) /\ s.pc = "work" /\ s.todo # <<>>
      /\ s.op.pc = n /\ s.b = b
  BY NoSession DEF Working
<1>2. op(p) = Doing(s) BY DEF op, Doing
<1> HIDE DEF s
<1>3. Doing(s) \in Op
  <2>1. s.todo \in Seq(Op) BY <1>1 DEF Sessions
  <2> QED BY <1>1, <2>1 DEF Doing
<1>4. b = Used /\ ~Migrating(s) BY <1>1 DEF SessionOk, Migrating
<1>5. Works(s) /\ Pending(s) BY <1>1 DEF Works, Pending
<1>6. s.task.kind = "ops" BY <1>1 DEF Sessions, OpTask
<1>7. Hope(p) = Hoped(s) BY <1>2 DEF Hope, Hoped
<1>8. Tracked(p) <=> Doing(s).kind # "get" BY <1>2, <1>4 DEF Tracked, s
<1> QED BY <1>1, <1>2, <1>3, <1>4, <1>5, <1>6, <1>7, <1>8 DEF s

(* Where SQLite is up, a process that works does what its task is.         *)
LEMMA AloneIs ==
  ASSUME NEW s \in Sessions, SessionOk(s), Works(s), sqliteUp
  PROVE  /\ s.todo = s.task.entries /\ Tail(s.todo) = <<>>
         /\ Doing(s) = s.task.entries[1] /\ Doing(s).kind # "del"
<1>1. s.todo = s.task.entries /\ Alone(s.task) BY DEF SessionOk, Works
<1>2. PICK o \in Op : o.kind # "del" /\ s.task.entries = <<o>> BY <1>1 DEF Alone
<1>3. Tail(<<o>>) = <<>> /\ Head(<<o>>) = o /\ <<o>>[1] = o OBVIOUS
<1> QED BY <1>1, <1>2, <1>3 DEF Doing

LEMMA EndedOk ==
  ASSUME NEW s \in Sessions, SessionOk(s), Works(s), NEW u, u = Ended(s)
  PROVE  u \in Sessions /\ SessionOk(u) /\ u.op = NoOp /\ u.task = s.task
         /\ (sqliteUp => ~Pending(u))
<1>1. s.todo # <<>> /\ s.pc = "work" BY DEF Works
<1>2. u \in Sessions /\ Same(u, s) /\ u.todo = Tail(s.todo) /\ u.op = NoOp
  BY <1>1, EndedIs
<1>3. sqliteUp => u.todo = <<>> BY <1>2, AloneIs
<1>4. SessionOk(u) BY <1>1, <1>2, <1>3 DEF SessionOk, Same, Works, NoOp
<1> QED BY <1>1, <1>2, <1>3, <1>4 DEF Same, Pending

LEMMA FileGetQuiet ==
  ASSUME StoreSetting, StoreTyped, NEW p \in Process, FileGet(p)
  PROVE  \E u : MovesOn(p, u)
<1> DEFINE s == session[p]
           u == Ended(s)
<1>1. /\ Working(p, "file", "begin") /\ Becomes(p, u)
      /\ UNCHANGED <<config, document, lock, rows, sqliteUp, hopes>>
  BY DEF FileGet, OnlySession
<1>2. s # Idle /\ s \in Sessions /\ SessionOk(s) /\ Works(s) /\ Pending(s) /\ s.op.pc = "begin"
  BY <1>1, WorkingIs
<1>3. config \in {NoConfig, Automatic(Used)} BY DEF StoreTyped
<1>4. s.op = NoOp BY <1>2 DEF SessionOk
<1> HIDE DEF s, u
<1>5. u \in Sessions /\ SessionOk(u) /\ u.op = NoOp /\ u.task = s.task
  BY <1>2, EndedOk DEF u
<1> QED BY <1>1, <1>2, <1>3, <1>4, <1>5 DEF MovesOn, s

-----------------------------------------------------------------------------
(* The invariants.                                                         *)
OpAt(s, n) == s # Idle /\ s.op.pc = n

(* The file is what its last write left there, but for the write of the    *)
(* process that has the lock.                                              *)
FileKept ==
  ~sqliteUp =>
    /\ \A p \in Process : OpAt(session[p], "locked") \/ OpAt(session[p], "saved") => lock = p
    /\ \A p \in Process : OpAt(session[p], "locked") => session[p].op.found = document
    /\ \A p \in Process : OpAt(session[p], "saved") =>
         document[Doing(session[p]).key] = Hoped(session[p])[2]
    /\ \A k \in Key : \/ \E h \in hopes[k] : h[2] = document[k]
                      \/ \E p \in Process : OpAt(session[p], "saved") /\ Doing(session[p]).key = k

RowsOf(k) == {r \in RowId : rows[r] # NoRow /\ rows[r].key = k}
Top(k, r) == r \in RowsOf(k) /\ \A x \in RowsOf(k) : r <= x
Acked(k, v) == <<v, v>> \in hopes[k]
Touches(s) == OpAt(s, "found") \/ OpAt(s, "stored")

(* The first row that a key ever had is the one that counts.  It is never  *)
(* buried, and a write that does not reach it, as it looked for rows too   *)
(* early, has not outdone what is there.                                   *)
RowsFound(p) ==
  LET s == session[p] IN
  Touches(s) => /\ s.op.found \subseteq RowsOf(Doing(s).key)
                /\ s.op.found = {} => OpAt(s, "found") /\ Doing(s).kind = "set"
                /\ OpAt(s, "stored") => Doing(s).kind = "set"

Stores(p, k, v) ==
  OpAt(session[p], "stored") /\ Doing(session[p]).key = k /\ Doing(session[p]).value = v

FirstCounts(k) ==
  /\ RowsOf(k) = {} => <<0, Absent>> \in hopes[k]
  /\ \A r \in RowId : Top(k, r) =>
       /\ rows[r].live
       /\ Acked(k, rows[r].value) \/ \E p \in Process : Stores(p, k, rows[r].value)

NotOutdone(p) ==
  LET s == session[p] IN
  Touches(s) /\ Doing(s).kind = "set" =>
    \A r \in RowId : Top(Doing(s).key, r) /\ (OpAt(s, "found") => r \notin s.op.found)
                     => <<rows[r].value, rows[r].value>> \notin s.op.before

SqliteKept ==
  sqliteUp => /\ \A p \in Process : RowsFound(p) /\ NotOutdone(p)
              /\ \A k \in Key : FirstCounts(k)

(* The values of the requests tell them apart.                             *)
Waits(s) == s # Idle /\ Pending(s)
Brings(s) == s.task.entries[1].value
Past(h) == h[1] = 0 \/ h[1] > budget.requests
Apart(p) ==
  LET v == Brings(session[p]) IN
  /\ v \in Nat /\ v > budget.requests
  /\ \A k \in Key : \A h \in hopes[k] : h[1] # v
  /\ \A q \in Process : session[q] # Idle => \A h \in session[q].op.before : h[1] # v
  /\ \A q \in Process : Waits(session[q]) /\ Brings(session[q]) = v => p = q

Fresh ==
  sqliteUp =>
    /\ \A p \in Process : Waits(session[p]) => Apart(p)
    /\ \A k \in Key : \A h \in hopes[k] : Past(h)
    /\ \A q \in Process : session[q] # Idle => \A h \in session[q].op.before : Past(h)

StoreInv == StoreTyped /\ FileKept /\ SqliteKept /\ Fresh

LEMMA OnlyOne ==
  ASSUME StoreTyped, NEW p \in Process, NEW u, Becomes(p, u)
  PROVE  session'[p] = u /\ \A q \in Process : q # p => session'[q] = session[q]
BY DEF Becomes, StoreTyped

NoneAt(s) == \A n \in {"locked", "saved", "found", "stored"} : ~OpAt(s, n)

(* A process without an operation matters to neither.                      *)
LEMMA NoneKeeps ==
  ASSUME FileKept, SqliteKept, NEW p \in Process, NEW u,
         session'[p] = u, \A q \in Process : q # p => session'[q] = session[q],
         NoneAt(session[p]), NoneAt(u),
         UNCHANGED <<document, lock, rows, sqliteUp, hopes>>
  PROVE  FileKept' /\ SqliteKept'
<1> DEFINE s == session[p]
<1>1. \A n \in {"locked", "saved", "found", "stored"} : ~OpAt(u, n) /\ ~OpAt(s, n)
  BY DEF NoneAt
<1>2. ~Touches(u) /\ ~Touches(s) BY <1>1 DEF Touches
<1> HIDE DEF s
<1>3. FileKept' BY <1>1 DEF FileKept, s
<1>4. SqliteKept'
  <2>1. \A k : RowsOf(k)' = RowsOf(k) BY DEF RowsOf
  <2>2. \A k, r : Top(k, r)' <=> Top(k, r) BY <2>1 DEF Top
  <2>3. \A k, v : Acked(k, v)' <=> Acked(k, v) BY DEF Acked
  <2>4. \A q \in Process : \A k, v : Stores(q, k, v)' <=> Stores(q, k, v)
    BY <1>1 DEF Stores, s
  <2>5. \A q \in Process : RowsFound(q) => RowsFound(q)'
    BY <2>1, <1>2 DEF RowsFound, s
  <2>6. \A q \in Process : NotOutdone(q) => NotOutdone(q)'
    BY <2>2, <1>2 DEF NotOutdone, s
  <2>7. \A k : FirstCounts(k) => FirstCounts(k)'
    BY <2>1, <2>2, <2>3, <2>4 DEF FirstCounts
  <2> QED BY <2>5, <2>6, <2>7 DEF SqliteKept
<1> QED BY <1>3, <1>4

LEMMA QuietKeeps ==
  ASSUME StoreSetting, StoreInv, NEW p \in Process, NEW u, MovesOn(p, u),
         UNCHANGED <<daemon, mirror, command, budget>>
  PROVE  StoreInv'
<1> DEFINE s == session[p]
<1>1. StoreTyped /\ FileKept /\ SqliteKept BY DEF StoreInv
<1>2. /\ session'[p] = u /\ \A q \in Process : q # p => session'[q] = session[q]
  BY <1>1, OnlyOne DEF MovesOn
<1>3. s # Idle /\ s.op = NoOp /\ u.op = NoOp /\ u.task = s.task
      /\ (Pending(u) => Pending(s)) /\ u \in Sessions /\ u # Idle
  BY DEF MovesOn, StoreSetting
<1>4. UNCHANGED <<document, lock, rows, sqliteUp, hopes, budget>> BY DEF MovesOn
<1>5. StoreTyped'
  <2>1. document \in [Key -> Stored] /\ lock \in Process \cup {NoProcess, Gone}
        /\ rows \in [RowId -> Table \cup {NoRow}] /\ hopes \in [Key -> SUBSET (Nat \X Stored)]
    BY <1>1 DEF StoreTyped
  <2> QED BY <1>1, <2>1, SessionStep DEF MovesOn
<1>6. NoneAt(s) /\ NoneAt(u) BY <1>3 DEF NoneAt, OpAt, NoOp
<1>7. FileKept' /\ SqliteKept' BY <1>1, <1>2, <1>4, <1>6, NoneKeeps
<1> HIDE DEF s
<1>8. Fresh'
  <2>1. Fresh BY DEF StoreInv
  <2>2. \A h : Past(h)' <=> Past(h) BY <1>4 DEF Past
  <2>3. Brings(u) = Brings(s) BY <1>3 DEF Brings
  <2>4. Waits(u) => Waits(s) BY <1>3 DEF Waits
  <2>5. u.op.before = {} BY <1>3 DEF NoOp
  <2> QED BY <2>1, <2>2, <2>3, <2>4, <2>5, <1>2, <1>3, <1>4 DEF Fresh, Apart, s
<1> QED BY <1>5, <1>7, <1>8 DEF StoreInv

-----------------------------------------------------------------------------
(* The steps on the file.                                                  *)

(* What is the same for every process while SQLite is away.                *)
LEMMA NotSqlite ==
  ASSUME ~sqliteUp, UNCHANGED sqliteUp
  PROVE  SqliteKept' /\ Fresh'
BY DEF SqliteKept, Fresh

LEMMA FileIsUsed == "file" = Used => ~sqliteUp
BY DEF Used
LEMMA SqliteIsUsed == "sqlite" = Used => sqliteUp
BY DEF Used

Begins(p, n, f) == [Begun(p, n) EXCEPT !.op.found = f]

(* An operation begins: what it found, and the writes done before it.      *)
LEMMA BegunOk ==
  ASSUME StoreSetting, StoreTyped, NEW p \in Process, SessionOk(session[p]),
         Works(session[p]), session[p] # Idle, Doing(session[p]) \in Op,
         NEW f \in (SUBSET RowId) \cup [Key -> Stored], NEW n \in {"locked", "found"},
         n = "locked" => ~sqliteUp /\ Doing(session[p]).kind # "get" /\ f \in [Key -> Stored],
         n = "found" => sqliteUp /\ f \in SUBSET RowId,
         op(p) = Doing(session[p]),
         NEW u, u = Begins(p, n, f)
  PROVE  /\ u \in Sessions /\ SessionOk(u) /\ u.todo = session[p].todo
         /\ u.task = session[p].task /\ Works(u) /\ u # Idle
         /\ u.op = [pc |-> n, found |-> f, before |-> hopes[Doing(session[p]).key]]
<1> DEFINE s == session[p]
           h == hopes[Doing(s).key]
<1>1. s \in Sessions /\ h \in SUBSET (Nat \X Stored) BY DEF StoreTyped, Op
<1>2. u = BegunWith(s, n, h, f) BY DEF Begins, BegunWith, Begun
<1>3. SessionOk(s) /\ Works(s) /\ s # Idle OBVIOUS
<1>4. n = "locked" => Head(s.todo).kind # "get" BY DEF Doing
<1> HIDE DEF s, h
<1>5. u \in Sessions /\ Same(u, s) /\ u.todo = s.todo /\ u.op = [pc |-> n, found |-> f, before |-> h]
  BY <1>1, <1>2, BegunIs
<1>6. Works(u) /\ u.op.pc = n /\ u.op.found = f BY <1>3, <1>5 DEF Works, Same, StoreSetting
<1>7. SessionOk(u) BY <1>3, <1>4, <1>5, <1>6 DEF SessionOk, Same, Works
<1> QED BY <1>5, <1>6, <1>7 DEF s, h, Same, Works

LEMMA acquireLockKeeps ==
  ASSUME StoreSetting, StoreInv, NEW p \in Process, acquireLock(p),
         UNCHANGED <<daemon, mirror, command, budget>>
  PROVE  StoreInv'
<1> DEFINE s == session[p]
           u == Begins(p, "locked", document)
<1>1. StoreTyped /\ FileKept BY DEF StoreInv
<1>2. /\ Working(p, "file", "begin") /\ op(p).kind # "get" /\ lock = NoProcess
      /\ lock' = p /\ Becomes(p, u)
      /\ UNCHANGED <<config, document, rows, sqliteUp, hopes>>
  BY DEF acquireLock, Begins
<1>3. s # Idle /\ SessionOk(s) /\ Works(s) /\ Doing(s) \in Op /\ op(p) = Doing(s)
      /\ ~sqliteUp
  BY <1>1, <1>2, WorkingIs, FileIsUsed
<1>4. document \in [Key -> Stored] /\ config \in {NoConfig, Automatic(Used)}
      /\ rows \in [RowId -> Table \cup {NoRow}] /\ hopes \in [Key -> SUBSET (Nat \X Stored)]
  BY <1>1 DEF StoreTyped
<1> HIDE DEF u
<1>5. /\ u \in Sessions /\ SessionOk(u) /\ u.todo = s.todo /\ u # Idle
      /\ u.op = [pc |-> "locked", found |-> document, before |-> hopes[Doing(s).key]]
  <2>1. document \in (SUBSET RowId) \cup [Key -> Stored] BY <1>4
  <2>2. Doing(s).kind # "get" BY <1>2, <1>3
  <2> QED BY <1>1, <1>3, <1>4, <2>1, <2>2, BegunOk DEF u
<1>6. /\ session'[p] = u /\ \A q \in Process : q # p => session'[q] = session[q]
  BY <1>1, <1>2, OnlyOne
<1>7. StoreTyped' BY <1>1, <1>2, <1>3, <1>4, <1>5, SessionStep
<1>8. \A q \in Process : ~OpAt(session[q], "locked") /\ ~OpAt(session[q], "saved")
  BY <1>1, <1>2, <1>3 DEF FileKept, StoreSetting
<1>9. OpAt(u, "locked") /\ ~OpAt(u, "saved") /\ u.op.found = document BY <1>5 DEF OpAt
<1>10. FileKept'
  BY <1>1, <1>2, <1>3, <1>6, <1>8, <1>9 DEF FileKept
<1> QED BY <1>2, <1>3, <1>7, <1>10, NotSqlite DEF StoreInv

LEMMA saveKeeps ==
  ASSUME StoreSetting, StoreInv, NEW p \in Process, save(p),
         UNCHANGED <<daemon, mirror, command, budget>>
  PROVE  StoreInv'
<1> DEFINE s == session[p]
           u == Staged(s, "saved")
           k == Doing(s).key
<1>1. StoreTyped /\ FileKept BY DEF StoreInv
<1>2. /\ Working(p, "file", "locked") /\ Becomes(p, u)
      /\ UNCHANGED <<config, lock, rows, sqliteUp, hopes>>
  BY DEF save, Staged
<1>3. s # Idle /\ s \in Sessions /\ SessionOk(s) /\ Works(s) /\ Doing(s) \in Op
      /\ op(p) = Doing(s) /\ ~sqliteUp /\ s.op.pc = "locked"
  BY <1>1, <1>2, WorkingIs, FileIsUsed
<1>4. document' = [s.op.found EXCEPT ![k] = Hoped(s)[2]] BY <1>3 DEF save, Hoped
<1>5. document \in [Key -> Stored] /\ config \in {NoConfig, Automatic(Used)}
      /\ rows \in [RowId -> Table \cup {NoRow}] /\ hopes \in [Key -> SUBSET (Nat \X Stored)]
      /\ lock \in Process \cup {NoProcess, Gone}
  BY <1>1 DEF StoreTyped
<1>6. s.op.found = document /\ lock = p BY <1>1, <1>3 DEF FileKept, OpAt
<1>7. k \in Key /\ Hoped(s)[2] \in Stored BY <1>3 DEF Op, Hoped, Stored
<1>8. document' \in [Key -> Stored] /\ document'[k] = Hoped(s)[2]
      /\ \A x \in Key : x # k => document'[x] = document[x]
  BY <1>4, <1>5, <1>6, <1>7
<1>9. s.op.found \in [Key -> Stored] /\ Head(s.todo).kind # "get" BY <1>3 DEF SessionOk
<1> HIDE DEF u
<1>10. /\ u \in Sessions /\ Same(u, s) /\ u.todo = s.todo
       /\ u.op = [pc |-> "saved", found |-> s.op.found, before |-> s.op.before]
  BY <1>3, StageIs DEF u
<1>11. SessionOk(u) /\ u # Idle
  <2>1. u # Idle BY <1>10 DEF StoreSetting
  <2>2. Works(u) BY <1>3, <1>10, <2>1 DEF Works, Same
  <2> HIDE DEF s
  <2> QED BY <1>3, <1>9, <1>10, <2>1, <2>2 DEF SessionOk, Same, Works
<1>12. /\ session'[p] = u /\ \A q \in Process : q # p => session'[q] = session[q]
  BY <1>1, <1>2, OnlyOne
<1>13. StoreTyped' BY <1>1, <1>2, <1>3, <1>5, <1>8, <1>10, <1>11, SessionStep
<1>14. \A q \in Process : q # p => ~OpAt(session[q], "locked") /\ ~OpAt(session[q], "saved")
  BY <1>1, <1>3, <1>6 DEF FileKept
<1>15. OpAt(u, "saved") /\ ~OpAt(u, "locked") /\ Doing(u) = Doing(s) /\ Hoped(u) = Hoped(s)
  BY <1>10, <1>11 DEF OpAt, Doing, Hoped
<1>16. FileKept'
  <2>1. \A q \in Process : OpAt(session'[q], "locked") \/ OpAt(session'[q], "saved") => lock' = q
    BY <1>2, <1>6, <1>12, <1>14
  <2>2. \A q \in Process : ~OpAt(session'[q], "locked") BY <1>12, <1>14, <1>15
  <2>3. \A q \in Process : OpAt(session'[q], "saved") =>
          document'[Doing(session'[q]).key] = Hoped(session'[q])[2]
    BY <1>8, <1>12, <1>14, <1>15
  <2>4. \A x \in Key : \/ \E h \in hopes'[x] : h[2] = document'[x]
                       \/ \E q \in Process : OpAt(session'[q], "saved") /\ Doing(session'[q]).key = x
    <3> TAKE x \in Key
    <3>1. CASE x = k BY <3>1, <1>12, <1>15
    <3>2. CASE x # k
      <4>1. PICK q \in Process : \/ \E h \in hopes[x] : h[2] = document[x]
                                 \/ OpAt(session[q], "saved") /\ Doing(session[q]).key = x
        BY <1>1, <1>3 DEF FileKept
      <4>2. ~(OpAt(session[q], "saved") /\ Doing(session[q]).key = x)
        BY <1>3, <1>14, <3>2 DEF OpAt
      <4> QED BY <4>1, <4>2, <3>2, <1>2, <1>8
    <3> QED BY <3>1, <3>2
  <2> QED BY <2>1, <2>2, <2>3, <2>4 DEF FileKept
<1> QED BY <1>2, <1>3, <1>13, <1>16, NotSqlite DEF StoreInv

(* What a write that ends leaves of the hopes of its key.                  *)
LEMMA SettledIs ==
  ASSUME StoreTyped, NEW p \in Process, NEW b, NEW n, Working(p, b, n), NEW B,
         NEW s, s = session[p], NEW after, after = Settled(p, B)
  PROVE  /\ after \in [Key -> SUBSET (Nat \X Stored)]
         /\ Doing(s).kind = "get" => after = hopes
         /\ Doing(s).kind # "get" =>
              /\ after[Doing(s).key] = (hopes[Doing(s).key] \ B) \cup {Hoped(s)}
              /\ \A k \in Key : k # Doing(s).key => after[k] = hopes[k]
<1>1. /\ op(p) = Doing(s) /\ Doing(s) \in Op /\ Hope(p) = Hoped(s)
      /\ Tracked(p) <=> Doing(s).kind # "get"
      /\ s.task.kind = "ops"
  BY WorkingIs
<1>2. hopes \in [Key -> SUBSET (Nat \X Stored)] BY DEF StoreTyped
<1>3. Hoped(s) \in Nat \X Stored /\ Doing(s).key \in Key BY <1>1 DEF Hoped, Op, Stored
<1>4. CASE Doing(s).kind = "get" BY <1>1, <1>2, <1>4 DEF Settled
<1>5. CASE Doing(s).kind # "get"
  <2>1. after = [hopes EXCEPT ![Doing(s).key] = (hopes[Doing(s).key] \ B) \cup {Hoped(s)}]
    BY <1>1, <1>5 DEF Settled
  <2> QED BY <2>1, <1>2, <1>3, <1>5
<1> QED BY <1>4, <1>5

LEMMA UnlockKeeps ==
  ASSUME StoreSetting, StoreInv, NEW p \in Process, Unlock(p),
         UNCHANGED <<daemon, mirror, command, budget>>
  PROVE  StoreInv'
<1> DEFINE s == session[p]
           u == Ended(s)
           k == Doing(s).key
<1>1. StoreTyped /\ FileKept BY DEF StoreInv
<1>2. /\ Working(p, "file", "saved") /\ Becomes(p, u) /\ lock' = NoProcess
      /\ hopes' = Settled(p, s.op.before)
      /\ UNCHANGED <<config, document, rows, sqliteUp>>
  BY DEF Unlock, Ends
<1>3. s # Idle /\ s \in Sessions /\ SessionOk(s) /\ Works(s) /\ Doing(s) \in Op
      /\ ~sqliteUp /\ s.op.pc = "saved"
  BY <1>1, <1>2, WorkingIs, FileIsUsed
<1>4. document \in [Key -> Stored] /\ config \in {NoConfig, Automatic(Used)}
      /\ rows \in [RowId -> Table \cup {NoRow}]
  BY <1>1 DEF StoreTyped
<1>5. Doing(s).kind # "get" BY <1>3 DEF SessionOk, Doing
<1>6. /\ hopes' \in [Key -> SUBSET (Nat \X Stored)]
      /\ Hoped(s) \in hopes'[k]
      /\ \A x \in Key : x # k => hopes'[x] = hopes[x]
  BY <1>1, <1>2, <1>5, SettledIs
<1>7. document[k] = Hoped(s)[2] /\ lock = p BY <1>1, <1>3 DEF FileKept, OpAt
<1> HIDE DEF u
<1>8. u \in Sessions /\ SessionOk(u) /\ u.op = NoOp BY <1>3, EndedOk DEF u
<1>9. /\ session'[p] = u /\ \A q \in Process : q # p => session'[q] = session[q]
  BY <1>1, <1>2, OnlyOne
<1>10. StoreTyped' BY <1>1, <1>2, <1>3, <1>4, <1>6, <1>8, SessionStep
<1>11. \A q \in Process : q # p => ~OpAt(session[q], "locked") /\ ~OpAt(session[q], "saved")
  BY <1>1, <1>3, <1>7 DEF FileKept
<1>12. ~OpAt(u, "saved") /\ ~OpAt(u, "locked") BY <1>8 DEF OpAt, NoOp
<1>13. \A x \in Key : \E h \in hopes'[x] : h[2] = document'[x]
  <2> TAKE x \in Key
  <2>1. CASE x = k BY <2>1, <1>2, <1>6, <1>7
  <2>2. CASE x # k
    <3>1. \A q \in Process : ~(OpAt(session[q], "saved") /\ Doing(session[q]).key = x)
      BY <2>2, <1>11
    <3>2. \E h \in hopes[x] : h[2] = document[x] BY <3>1, <1>1, <1>3 DEF FileKept
    <3> QED BY <3>2, <2>2, <1>2, <1>6
  <2> QED BY <2>1, <2>2
<1>14. FileKept' BY <1>9, <1>11, <1>12, <1>13 DEF FileKept
<1> QED BY <1>2, <1>3, <1>10, <1>14, NotSqlite DEF StoreInv

-----------------------------------------------------------------------------
(* The steps on SQLite.                                                    *)
LEMMA NotFile ==
  ASSUME sqliteUp, UNCHANGED sqliteUp
  PROVE  FileKept'
BY DEF FileKept

(* A set of rows that is not empty has a first one.                        *)
LEMMA FirstIs ==
  ASSUME StoreSetting, NEW R \in SUBSET RowId, R # {}
  PROVE  FirstRow(R) \in R /\ \A x \in R : FirstRow(R) <= x
<1>1. R \subseteq Nat BY CoordStorageAssumption
<1>2. \E r \in R : \A x \in R : r <= x
  <2>1. \E n \in R : \A m \in R : n <= m BY <1>1, Count!LeastNatural
  <2> QED BY <2>1
<1> QED BY <1>2 DEF FirstRow

LEMMA RowsHaveTop ==
  ASSUME StoreSetting, NEW k \in Key, RowsOf(k) # {}
  PROVE  \E r \in RowId : Top(k, r)
<1>1. RowsOf(k) \in SUBSET RowId BY DEF RowsOf
<1> QED BY <1>1, FirstIs DEF Top

(* A row that is first where it was found comes first of all, or another   *)
(* has come before it.                                                     *)
LEMMA TopIsFirst ==
  ASSUME StoreSetting, NEW k \in Key, NEW R \in SUBSET RowId, R \subseteq RowsOf(k),
         NEW t \in RowId, Top(k, t), t \in R
  PROVE  FirstRow(R) = t
<1>1. FirstRow(R) \in R /\ FirstRow(R) <= t BY FirstIs
<1>2. t <= FirstRow(R) BY <1>1 DEF Top
<1>3. t \in Nat /\ FirstRow(R) \in Nat BY CoordStorageAssumption, <1>1
<1> QED BY <1>1, <1>2, <1>3

LEMMA LiveRowsAre ==
  ASSUME StoreInv, sqliteUp, StoreSetting, NEW k \in Key
  PROVE  /\ LiveRows(k) \subseteq RowsOf(k)
         /\ RowsOf(k) # {} => \E t \in RowId : Top(k, t) /\ t \in LiveRows(k)
<1>1. SqliteKept BY DEF StoreInv
<1>2. \A t \in RowId : Top(k, t) => rows[t].live BY <1>1 DEF SqliteKept, FirstCounts
<1> QED BY <1>2, RowsHaveTop DEF RowsOf, LiveRows, Top

LEMMA FreshKeeps ==
  ASSUME StoreInv, sqliteUp, UNCHANGED sqliteUp, budget'.requests = budget.requests,
         NEW p \in Process, session[p] # Idle, NEW u,
         session'[p] = u, \A q \in Process : q # p => session'[q] = session[q],
         Waits(u) => Waits(session[p]) /\ Brings(u) = Brings(session[p]),
         u # Idle => \A h \in u.op.before : \/ h \in session[p].op.before
                                            \/ \E k \in Key : h \in hopes[k],
         \A k \in Key : \A h \in hopes'[k] :
            h \in hopes[k] \/ (h[1] = Brings(session[p]) /\ Waits(session[p]) /\ ~Waits(u))
  PROVE  Fresh'
<1> DEFINE s == session[p]
<1>1. Fresh BY DEF StoreInv
<1>2. \A h : Past(h)' <=> Past(h) BY DEF Past
<1>3. \A x \in Process : Waits(session'[x]) =>
        /\ Waits(session[x]) /\ Brings(session'[x]) = Brings(session[x])
        /\ x = p => Waits(u)
  OBVIOUS
<1>4. \A q \in Process : session'[q] # Idle =>
        \A h \in session'[q].op.before : \/ session[q] # Idle /\ h \in session[q].op.before
                                         \/ \E k \in Key : h \in hopes[k]
  OBVIOUS
<1>5. \A x \in Process : Waits(session[x]) => Apart(x) BY <1>1 DEF Fresh
<1>6. ASSUME NEW x \in Process, Waits(session'[x]) PROVE Apart(x)'
  <2>1. Waits(session[x]) /\ Brings(session'[x]) = Brings(session[x]) BY <1>6, <1>3
  <2>2. Apart(x) BY <2>1, <1>5
  <2>3. \A k \in Key : \A h \in hopes'[k] : h[1] # Brings(session'[x])
    <3> TAKE k \in Key
    <3> TAKE h \in hopes'[k]
    <3>1. CASE h \in hopes[k] BY <3>1, <2>1, <2>2 DEF Apart
    <3>2. CASE h[1] = Brings(s) /\ Waits(s) /\ ~Waits(u)
      <4>1. x # p BY <3>2, <1>6
      <4> QED BY <4>1, <3>2, <2>1, <2>2 DEF Apart
    <3> QED BY <3>1, <3>2
  <2>4. \A q \in Process : session'[q] # Idle =>
          \A h \in session'[q].op.before : h[1] # Brings(session'[x])
    BY <1>4, <2>1, <2>2 DEF Apart
  <2>5. \A q \in Process : Waits(session'[q]) /\ Brings(session'[q]) = Brings(session'[x]) => x = q
    BY <1>3, <2>1, <2>2 DEF Apart
  <2> QED BY <2>1, <2>2, <2>3, <2>4, <2>5 DEF Apart
<1>7. (\A k \in Key : \A h \in hopes[k] : Past(h))
      /\ \A q \in Process : session[q] # Idle => \A h \in session[q].op.before : Past(h)
  BY <1>1 DEF Fresh
<1>8. \A k \in Key : \A h \in hopes'[k] : Past(h)
  BY <1>5, <1>7 DEF Past, Apart
<1>9. \A q \in Process : session'[q] # Idle => \A h \in session'[q].op.before : Past(h)
  BY <1>4, <1>7
<1> QED BY <1>2, <1>6, <1>8, <1>9 DEF Fresh

LEMMA findRowsKeeps ==
  ASSUME StoreSetting, StoreInv, NEW p \in Process, findRows(p),
         UNCHANGED <<daemon, mirror, command, budget>>
  PROVE  StoreInv'
<1> DEFINE s == session[p]
           k == Doing(s).key
           found == LiveRows(k)
<1>1. StoreTyped /\ SqliteKept BY DEF StoreInv
<1>2. Working(p, "sqlite", "begin") /\ UNCHANGED <<config, document, lock, rows, sqliteUp>>
  BY DEF findRows
<1>3. s # Idle /\ s \in Sessions /\ SessionOk(s) /\ Works(s) /\ Doing(s) \in Op
      /\ op(p) = Doing(s) /\ sqliteUp /\ s.op.pc = "begin"
  BY <1>1, <1>2, WorkingIs, SqliteIsUsed
<1>4. s.op = NoOp BY <1>3 DEF SessionOk
<1>5. config \in {NoConfig, Automatic(Used)} /\ hopes \in [Key -> SUBSET (Nat \X Stored)]
      /\ document \in [Key -> Stored] /\ rows \in [RowId -> Table \cup {NoRow}]
      /\ lock \in Process \cup {NoProcess, Gone}
  BY <1>1 DEF StoreTyped
<1>6. k \in Key /\ found \in SUBSET RowId BY <1>3 DEF Op, LiveRows
<1>7. CASE found = {} /\ Doing(s).kind # "set"
  <2> DEFINE u == Ended(s)
  <2>1. Becomes(p, u) /\ hopes' = Settled(p, hopes[k])
    BY <1>3, <1>7 DEF findRows
  <2>2. Doing(s).kind = "get" BY <1>3, <1>7, AloneIs DEF Op
  <2>3. hopes' = hopes BY <2>1, <2>2, <1>1, <1>2, SettledIs
  <2> HIDE DEF s, u
  <2>4. u \in Sessions /\ SessionOk(u) /\ u.op = NoOp /\ u.task = s.task /\ ~Pending(u)
    BY <1>3, EndedOk DEF u
  <2>5. MovesOn(p, u) BY <2>1, <2>3, <2>4, <1>2, <1>3, <1>4, <1>5 DEF MovesOn, s
  <2> QED BY <2>5, QuietKeeps
<1>8. CASE ~(found = {} /\ Doing(s).kind # "set")
  <2> DEFINE u == Begins(p, "found", found)
  <2>1. Becomes(p, u) /\ hopes' = hopes BY <1>3, <1>8 DEF findRows, Begins
  <2> HIDE DEF u, found
  <2>2. /\ u \in Sessions /\ SessionOk(u) /\ u.todo = s.todo /\ u.task = s.task /\ u # Idle
        /\ u.op = [pc |-> "found", found |-> found, before |-> hopes[k]]
    BY <1>1, <1>3, <1>6, BegunOk DEF u
  <2>3. /\ session'[p] = u /\ \A q \in Process : q # p => session'[q] = session[q]
    BY <1>1, <2>1, OnlyOne
  <2>4. StoreTyped' BY <1>1, <1>2, <1>3, <1>5, <2>1, <2>2, SessionStep
  <2>5. ~OpAt(s, "stored") /\ ~OpAt(u, "stored") /\ OpAt(u, "found") /\ Doing(u) = Doing(s)
        /\ u.op.found = found /\ u.op.before = hopes[k] /\ u.op.pc = "found"
    BY <1>3, <2>2 DEF OpAt, Doing
  <2>6. SqliteKept'
    <3>1. \A x : RowsOf(x)' = RowsOf(x) BY <1>2 DEF RowsOf
    <3>2. \A x, r : Top(x, r)' <=> Top(x, r) BY <3>1 DEF Top
    <3>3. \A x, v : Acked(x, v)' <=> Acked(x, v) BY <2>1 DEF Acked
    <3>4. found \subseteq RowsOf(k) BY <1>3, <1>6, LiveRowsAre DEF found
    <3>5. \A r \in RowId : Top(k, r) => r \in found
      <4>1. \A r \in RowId : Top(k, r) => rows[r].live
        BY <1>1, <1>3, <1>6 DEF SqliteKept, FirstCounts
      <4> QED BY <4>1 DEF Top, RowsOf, found, LiveRows
    <3>6. \A q \in Process : \A x, v : Stores(q, x, v)' <=> Stores(q, x, v)
      BY <2>3, <2>5 DEF Stores, s
    <3>7. \A q \in Process : RowsFound(q)'
      <4> TAKE q \in Process
      <4>1. CASE q = p BY <4>1, <1>8, <2>3, <2>5, <3>1, <3>4 DEF RowsFound
      <4>2. CASE q # p BY <4>2, <1>1, <1>3, <2>3, <3>1 DEF SqliteKept, RowsFound
      <4> QED BY <4>1, <4>2
    <3>8. \A q \in Process : NotOutdone(q)'
      <4> TAKE q \in Process
      <4>1. CASE q = p BY <4>1, <1>2, <2>3, <2>5, <3>2, <3>5 DEF NotOutdone
      <4>2. CASE q # p BY <4>2, <1>1, <1>2, <1>3, <2>3, <3>2 DEF SqliteKept, NotOutdone
      <4> QED BY <4>1, <4>2
    <3>9. \A x \in Key : FirstCounts(x)'
      BY <1>1, <1>2, <1>3, <2>1, <3>1, <3>2, <3>3, <3>6 DEF SqliteKept, FirstCounts
    <3> QED BY <3>7, <3>8, <3>9 DEF SqliteKept
  <2>7. Fresh'
    <3>1. Pending(s) /\ Waits(s) /\ Brings(u) = Brings(s)
      BY <1>2, <1>1, <1>3, <2>2, WorkingIs DEF Waits, Brings
    <3> QED BY <1>2, <1>3, <1>6, <2>1, <2>3, <2>5, <3>1, FreshKeeps
  <2> QED BY <1>2, <1>3, <2>4, <2>6, <2>7, NotFile DEF StoreInv
<1> QED BY <1>7, <1>8

RowWritten(k, v, r) == [rows EXCEPT ![r] = Row(k, v)]

(* A row is written.                                                       *)
LEMMA WrittenRow ==
  ASSUME StoreSetting, StoreTyped, NEW k \in Key, NEW v \in Nat, NEW r \in RowId,
         rows[r] = NoRow \/ r \in RowsOf(k),
         rows' = RowWritten(k, v, r)
  PROVE  /\ rows' \in [RowId -> Table \cup {NoRow}]
         /\ rows'[r].key = k /\ rows'[r].value = v /\ rows'[r].live
         /\ \A x \in RowId : x # r => rows'[x] = rows[x]
         /\ \A x : RowsOf(x)' = IF x = k THEN RowsOf(k) \cup {r} ELSE RowsOf(x)
         /\ \A x, t : Top(x, t)' => /\ t \in RowId
                                    /\ t = r => x = k
                                    /\ t # r => Top(x, t)
<1>1. rows \in [RowId -> Table \cup {NoRow}] BY DEF StoreTyped
<1>2. Row(k, v) \in Table /\ Row(k, v) # NoRow
  <2>1. Row(k, v) \in Table BY DEF Row, Table
  <2> QED BY <2>1 DEF StoreSetting
<1>3. Row(k, v).key = k /\ Row(k, v).value = v /\ Row(k, v).live
  BY DEF Row
<1>4. rows' \in [RowId -> Table \cup {NoRow}] /\ rows'[r] = Row(k, v)
      /\ \A x \in RowId : x # r => rows'[x] = rows[x]
  BY <1>1, <1>2 DEF RowWritten
<1>5. \A x : RowsOf(x)' = IF x = k THEN RowsOf(k) \cup {r} ELSE RowsOf(x)
  BY <1>2, <1>3, <1>4 DEF RowsOf
<1>6. \A x, t : Top(x, t)' => t \in RowsOf(x)' /\ \A y \in RowsOf(x)' : t <= y
  BY DEF Top
<1>7. \A x, t : Top(x, t)' => /\ t \in RowId
                              /\ t = r => x = k
                              /\ t # r => Top(x, t)
  <2> SUFFICES ASSUME NEW x, NEW t, Top(x, t)'
               PROVE  t \in RowId /\ (t = r => x = k) /\ (t # r => Top(x, t))
    OBVIOUS
  <2>1. t \in RowsOf(x)' /\ \A y \in RowsOf(x)' : t <= y BY <1>6
  <2>2. RowsOf(x) \subseteq RowsOf(x)' BY <1>5
  <2>3. t # r => t \in RowsOf(x) BY <1>5, <2>1
  <2>4. t \in RowId BY <2>1 DEF RowsOf
  <2>5. t = r => x = k BY <1>3, <1>4, <2>1 DEF RowsOf
  <2> QED BY <2>1, <2>2, <2>3, <2>4, <2>5 DEF Top
<1> QED BY <1>3, <1>4, <1>5, <1>7

(* A write or a read that found rows, of which the first of all is none or *)
(* the first.                                                              *)
LEMMA FoundRows ==
  ASSUME StoreSetting, StoreInv, sqliteUp, NEW p \in Process, Touches(session[p]),
         NEW s, s = session[p], Doing(s) \in Op
  PROVE  /\ s.op.found \in SUBSET RowId /\ s.op.found \subseteq RowsOf(Doing(s).key)
         /\ s.op.found # {} =>
              /\ FirstRow(s.op.found) \in s.op.found
              /\ \A t \in RowId : Top(Doing(s).key, t) /\ t \in s.op.found
                   => t = FirstRow(s.op.found)
<1>1. StoreTyped /\ SqliteKept BY DEF StoreInv
<1>2. Doing(s).key \in Key BY DEF Op
<1>3. s # Idle /\ s.op.pc # "begin" BY DEF Touches, OpAt
<1>4. s.op.found \in SUBSET RowId BY <1>1, <1>3 DEF StoreTyped, SessionOk
<1>5. s.op.found \subseteq RowsOf(Doing(s).key) BY <1>1 DEF SqliteKept, RowsFound
<1> QED BY <1>2, <1>4, <1>5, FirstIs, TopIsFirst

LEMMA SqliteSetKeeps ==
  ASSUME StoreSetting, StoreInv, NEW p \in Process, SqliteSet(p),
         UNCHANGED <<daemon, mirror, command, budget>>
  PROVE  StoreInv'
<1> DEFINE s == session[p]
           k == Doing(s).key
           v == Doing(s).value
           found == s.op.found
<1>1. StoreTyped /\ SqliteKept /\ Fresh BY DEF StoreInv
<1>2. Working(p, "sqlite", "found") /\ UNCHANGED <<config, document, lock, sqliteUp>>
  BY DEF SqliteSet
<1>3. s # Idle /\ s \in Sessions /\ SessionOk(s) /\ Works(s) /\ Doing(s) \in Op
      /\ op(p) = Doing(s) /\ sqliteUp /\ s.op.pc = "found" /\ Pending(s)
  BY <1>1, <1>2, WorkingIs, SqliteIsUsed
<1>4. Doing(s).kind = "set" BY <1>3 DEF SqliteSet
<1>5. k \in Key /\ v \in Nat /\ v = Brings(s) /\ Hoped(s) = <<v, v>>
  BY <1>3, <1>4, AloneIs DEF Op, Brings, Hoped
<1>6. OpAt(s, "found") /\ Touches(s) /\ Waits(s) /\ ~OpAt(s, "stored")
  BY <1>3 DEF OpAt, Touches, Waits
<1>7. /\ found \in SUBSET RowId /\ found \subseteq RowsOf(k)
      /\ found # {} => /\ FirstRow(found) \in found
                       /\ \A t \in RowId : Top(k, t) /\ t \in found => t = FirstRow(found)
  BY <1>3, <1>6, FoundRows
<1>8. PICK r \in (IF found = {} THEN NewRows(p) ELSE {FirstRow(found)}) :
        rows' = RowWritten(k, v, r)
  BY <1>3 DEF SqliteSet, RowWritten
<1>9. r \in RowId /\ (rows[r] = NoRow \/ r \in RowsOf(k))
  BY <1>7, <1>8 DEF NewRows, Unused
<1>10. \A t \in RowId : Top(k, t) /\ t # r => t \notin found BY <1>7, <1>8
<1>11. /\ rows' \in [RowId -> Table \cup {NoRow}]
       /\ rows'[r].key = k /\ rows'[r].value = v /\ rows'[r].live
       /\ \A x \in RowId : x # r => rows'[x] = rows[x]
       /\ \A x : RowsOf(x)' = IF x = k THEN RowsOf(k) \cup {r} ELSE RowsOf(x)
       /\ \A x, t : Top(x, t)' => /\ t \in RowId
                                  /\ t = r => x = k
                                  /\ t # r => Top(x, t)
  BY <1>1, <1>5, <1>8, <1>9, WrittenRow
<1>12. config \in {NoConfig, Automatic(Used)} /\ hopes \in [Key -> SUBSET (Nat \X Stored)]
       /\ document \in [Key -> Stored] /\ lock \in Process \cup {NoProcess, Gone}
  BY <1>1 DEF StoreTyped
(* After it, whether it ends here or has rows to bury.                     *)
<1> DEFINE After(u) ==
      /\ Becomes(p, u) /\ u \in Sessions /\ SessionOk(u)
      /\ hopes' \in [Key -> SUBSET (Nat \X Stored)]
      /\ \A x \in Key : x # k => hopes'[x] = hopes[x]
      /\ \/ /\ OpAt(u, "stored") /\ ~OpAt(u, "found") /\ Doing(u) = Doing(s) /\ u.task = s.task
            /\ found # {} /\ u.op.found = found /\ u.op.before = s.op.before
            /\ hopes' = hopes
         \/ /\ ~Touches(u) /\ ~Waits(u) /\ u.op.before = {}
            /\ hopes'[k] = (hopes[k] \ s.op.before) \cup {<<v, v>>}
<1>13. \E u : After(u)
  <2>1. CASE Cardinality(found) > 1
    <3> DEFINE u == Staged(s, "stored")
    <3>1. Becomes(p, u) /\ hopes' = hopes BY <2>1 DEF SqliteSet, Staged
    <3>2. found # {} BY <2>1, FS_EmptySet
    <3> HIDE DEF u, s
    <3>3. /\ u \in Sessions /\ Same(u, s) /\ u.todo = s.todo
          /\ u.op = [pc |-> "stored", found |-> found, before |-> s.op.before]
      BY <1>3, StageIs DEF u
    <3>4. Works(u) /\ u # Idle BY <1>3, <3>3 DEF Works, Same, StoreSetting
    <3>5. SessionOk(u) BY <1>3, <1>7, <3>3, <3>4 DEF SessionOk, Same, Works
    <3>6. OpAt(u, "stored") /\ ~OpAt(u, "found") /\ Doing(u) = Doing(s)
      BY <3>3, <3>4 DEF OpAt, Doing
    <3>7. After(u) BY <1>12, <3>1, <3>2, <3>3, <3>5, <3>6 DEF s, Same
    <3> QED BY <3>7
  <2>2. CASE ~(Cardinality(found) > 1)
    <3> DEFINE u == Ended(s)
    <3>1. Becomes(p, u) /\ hopes' = Settled(p, s.op.before)
      BY <2>2 DEF SqliteSet, Ends
    <3>2. /\ hopes' \in [Key -> SUBSET (Nat \X Stored)]
          /\ hopes'[k] = (hopes[k] \ s.op.before) \cup {<<v, v>>}
          /\ \A x \in Key : x # k => hopes'[x] = hopes[x]
      BY <1>1, <1>2, <1>4, <1>5, <3>1, SettledIs
    <3> HIDE DEF u, s
    <3>3. u \in Sessions /\ SessionOk(u) /\ u.op = NoOp /\ ~Pending(u)
      BY <1>3, EndedOk DEF u
    <3>4. ~Touches(u) /\ ~Waits(u) /\ u.op.before = {}
      BY <3>3 DEF Touches, OpAt, Waits, NoOp
    <3>5. After(u) BY <3>1, <3>2, <3>3, <3>4 DEF s
    <3> QED BY <3>5
  <2> QED BY <2>1, <2>2
<1>14. PICK u : After(u) BY <1>13
<1>15. /\ session'[p] = u /\ \A q \in Process : q # p => session'[q] = session[q]
  BY <1>1, <1>14, OnlyOne
<1>16. StoreTyped' BY <1>1, <1>2, <1>3, <1>11, <1>12, <1>14, SessionStep
<1>17. Fresh'
  <2>1. Waits(u) => Waits(s) /\ Brings(u) = Brings(s) BY <1>6, <1>14 DEF Touches, Brings
  <2>2. \A h \in u.op.before : h \in s.op.before BY <1>14
  <2>3. \A x \in Key : \A h \in hopes'[x] : h \in hopes[x] \/ (h[1] = Brings(s) /\ ~Waits(u))
    BY <1>5, <1>14
  <2> QED BY <1>2, <1>3, <1>6, <1>15, <2>1, <2>2, <2>3, FreshKeeps
<1> HIDE DEF found, After
<1>18. \A h \in s.op.before : h[1] # v
  BY <1>1, <1>3, <1>5, <1>6 DEF Fresh, Apart
<1>19. \A q \in Process : session[q] # Idle => <<v, v>> \notin session[q].op.before
  BY <1>1, <1>3, <1>5, <1>6 DEF Fresh, Apart
(* What the first row of the key holds, where it is another one.           *)
<1>20. \A t \in RowId : Top(k, t) /\ t # r =>
         <<rows[t].value, rows[t].value>> \notin s.op.before
  BY <1>1, <1>3, <1>4, <1>6, <1>10 DEF SqliteKept, NotOutdone, found
<1>21. \A q \in Process : RowsFound(q)'
  <2> TAKE q \in Process
  <2>1. \A x : RowsOf(x) \subseteq RowsOf(x)' BY <1>11
  <2>2. CASE q = p
    <3>1. \A x : x = k => found \subseteq RowsOf(x)' BY <2>1, <1>7
    <3> QED BY <3>1, <2>2, <1>4, <1>14, <1>15 DEF After, RowsFound, Touches
  <2>3. CASE q # p
    <3>1. RowsFound(q) BY <1>1, <1>3 DEF SqliteKept
    <3> QED BY <3>1, <2>1, <2>3, <1>15 DEF RowsFound
  <2> QED BY <2>2, <2>3
<1>22. \A q \in Process : NotOutdone(q)'
  <2> SUFFICES ASSUME NEW q \in Process, (Touches(session[q]) /\ Doing(session[q]).kind = "set")',
                      NEW t \in RowId, Top(Doing(session[q]).key, t)',
                      (OpAt(session[q], "found") => t \notin session[q].op.found)'
               PROVE  <<rows'[t].value, rows'[t].value>> \notin session'[q].op.before
    BY DEF NotOutdone
  <2> DEFINE key == Doing(session[q]).key
  <2>1. CASE q = p
    <3>1. OpAt(u, "stored") /\ Doing(u) = Doing(s) /\ u.op.before = s.op.before
      BY <2>1, <1>14, <1>15 DEF After
    <3>2. Top(k, t)' BY <3>1, <2>1, <1>15
    <3>3. CASE t = r BY <3>1, <3>3, <2>1, <1>11, <1>15, <1>3, <1>19
    <3>4. CASE t # r BY <3>1, <3>2, <3>4, <2>1, <1>11, <1>15, <1>20
    <3> QED BY <3>3, <3>4
  <2>2. CASE q # p
    <3>1. session'[q] = session[q] BY <2>2, <1>15
    <3>2. CASE t = r
      <4>1. session[q] # Idle BY <3>1 DEF Touches, OpAt
      <4> QED BY <4>1, <3>1, <3>2, <1>11, <1>19
    <3>3. CASE t # r
      <4>1. NotOutdone(q) BY <1>1, <1>3 DEF SqliteKept
      <4>2. Top(key, t)' BY <3>1
      <4>3. Top(key, t) BY <4>2, <3>1, <3>3, <1>11
      <4> QED BY <4>1, <4>3, <3>1, <3>3, <1>11 DEF NotOutdone
    <3> QED BY <3>2, <3>3
  <2> QED BY <2>1, <2>2
<1>23. \A x \in Key : FirstCounts(x)'
  <2> TAKE x \in Key
  <2>1. FirstCounts(x) BY <1>1, <1>3 DEF SqliteKept
  <2>2. RowsOf(x)' = {} => <<0, Absent>> \in hopes'[x]
    BY <2>1, <1>11, <1>14 DEF FirstCounts, After
  <2>3. \A t \in RowId : Top(x, t)' => rows'[t].live
    BY <2>1, <1>11 DEF FirstCounts
  <2>4. ASSUME NEW t \in RowId, Top(x, t)'
        PROVE  Acked(x, rows[t].value)' \/ \E q \in Process : Stores(q, x, rows[t].value)'
    <3>1. CASE t = r
      <4>1. x = k /\ rows'[t].value = v BY <2>4, <3>1, <1>11
      <4>2. CASE OpAt(u, "stored")
        <5>1. Stores(p, x, rows[t].value)'
          BY <4>1, <4>2, <1>14, <1>15 DEF Stores, After, Touches
        <5> QED BY <5>1
      <4>3. CASE ~OpAt(u, "stored") BY <4>1, <4>3, <1>14 DEF Acked, After
      <4> QED BY <4>2, <4>3
    <3>2. CASE t # r
      <4>1. Top(x, t) /\ rows'[t] = rows[t] BY <2>4, <3>2, <1>11
      <4>2. CASE \E q \in Process : Stores(q, x, rows[t].value)
        <5>1. PICK q \in Process : Stores(q, x, rows[t].value) BY <4>2
        <5>2. q # p BY <5>1, <1>6 DEF Stores
        <5>3. Stores(q, x, rows[t].value)' BY <5>1, <5>2, <4>1, <1>15 DEF Stores
        <5> QED BY <5>3
      <4>3. CASE Acked(x, rows[t].value)
        <5>1. CASE x # k BY <5>1, <4>1, <4>3, <1>14 DEF Acked, After
        <5>2. CASE x = k
          <6>1. <<rows[t].value, rows[t].value>> \notin s.op.before BY <5>2, <4>1, <3>2, <1>20
          <6> QED BY <6>1, <5>2, <4>1, <4>3, <1>14 DEF Acked, After
        <5> QED BY <5>1, <5>2
      <4> QED BY <2>1, <4>1, <4>2, <4>3 DEF FirstCounts
    <3> QED BY <3>1, <3>2
  <2> QED BY <2>2, <2>3, <2>4 DEF FirstCounts
<1> QED BY <1>2, <1>3, <1>16, <1>17, <1>21, <1>22, <1>23, NotFile DEF StoreInv, SqliteKept

(* Rows other than the first are buried.                                   *)
LEMMA BuriedRows ==
  ASSUME StoreSetting, StoreTyped, NEW R \in SUBSET RowId, \A r \in R : rows[r] # NoRow,
         rows' = Bury(R)
  PROVE  /\ rows' \in [RowId -> Table \cup {NoRow}]
         /\ \A r \in RowId : r \notin R => rows'[r] = rows[r]
         /\ \A x : RowsOf(x)' = RowsOf(x)
         /\ \A x, t : Top(x, t)' <=> Top(x, t)
<1>1. rows \in [RowId -> Table \cup {NoRow}] BY DEF StoreTyped
<1> DEFINE dead(r) == [rows[r] EXCEPT !.live = FALSE]
<1>2. \A r \in RowId : r \notin R => rows'[r] = rows[r] BY DEF Bury
<1>3. \A r \in R : rows'[r] = dead(r) BY DEF Bury
<1>4. \A r \in R : dead(r) \in Table /\ dead(r).key = rows[r].key
  <2> TAKE r \in R
  <2>1. rows[r] \in Table BY <1>1
  <2> QED BY <2>1 DEF Table
<1>5. \A r \in R : rows'[r] # NoRow BY <1>3, <1>4 DEF StoreSetting
<1>6. rows' \in [RowId -> Table \cup {NoRow}]
  <2>1. \A r \in RowId : rows'[r] \in Table \cup {NoRow} BY <1>1, <1>2, <1>3, <1>4
  <2> HIDE DEF dead
  <2> QED BY <2>1 DEF Bury
<1> HIDE DEF dead
<1>7. \A x : RowsOf(x)' = RowsOf(x)
  BY <1>2, <1>3, <1>4, <1>5 DEF RowsOf
<1>8. \A x, t : Top(x, t)' <=> Top(x, t) BY <1>7 DEF Top
<1> QED BY <1>2, <1>6, <1>7, <1>8

LEMMA deleteDuplicateRowsKeeps ==
  ASSUME StoreSetting, StoreInv, NEW p \in Process, deleteDuplicateRows(p),
         UNCHANGED <<daemon, mirror, command, budget>>
  PROVE  StoreInv'
<1> DEFINE s == session[p]
           k == Doing(s).key
           v == Doing(s).value
           found == s.op.found
           others == found \ {FirstRow(found)}
           u == Ended(s)
<1>1. StoreTyped /\ SqliteKept /\ Fresh BY DEF StoreInv
<1>2. /\ Becomes(p, u) /\ hopes' = Settled(p, s.op.before)
      /\ rows' = Bury(others) /\ UNCHANGED <<config, document, lock, sqliteUp>>
  BY DEF deleteDuplicateRows, Ends
<1>3. PICK n \in {"found", "stored"} :
        Working(p, "sqlite", n) /\ (n = "found" => op(p).kind = "get")
  BY DEF deleteDuplicateRows
<1>4. s # Idle /\ s \in Sessions /\ SessionOk(s) /\ Works(s) /\ Doing(s) \in Op
      /\ op(p) = Doing(s) /\ sqliteUp /\ s.op.pc = n /\ Pending(s)
  BY <1>1, <1>3, WorkingIs, SqliteIsUsed
<1>5. Touches(s) /\ Waits(s) /\ (OpAt(s, "stored") <=> n = "stored")
  BY <1>4 DEF OpAt, Touches, Waits
<1>6. RowsFound(p) /\ NotOutdone(p) BY <1>1, <1>4 DEF SqliteKept
<1>7. found # {} /\ (n = "found" => Doing(s).kind = "get") /\ (n = "stored" => Doing(s).kind = "set")
  BY <1>3, <1>4, <1>5, <1>6 DEF RowsFound, OpAt
<1>8. k \in Key /\ v \in Nat /\ v = Brings(s) /\ (n = "stored" => Hoped(s) = <<v, v>>)
  BY <1>4, <1>7, AloneIs DEF Op, Brings, Hoped
<1>9. /\ found \in SUBSET RowId /\ found \subseteq RowsOf(k)
      /\ FirstRow(found) \in found
      /\ \A t \in RowId : Top(k, t) /\ t \in found => t = FirstRow(found)
  BY <1>4, <1>5, <1>7, FoundRows
<1>10. others \in SUBSET RowId /\ others \subseteq RowsOf(k) /\ \A r \in others : rows[r] # NoRow
  BY <1>9 DEF RowsOf
<1>11. \A x, t : Top(x, t) => t \notin others
  BY <1>9, <1>10 DEF Top, RowsOf
<1>12. /\ rows' \in [RowId -> Table \cup {NoRow}]
       /\ \A r \in RowId : r \notin others => rows'[r] = rows[r]
       /\ \A x : RowsOf(x)' = RowsOf(x)
       /\ \A x, t : Top(x, t)' <=> Top(x, t)
  BY <1>1, <1>2, <1>10, BuriedRows
<1>13. \A x, t : Top(x, t) => rows'[t] = rows[t] BY <1>11, <1>12 DEF Top, RowsOf
<1>14. /\ hopes' \in [Key -> SUBSET (Nat \X Stored)]
       /\ n = "found" => hopes' = hopes
       /\ n = "stored" => hopes'[k] = (hopes[k] \ s.op.before) \cup {<<v, v>>}
       /\ \A x \in Key : x # k => hopes'[x] = hopes[x]
  BY <1>1, <1>2, <1>3, <1>7, <1>8, SettledIs
<1>15. config \in {NoConfig, Automatic(Used)}
       /\ document \in [Key -> Stored] /\ lock \in Process \cup {NoProcess, Gone}
  BY <1>1 DEF StoreTyped
<1> HIDE DEF u, others
<1>16. u \in Sessions /\ SessionOk(u) /\ u.op = NoOp /\ ~Pending(u)
  BY <1>4, EndedOk DEF u
<1>17. ~Touches(u) /\ ~Waits(u) /\ u.op.before = {}
  BY <1>16 DEF Touches, OpAt, Waits, NoOp
<1>18. /\ session'[p] = u /\ \A q \in Process : q # p => session'[q] = session[q]
  BY <1>1, <1>2, OnlyOne
<1>19. StoreTyped' BY <1>1, <1>2, <1>4, <1>12, <1>14, <1>15, <1>16, SessionStep
<1>20. Fresh'
  <2>1. \A x \in Key : \A h \in hopes'[x] : h \in hopes[x] \/ (h[1] = Brings(s) /\ ~Waits(u))
    BY <1>8, <1>14, <1>17
  <2> QED BY <1>2, <1>4, <1>5, <1>17, <1>18, <2>1, FreshKeeps
<1>21. \A q \in Process : RowsFound(q)'
  <2> TAKE q \in Process
  <2>1. CASE q = p BY <2>1, <1>17, <1>18 DEF RowsFound
  <2>2. CASE q # p
    <3>1. RowsFound(q) BY <1>1, <1>4 DEF SqliteKept
    <3> QED BY <3>1, <2>2, <1>12, <1>18 DEF RowsFound
  <2> QED BY <2>1, <2>2
<1>22. \A q \in Process : NotOutdone(q)'
  <2> TAKE q \in Process
  <2>1. CASE q = p BY <2>1, <1>17, <1>18 DEF NotOutdone
  <2>2. CASE q # p
    <3>1. NotOutdone(q) BY <1>1, <1>4 DEF SqliteKept
    <3> QED BY <3>1, <2>2, <1>12, <1>13, <1>18 DEF NotOutdone
  <2> QED BY <2>1, <2>2
<1>23. \A x \in Key : FirstCounts(x)'
  <2> TAKE x \in Key
  <2>1. FirstCounts(x) BY <1>1, <1>4 DEF SqliteKept
  <2>2. RowsOf(x)' = {} => <<0, Absent>> \in hopes'[x]
    <3>1. RowsOf(x)' = {} => x # k BY <1>9, <1>12
    <3> QED BY <3>1, <2>1, <1>12, <1>14 DEF FirstCounts
  <2>3. \A t \in RowId : Top(x, t)' => rows'[t].live
    BY <2>1, <1>12, <1>13 DEF FirstCounts
  <2>4. ASSUME NEW t \in RowId, Top(x, t)'
        PROVE  Acked(x, rows[t].value)' \/ \E q \in Process : Stores(q, x, rows[t].value)'
    <3>1. Top(x, t) /\ rows'[t] = rows[t] BY <2>4, <1>12, <1>13
    <3>2. CASE \E q \in Process : Stores(q, x, rows[t].value)
      <4>1. PICK q \in Process : Stores(q, x, rows[t].value) BY <3>2
      <4>2. CASE q # p
        <5>1. Stores(q, x, rows[t].value)' BY <4>1, <4>2, <3>1, <1>18 DEF Stores
        <5> QED BY <5>1
      <4>3. CASE q = p BY <4>1, <4>3, <3>1, <1>5, <1>14 DEF Stores, Acked
      <4> QED BY <4>2, <4>3
    <3>3. CASE Acked(x, rows[t].value)
      <4>1. CASE x # k \/ n = "found" BY <4>1, <3>1, <3>3, <1>14 DEF Acked
      <4>2. CASE x = k /\ n = "stored"
        <5>1. <<rows[t].value, rows[t].value>> \notin s.op.before
          BY <4>2, <3>1, <1>4, <1>5, <1>6, <1>7 DEF NotOutdone, OpAt
        <5> QED BY <5>1, <4>2, <3>1, <3>3, <1>14 DEF Acked
      <4> QED BY <4>1, <4>2
    <3> QED BY <2>1, <3>1, <3>2, <3>3 DEF FirstCounts
  <2> QED BY <2>2, <2>3, <2>4 DEF FirstCounts
<1> QED BY <1>2, <1>4, <1>19, <1>20, <1>21, <1>22, <1>23, NotFile DEF StoreInv, SqliteKept

LEMMA StepKeeps ==
  ASSUME StoreSetting, StoreInv, NEW p \in Process, WithStore(Step(p))
  PROVE  StoreInv'
<1>1. StoreTyped BY DEF StoreInv
<1>2. Step(p) /\ UNCHANGED <<daemon, mirror, command, budget>>
  BY DEF WithStore, runtimeVars
<1>3. CASE \E u : MovesOn(p, u) BY <1>2, <1>3, QuietKeeps
<1>4. CASE loadStorageConfig(p) BY <1>1, <1>3, <1>4, LoadQuiet
<1>5. CASE initializeAutoStorage(p) BY <1>1, <1>3, <1>5, InitializeQuiet
<1>6. CASE EmptyConfig(p) BY <1>1, <1>3, <1>6, EmptyQuiet
<1>7. CASE WriteConfig(p) BY <1>1, <1>3, <1>7, WriteQuiet
<1>8. CASE maybePromoteAutoFileStore(p) BY <1>1, <1>3, <1>8, PromoteQuiet
<1>9. CASE openHandle(p) BY <1>1, <1>3, <1>9, OpenQuiet
<1>10. CASE Use(p) BY <1>1, <1>3, <1>10, UseQuiet
<1>11. ~SurveyStore(p)
  <2>1. SurveyStore(p) => session[p] \in Sessions /\ session[p].pc = "survey"
    BY <1>1, NoSession DEF SurveyStore
  <2>2. \A s \in Sessions : s.pc # "survey" BY DEF Sessions
  <2> QED BY <2>1, <2>2
<1>12. CASE EndWork(p) BY <1>1, <1>3, <1>12, EndWorkQuiet
<1>13. CASE FileGet(p) BY <1>1, <1>3, <1>13, FileGetQuiet
<1>14. CASE acquireLock(p) BY <1>2, <1>14, acquireLockKeeps
<1>15. CASE save(p) BY <1>2, <1>15, saveKeeps
<1>16. CASE Unlock(p) BY <1>2, <1>16, UnlockKeeps
<1>17. CASE findRows(p) BY <1>2, <1>17, findRowsKeeps
<1>18. CASE SqliteSet(p) BY <1>2, <1>18, SqliteSetKeeps
<1>19. CASE deleteDuplicateRows(p) BY <1>2, <1>19, deleteDuplicateRowsKeeps
<1>20. ~SqliteDel(p)
  <2> SUFFICES ASSUME SqliteDel(p) PROVE FALSE OBVIOUS
  <2>1. Working(p, "sqlite", "found") /\ op(p).kind = "del" BY DEF SqliteDel
  <2> QED BY <1>1, <2>1, WorkingIs, AloneIs, SqliteIsUsed
<1> QED
  BY <1>2, <1>4, <1>5, <1>6, <1>7, <1>8, <1>9, <1>10, <1>11, <1>12, <1>13, <1>14,
     <1>15, <1>16, <1>17, <1>18, <1>19, <1>20 DEF Step

-----------------------------------------------------------------------------
(* Commands begin, end and die.                                            *)

LEMMA CommandsKeep ==
  ASSUME StoreSetting, StoreTyped, NEW p \in Cli, NEW u \in Sessions \cup {Idle}, NEW c,
         Becomes(p, u), Goes(p, c), u # Idle => SessionOk(u),
         \/ c = Idle /\ u = Idle
         \/ \E ask \in OpAsk : c = Command(ask, "provision", "none"),
         UNCHANGED <<config, document, rows, sqliteUp, daemon>>,
         lock' \in Process \cup {NoProcess, Gone},
         hopes' \in [Key -> SUBSET (Nat \X Stored)],
         budget' \in WriterBudgets, budget'.asks = budget.asks
  PROVE  /\ StoreTyped'
         /\ session'[p] = u /\ \A q \in Process : q # p => session'[q] = session[q]
<1>1. p \in Process BY CoordRuntimeAssumption
<1>2. session'[p] = u /\ \A q \in Process : q # p => session'[q] = session[q]
  BY <1>1, OnlyOne
<1>3. session' \in [Process -> Sessions \cup {Idle}] BY DEF Becomes, StoreTyped
<1>4. command' = [command EXCEPT ![p] = c] /\ DOMAIN command = Cli
  BY DEF Goes, StoreTyped
<1>5. DOMAIN command' = Cli /\ \A q \in Cli : command'[q] = IF q = p THEN c ELSE command[q]
  BY <1>4
<1>6. \A q \in Cli : \/ command'[q] = Idle /\ session'[q] = Idle
                     \/ \E ask \in OpAsk : command'[q] = Command(ask, "provision", "none")
  <2> TAKE q \in Cli
  <2>1. CASE q = p BY <2>1, <1>2, <1>5
  <2>2. CASE q # p BY CoordRuntimeAssumption, <2>2, <1>2, <1>5 DEF StoreTyped
  <2> QED BY <2>1, <2>2
<1>7. \A q \in Process \ Cli : session'[q] = Idle BY <1>2 DEF StoreTyped
<1>8. Used' = Used BY DEF Used
<1>9. \A q \in Process : session'[q] # Idle => SessionOk(session[q])'
  <2> TAKE q \in Process
  <2>1. session'[q] # Idle => SessionOk(session'[q]) BY <1>2 DEF StoreTyped
  <2>2. SessionOk(session[q])' <=> SessionOk(session'[q]) BY <1>8 DEF SessionOk
  <2> QED BY <2>1, <2>2
<1>10. config' \in {NoConfig, Automatic(Used)} BY DEF StoreTyped
<1> QED BY <1>2, <1>3, <1>5, <1>6, <1>7, <1>8, <1>9, <1>10 DEF StoreTyped

LEMMA NoneWhenIdle == NoneAt(Idle) /\ ~Waits(Idle) /\ ~Touches(Idle)
BY DEF NoneAt, Waits, Touches, OpAt

LEMMA ProvisionedKeeps ==
  ASSUME StoreSetting, StoreInv, NEW p \in Cli, Provisioned(p)
  PROVE  StoreInv'
<1> DEFINE s == session[p]
<1>1. StoreTyped /\ FileKept /\ SqliteKept /\ p \in Process BY CoordRuntimeAssumption DEF StoreInv
<1>2. /\ command[p] # Idle /\ In(p, "done") /\ Becomes(p, Idle)
      /\ UNCHANGED <<config, document, lock, rows, sqliteUp, hopes, daemon, mirror, budget>>
  BY DEF Provisioned, At, Finished, OnlySession
<1>3. PICK ask \in OpAsk : command[p] = Command(ask, "provision", "none")
  BY <1>1, <1>2 DEF StoreTyped
<1>4. command[p].ask.kind # "start" BY <1>3 DEF Command, OpAsk
<1>5. Goes(p, Idle) BY <1>4 DEF Provisioned
<1>6. s # Idle /\ s \in Sessions /\ s.op = NoOp BY <1>1, <1>2, NoSession, BetweenOps
<1>7. /\ budget \in WriterBudgets /\ lock \in Process \cup {NoProcess, Gone}
      /\ hopes \in [Key -> SUBSET (Nat \X Stored)]
  BY <1>1 DEF StoreTyped
<1>8. /\ StoreTyped'
      /\ session'[p] = Idle /\ \A q \in Process : q # p => session'[q] = session[q]
  BY <1>1, <1>2, <1>5, <1>7, CommandsKeep
<1>9. NoneAt(s) /\ NoneAt(Idle) BY <1>6, NoneWhenIdle DEF NoneAt, OpAt, NoOp
<1>10. FileKept' /\ SqliteKept' BY <1>1, <1>2, <1>8, <1>9, NoneKeeps
<1>11. Fresh'
  <2>1. CASE sqliteUp BY <2>1, <1>1, <1>2, <1>6, <1>8, NoneWhenIdle, FreshKeeps
  <2>2. CASE ~sqliteUp BY <2>2, <1>2 DEF Fresh
  <2> QED BY <2>1, <2>2
<1> QED BY <1>8, <1>10, <1>11 DEF StoreInv

(* The values of a request are its number.                                 *)
Numbered(t, n) ==
  [t EXCEPT !.entries = [i \in DOMAIN t.entries |-> [t.entries[i] EXCEPT !.value = n]]]

LEMMA NumberedIs ==
  ASSUME NEW t \in OpTask, NEW n \in Nat, NEW u, u = Numbered(t, n)
  PROVE  u \in OpTask /\ (Alone(t) => Alone(u) /\ u.entries[1].value = n)
<1> DEFINE e == t.entries
           f == [i \in DOMAIN e |-> [e[i] EXCEPT !.value = n]]
<1>1. e \in Seq(Op) BY DEF OpTask
<1>2. \A i \in DOMAIN e : e[i] \in Op /\ [e[i] EXCEPT !.value = n] \in Op
        /\ [e[i] EXCEPT !.value = n].kind = e[i].kind /\ [e[i] EXCEPT !.value = n].value = n
  <2> TAKE i \in DOMAIN e
  <2>1. e[i] \in Op BY <1>1
  <2> QED BY <2>1 DEF Op
<1>3. f \in Seq(Op) /\ Len(f) = Len(e)
  <2>1. DOMAIN e = 1..Len(e) /\ Len(e) \in Nat BY <1>1
  <2>2. f \in [1..Len(e) -> Op] BY <1>2, <2>1
  <2> HIDE DEF f, e
  <2> QED BY <2>1, <2>2
<1>4. u = [t EXCEPT !.entries = f] BY DEF Numbered
<1>5. \A i \in DOMAIN e : f[i] \in Op /\ f[i].kind = e[i].kind /\ f[i].value = n
  BY <1>2
<1> HIDE DEF f
<1>6. u \in OpTask /\ u.entries = f BY <1>3, <1>4 DEF OpTask
<1>7. ASSUME Alone(t) PROVE Alone(u) /\ u.entries[1].value = n
  <2>1. PICK o \in Op : o.kind # "del" /\ e = <<o>> BY <1>7 DEF Alone
  <2>2. Len(e) = 1 /\ 1 \in DOMAIN e /\ e[1] = o BY <2>1
  <2>3. f[1] \in Op /\ f[1].kind # "del" /\ f[1].value = n BY <2>1, <2>2, <1>5
  <2>4. f = <<f[1]>> BY <2>2, <1>3
  <2> QED BY <2>3, <2>4, <1>6 DEF Alone
<1> QED BY <1>6, <1>7

LEMMA BeginKeeps ==
  ASSUME StoreSetting, StoreInv, NEW p \in Cli, NEW ask \in budget.asks, Begin(p, ask)
  PROVE  StoreInv'
<1> DEFINE n == budget.requests
           t == Numbered(ask.task, n)
           u == NewSession(t)
           after == [budget EXCEPT !.requests = n - 1]
<1>1. StoreTyped /\ FileKept /\ SqliteKept /\ Fresh /\ p \in Process
  BY CoordRuntimeAssumption DEF StoreInv
<1>2. budget \in WriterBudgets /\ (sqliteUp => \A a \in budget.asks : Alone(a.task))
      /\ lock \in Process \cup {NoProcess, Gone} /\ hopes \in [Key -> SUBSET (Nat \X Stored)]
  BY <1>1 DEF StoreTyped
<1>3. ask \in OpAsk /\ n \in Nat BY <1>2 DEF WriterBudgets, BudgetOfWriters
<1>4. ask.task \in OpTask /\ ask.kind = "task" BY <1>3 DEF OpAsk
<1>5. /\ command[p] = Idle /\ n > 0 /\ budget' = after /\ Becomes(p, u)
      /\ Goes(p, Command(ask, "provision", "none"))
      /\ UNCHANGED <<config, document, lock, rows, sqliteUp, hopes, daemon, mirror>>
  BY <1>4 DEF Begin, OnlySession, Numbered
<1>6. session[p] = Idle BY <1>1, <1>3, <1>5 DEF StoreTyped, StoreSetting
<1>7. after \in WriterBudgets /\ after.asks = budget.asks /\ after.requests = n - 1
  <2>1. budget \in BudgetOfWriters /\ n - 1 \in Nat BY <1>2, <1>3, <1>5 DEF WriterBudgets
  <2>2. /\ after \in BudgetOfWriters /\ after.requests = n - 1
        /\ after.asks = budget.asks /\ after.sqlite = budget.sqlite
    BY <2>1 DEF BudgetOfWriters
  <2> QED BY <1>2, <2>2 DEF WriterBudgets
<1> HIDE DEF t, after
<1>8. t \in OpTask /\ (sqliteUp => Alone(t) /\ t.entries[1].value = n)
  <2>1. t = Numbered(ask.task, n) BY DEF t
  <2>2. sqliteUp => Alone(ask.task) BY <1>2
  <2>3. n \in Nat BY <1>3
  <2> HIDE DEF n
  <2>4. t \in OpTask /\ (Alone(ask.task) => Alone(t) /\ t.entries[1].value = n)
    BY <1>4, <2>1, <2>3, NumberedIs
  <2> QED BY <2>2, <2>4
<1>9. u \in Sessions /\ u.task = t /\ u.pc = "load" /\ u.op = NoOp /\ u.goal = NoConfig
  BY <1>8 DEF NewSession, Sessions, Chosen, Backend, NoOp, OpState
<1> HIDE DEF u
<1>10. SessionOk(u) /\ u # Idle BY <1>8, <1>9 DEF SessionOk, Works, NoOp, StoreSetting
<1>11. /\ StoreTyped'
       /\ session'[p] = u /\ \A q \in Process : q # p => session'[q] = session[q]
  BY <1>1, <1>2, <1>3, <1>5, <1>7, <1>9, <1>10, CommandsKeep
<1>12. NoneAt(u) BY <1>9 DEF NoneAt, OpAt, NoOp
<1>13. FileKept' /\ SqliteKept' BY <1>1, <1>5, <1>6, <1>11, <1>12, NoneWhenIdle, NoneKeeps
<1>14. Fresh'
  <2> SUFFICES ASSUME sqliteUp PROVE Fresh' BY <1>5 DEF Fresh
  <2>1. Brings(u) = n /\ u.op.before = {} /\ budget'.requests = n - 1
    BY <1>5, <1>7, <1>8, <1>9 DEF Brings, NoOp
  <2>2. \A q \in Process : q # p /\ Waits(session[q]) =>
          Apart(q) /\ Brings(session[q]) \in Nat /\ Brings(session[q]) > n
    BY <1>1 DEF Fresh, Apart
  <2>3. (\A k \in Key : \A h \in hopes[k] : Past(h))
        /\ \A q \in Process : session[q] # Idle => \A h \in session[q].op.before : Past(h)
    BY <1>1 DEF Fresh
  <2>4. \A k \in Key : \A h \in hopes[k] : h[1] \in Nat BY <1>2
  <2>5. \A q \in Process : session[q] # Idle => \A h \in session[q].op.before : h[1] \in Nat
    <3> SUFFICES ASSUME NEW q \in Process, session[q] # Idle, NEW h \in session[q].op.before
                 PROVE  h[1] \in Nat
      OBVIOUS
    <3>1. session[q] \in Sessions BY <1>1 DEF StoreTyped
    <3>2. session[q].op \in OpState BY <3>1 DEF Sessions
    <3> QED BY <3>2 DEF OpState
  <2>6. \A h : Past(h) /\ h[1] \in Nat => h[1] # n /\ Past(h)'
    BY <1>3, <1>5, <2>1 DEF Past
  <2>7. ASSUME NEW q \in Process, q # p, Waits(session[q]) PROVE Apart(q)'
    <3> DEFINE v == Brings(session[q])
    <3>1. Apart(q) /\ v \in Nat /\ v > n /\ session'[q] = session[q] BY <2>2, <2>7, <1>11
    <3>2. v > n - 1 BY <1>3, <3>1
    <3>3. \A x \in Process : session'[x] # Idle => \A h \in session'[x].op.before : h[1] # v
      BY <1>11, <2>1, <3>1 DEF Apart
    <3>4. \A x \in Process : Waits(session'[x]) /\ Brings(session'[x]) = v => q = x
      <4> TAKE x \in Process
      <4>1. CASE x = p BY <4>1, <1>3, <1>11, <2>1, <3>1
      <4>2. CASE x # p BY <4>2, <1>11, <3>1 DEF Apart
      <4> QED BY <4>1, <4>2
    <3>5. \A k \in Key : \A h \in hopes'[k] : h[1] # v BY <1>5, <3>1 DEF Apart
    <3> QED BY <2>1, <3>1, <3>2, <3>3, <3>4, <3>5 DEF Apart
  <2>8. Apart(p)'
    <3>1. Brings(u) \in Nat /\ Brings(u) > budget'.requests BY <1>3, <2>1
    <3>2. \A k \in Key : \A h \in hopes'[k] : h[1] # Brings(u)
      BY <1>5, <2>1, <2>3, <2>4, <2>6
    <3>3. \A x \in Process : session'[x] # Idle =>
            \A h \in session'[x].op.before : h[1] # Brings(u)
      BY <1>11, <2>1, <2>3, <2>5, <2>6
    <3>4. \A x \in Process : Waits(session'[x]) /\ Brings(session'[x]) = Brings(u) => p = x
      <4> TAKE x \in Process
      <4>1. CASE x # p
        <5>1. Waits(session[x]) => Brings(session[x]) \in Nat /\ Brings(session[x]) > n
          BY <4>1, <2>2
        <5> QED BY <5>1, <4>1, <1>3, <1>11, <2>1
      <4> QED BY <4>1
    <3> QED BY <1>11, <3>1, <3>2, <3>3, <3>4 DEF Apart
  <2>9. (\A k \in Key : \A h \in hopes'[k] : Past(h)')
        /\ \A q \in Process : session'[q] # Idle => \A h \in session'[q].op.before : Past(h)'
    BY <1>5, <1>11, <2>1, <2>3, <2>4, <2>5, <2>6
  <2>10. \A q \in Process : Waits(session'[q]) => Apart(q)'
    <3> TAKE q \in Process
    <3>1. CASE q = p BY <3>1, <2>8
    <3>2. CASE q # p BY <3>2, <2>7, <1>11
    <3> QED BY <3>1, <3>2
  <2> QED BY <2>9, <2>10 DEF Fresh
<1> QED BY <1>11, <1>13, <1>14 DEF StoreInv

LEMMA CrashKeeps ==
  ASSUME StoreSetting, StoreInv, NEW p \in Cli, CommandDies(p)
  PROVE  StoreInv'
<1> DEFINE s == session[p]
           k == Doing(s).key
           dies == Works(s) /\ s.op.pc # "begin" /\ Doing(s).kind # "get"
           after == [budget EXCEPT !.crashes = budget.crashes - 1]
<1>1. StoreTyped /\ FileKept /\ SqliteKept /\ Fresh /\ p \in Process
  BY CoordRuntimeAssumption DEF StoreInv
<1>2. /\ s # Idle /\ Becomes(p, Idle) /\ Goes(p, Idle)
      /\ budget.crashes > 0 /\ budget' = after
      /\ lock' = IF lock = p THEN Gone ELSE lock
      /\ UNCHANGED <<config, document, rows, sqliteUp, daemon, mirror>>
  BY DEF CommandDies, Die
<1>3. s \in Sessions /\ SessionOk(s) BY <1>1, <1>2 DEF StoreTyped
<1>4. budget \in WriterBudgets /\ hopes \in [Key -> SUBSET (Nat \X Stored)]
      /\ lock \in Process \cup {NoProcess, Gone}
  BY <1>1 DEF StoreTyped
<1>5. after \in WriterBudgets /\ after.asks = budget.asks /\ after.requests = budget.requests
  <2>1. budget \in BudgetOfWriters BY <1>4 DEF WriterBudgets
  <2>2. /\ after \in BudgetOfWriters /\ after.requests = budget.requests
        /\ after.asks = budget.asks /\ after.sqlite = budget.sqlite
    BY <1>2, <2>1 DEF BudgetOfWriters
  <2> QED BY <1>4, <2>2 DEF WriterBudgets
<1>6. Works(s) => /\ op(p) = Doing(s) /\ Doing(s) \in Op /\ Hope(p) = Hoped(s)
                  /\ Tracked(p) <=> Doing(s).kind # "get"
                  /\ Pending(s)
  <2>1. Works(s) => Working(p, s.b, s.op.pc) BY DEF Works, Working, In
  <2> QED BY <2>1, <1>1, WorkingIs
<1>7. hopes' = IF dies THEN [hopes EXCEPT ![k] = hopes[k] \cup {Hoped(s)}] ELSE hopes
  BY <1>2, <1>6 DEF CommandDies, Die, In, Works
<1>8. dies => k \in Key /\ Hoped(s) \in Nat \X Stored BY <1>6 DEF Hoped, Op, Stored
<1> HIDE DEF s, after
<1>9. /\ hopes' \in [Key -> SUBSET (Nat \X Stored)]
      /\ \A x \in Key : hopes[x] \subseteq hopes'[x]
      /\ \A x \in Key : \A h \in hopes'[x] : h \in hopes[x] \/ (h = Hoped(s) /\ dies)
      /\ dies => Hoped(s) \in hopes'[k]
  <2>1. CASE dies
    <3> HIDE DEF k
    <3> QED BY <2>1, <1>4, <1>7, <1>8
  <2>2. CASE ~dies BY <2>2, <1>4, <1>7
  <2> QED BY <2>1, <2>2
<1>10. /\ StoreTyped'
       /\ session'[p] = Idle /\ \A q \in Process : q # p => session'[q] = session[q]
  BY <1>1, <1>2, <1>4, <1>5, <1>9, CommandsKeep
<1>11. s.op.pc # "begin" => Works(s) BY <1>3 DEF SessionOk, NoOp
<1>12. FileKept'
  <2> SUFFICES ASSUME ~sqliteUp PROVE FileKept' BY <1>2 DEF FileKept
  <2>1. \A q \in Process : session'[q] # Idle => q # p /\ session'[q] = session[q] BY <1>10
  <2>2. \A q \in Process : OpAt(session'[q], "locked") \/ OpAt(session'[q], "saved") => lock' = q
    BY <2>1, <1>1, <1>2 DEF FileKept, OpAt
  <2>3. \A q \in Process : OpAt(session'[q], "locked") => session'[q].op.found = document'
    BY <2>1, <1>1, <1>2 DEF FileKept, OpAt
  <2>4. \A q \in Process : OpAt(session'[q], "saved") =>
          document'[Doing(session'[q]).key] = Hoped(session'[q])[2]
    BY <2>1, <1>1, <1>2 DEF FileKept, OpAt
  <2>5. \A x \in Key : \/ \E h \in hopes'[x] : h[2] = document'[x]
                       \/ \E q \in Process : OpAt(session'[q], "saved") /\ Doing(session'[q]).key = x
    <3> TAKE x \in Key
    <3>1. CASE \E h \in hopes[x] : h[2] = document[x] BY <3>1, <1>2, <1>9
    <3>2. CASE \E q \in Process : OpAt(session[q], "saved") /\ Doing(session[q]).key = x
      <4>1. PICK q \in Process : OpAt(session[q], "saved") /\ Doing(session[q]).key = x BY <3>2
      <4>2. CASE q # p BY <4>1, <4>2, <1>10
      <4>3. CASE q = p
        <5>1. OpAt(s, "saved") /\ k = x BY <4>1, <4>3 DEF s
        <5>2. s.op.pc = "saved" BY <5>1 DEF OpAt
        <5>3. dies BY <5>2, <1>3, <1>11 DEF SessionOk, Doing
        <5>4. document[k] = Hoped(s)[2] BY <5>1, <1>1 DEF FileKept, s
        <5> QED BY <5>1, <5>3, <5>4, <1>2, <1>9
      <4> QED BY <4>2, <4>3
    <3> QED BY <3>1, <3>2, <1>1 DEF FileKept
  <2> QED BY <2>2, <2>3, <2>4, <2>5 DEF FileKept
<1>13. SqliteKept'
  <2> SUFFICES ASSUME sqliteUp PROVE SqliteKept' BY <1>2 DEF SqliteKept
  <2>1. \A x : RowsOf(x)' = RowsOf(x) BY <1>2 DEF RowsOf
  <2>2. \A x, r : Top(x, r)' <=> Top(x, r) BY <2>1 DEF Top
  <2>3. \A q \in Process : RowsFound(q)'
    <3> TAKE q \in Process
    <3>1. CASE q = p BY <3>1, <1>10, NoneWhenIdle DEF RowsFound
    <3>2. CASE q # p
      <4>1. RowsFound(q) BY <1>1 DEF SqliteKept
      <4> QED BY <4>1, <3>2, <2>1, <1>10 DEF RowsFound
    <3> QED BY <3>1, <3>2
  <2>4. \A q \in Process : NotOutdone(q)'
    <3> TAKE q \in Process
    <3>1. CASE q = p BY <3>1, <1>10, NoneWhenIdle DEF NotOutdone
    <3>2. CASE q # p
      <4>1. NotOutdone(q) BY <1>1 DEF SqliteKept
      <4> QED BY <4>1, <3>2, <2>2, <1>2, <1>10 DEF NotOutdone
    <3> QED BY <3>1, <3>2
  <2>5. \A x \in Key : FirstCounts(x)'
    <3> TAKE x \in Key
    <3>1. FirstCounts(x) BY <1>1 DEF SqliteKept
    <3>2. \A v : Acked(x, v) => Acked(x, v)' BY <1>9 DEF Acked
    <3>3. ASSUME NEW v, NEW q \in Process, Stores(q, x, v)
          PROVE  Acked(x, v)' \/ Stores(q, x, v)'
      <4>1. CASE q # p BY <4>1, <3>3, <1>10 DEF Stores
      <4>2. CASE q = p
        <5>1. OpAt(s, "stored") /\ k = x /\ Doing(s).value = v BY <4>2, <3>3 DEF Stores, s
        <5>2. s.op.pc = "stored" /\ Touches(s) BY <5>1 DEF OpAt, Touches
        <5>3. Doing(s).kind = "set" BY <5>1, <5>2, <1>1 DEF SqliteKept, RowsFound, s
        <5>4. dies /\ Hoped(s) = <<v, v>> BY <5>1, <5>2, <5>3, <1>11 DEF Hoped
        <5> QED BY <5>1, <5>4, <1>9 DEF Acked
      <4> QED BY <4>1, <4>2
    <3>4. \A t \in RowId : Top(x, t)' =>
            Acked(x, rows[t].value)' \/ \E q \in Process : Stores(q, x, rows[t].value)'
      <4> TAKE t \in RowId
      <4>1. CASE Top(x, t) BY <4>1, <3>1, <3>2, <3>3, <1>2 DEF FirstCounts, Stores, Acked
      <4> QED BY <4>1, <2>2
    <3> QED BY <3>1, <3>4, <2>1, <2>2, <1>2, <1>9 DEF FirstCounts
  <2> QED BY <2>3, <2>4, <2>5 DEF SqliteKept
<1>14. Fresh'
  <2> SUFFICES ASSUME sqliteUp PROVE Fresh' BY <1>2 DEF Fresh
  <2>1. dies => Hoped(s)[1] = Brings(s) /\ Waits(s)
    BY <1>2, <1>3, <1>6, AloneIs DEF Hoped, Brings, Waits
  <2>2. \A x \in Key : \A h \in hopes'[x] :
          h \in hopes[x] \/ (h[1] = Brings(s) /\ Waits(s) /\ ~Waits(Idle))
    BY <1>9, <2>1, NoneWhenIdle
  <2>3. budget'.requests = budget.requests BY <1>2, <1>5
  <2> HIDE DEF dies
  <2> QED BY <1>1, <1>2, <1>10, <2>2, <2>3, NoneWhenIdle, FreshKeeps DEF s
<1> QED BY <1>10, <1>12, <1>13, <1>14 DEF StoreInv

-----------------------------------------------------------------------------
LEMMA InitIsKept ==
  ASSUME StoreSetting, Writers, CoordInit
  PROVE  StoreInv
<1>1. /\ config = NoConfig /\ document = [k \in Key |-> Absent] /\ lock = NoProcess
      /\ rows = [r \in RowId |-> NoRow] /\ sqliteUp \in BOOLEAN
      /\ session = [p \in Process |-> Idle] /\ hopes = [k \in Key |-> {<<0, Absent>>}]
      /\ budget \in Budgets /\ sqliteUp \in budget.sqlite
      /\ daemon = [q \in Pid |-> [phase |-> "unborn", node |-> 0]]
      /\ command = [p \in Cli |-> Idle]
  BY DEF CoordInit, StorageInit
<1>2. budget \in WriterBudgets /\ (sqliteUp => \A ask \in budget.asks : Alone(ask.task))
  BY <1>1 DEF Writers, WriterBudgets
<1>3. hopes \in [Key -> SUBSET (Nat \X Stored)] BY <1>1 DEF Stored
<1>4. document \in [Key -> Stored] BY <1>1 DEF Stored
<1>5. \A p \in Process : session[p] = Idle BY <1>1
<1>6. StoreTyped BY CoordRuntimeAssumption, <1>1, <1>2, <1>3, <1>4, <1>5 DEF StoreTyped
<1>7. FileKept
  <2>1. \A k \in Key : \E h \in hopes[k] : h[2] = document[k]
    <3> TAKE k \in Key
    <3>1. <<0, Absent>> \in hopes[k] /\ document[k] = Absent BY <1>1
    <3> QED BY <3>1
  <2> QED BY <2>1, <1>5 DEF FileKept, OpAt
<1>8. SqliteKept
  <2>1. \A k : RowsOf(k) = {} BY <1>1 DEF RowsOf
  <2>2. \A k \in Key : <<0, Absent>> \in hopes[k] BY <1>1
  <2> QED BY <2>1, <2>2, <1>5, NoneWhenIdle
         DEF SqliteKept, RowsFound, NotOutdone, FirstCounts, Top
<1>9. Fresh BY <1>1, <1>5, NoneWhenIdle DEF Fresh, Past
<1> QED BY <1>6, <1>7, <1>8, <1>9 DEF StoreInv

LEMMA NextKeeps ==
  ASSUME StoreSetting, StoreInv, CoordNext
  PROVE  StoreInv'
<1>1. StoreTyped BY DEF StoreInv
<1>2. \A p \in Process : ~CommandStep(p) \/ Provisioned(p) \/ p \notin Cli
  <2> SUFFICES ASSUME NEW p \in Cli, CommandStep(p) PROVE Provisioned(p)
    OBVIOUS
  <2>1. command[p] # Idle => command[p].pc = "provision"
    <3>1. \A ask : Command(ask, "provision", "none").pc = "provision" BY DEF Command
    <3> QED BY <3>1, <1>1 DEF StoreTyped
  <2>2. \A n : At(p, n) => n = "provision" BY <2>1 DEF At
  <2>3. ~loadNodes(p) BY <2>2 DEF loadNodes
  <2>4. ~NodesLoaded(p) BY <2>2 DEF NodesLoaded
  <2>5. ~saveNodes(p) BY <2>2 DEF saveNodes
  <2>6. ~NodesSaved(p) BY <2>2 DEF NodesSaved
  <2>7. ~Check(p) BY <2>2 DEF Check
  <2>8. ~Await(p) BY <2>2 DEF Await
  <2>9. ~GiveUpStart(p) BY <2>2 DEF GiveUpStart, Late
  <2>10. ~TimedOut(p) BY <2>2 DEF TimedOut
  <2>11. ~NextStart(p) BY <2>2 DEF NextStart
  <2>12. ~End(p) BY <2>2 DEF End
  <2>13. ~Export(p) BY <2>2 DEF Export
  <2>14. ~Restore(p) BY <2>2 DEF Restore
  <2>15. ~Select(p) BY <2>2 DEF Select
  <2>16. ~collectRunningNodes(p) BY <2>2 DEF collectRunningNodes
  <2>17. ~Kill(p) BY <2>2 DEF Kill
  <2>18. ~Switch(p) BY <2>2 DEF Switch
  <2>19. ~Switched(p) BY <2>2 DEF Switched
  <2>20. ~BeginCleanup(p) BY <2>2 DEF BeginCleanup
  <2>21. ~Clean(p) BY <2>2 DEF Clean
  <2> QED BY <2>3, <2>4, <2>5, <2>6, <2>7, <2>8, <2>9, <2>10, <2>11, <2>12, <2>13, <2>14,
             <2>15, <2>16, <2>17, <2>18, <2>19, <2>20, <2>21 DEF CommandStep
<1>3. ASSUME NEW q \in Pid PROVE ~Serve(q) /\ ~DaemonDies(q)
  <2>1. daemon[q].phase = "unborn" BY <1>1 DEF StoreTyped
  <2> QED BY <2>1 DEF Serve, DaemonDies, isPidAlive
<1>4. ~Toggle
  <2>1. budget \in BudgetOfWriters BY <1>1 DEF StoreTyped, WriterBudgets
  <2>2. budget.toggles = 0 BY <2>1 DEF BudgetOfWriters
  <2> QED BY <2>2 DEF Toggle
<1>5. CASE \E p \in Process : WithStore(Step(p)) BY <1>5, StepKeeps
<1>6. CASE \E p \in Cli : CommandStep(p)
  BY CoordRuntimeAssumption, <1>2, <1>6, ProvisionedKeeps
<1>7. CASE \E p \in Cli : CommandDies(p) BY <1>7, CrashKeeps
<1>8. CASE \E p \in Cli : \E ask \in budget.asks : Begin(p, ask) BY <1>8, BeginKeeps
<1> QED BY <1>3, <1>4, <1>5, <1>6, <1>7, <1>8 DEF CoordNext

LEMMA StutterKeeps == StoreInv /\ UNCHANGED coordVars => StoreInv'
<1> SUFFICES ASSUME StoreInv, UNCHANGED coordVars PROVE StoreInv' OBVIOUS
<1>1. UNCHANGED <<config, document, lock, rows, sqliteUp, session, hopes, daemon, mirror,
                  command, budget>>
  BY DEF coordVars, storageVars, runtimeVars
<1>2. StoreTyped'
  <2>1. StoreTyped BY DEF StoreInv
  <2>2. Used' = Used BY <1>1 DEF Used
  <2>3. \A p \in Process : SessionOk(session[p]) => SessionOk(session[p])'
    BY <1>1, <2>2 DEF SessionOk
  <2> QED BY <1>1, <2>1, <2>2, <2>3 DEF StoreTyped
<1>3. FileKept' BY <1>1 DEF StoreInv, FileKept
<1>4. SqliteKept'
  <2>1. \A k : RowsOf(k)' = RowsOf(k) BY <1>1 DEF RowsOf
  <2>2. \A k, r : Top(k, r)' <=> Top(k, r) BY <2>1 DEF Top
  <2>3. \A k, v : Acked(k, v)' <=> Acked(k, v) BY <1>1 DEF Acked
  <2>4. \A q, k, v : Stores(q, k, v)' <=> Stores(q, k, v) BY <1>1 DEF Stores
  <2>5. \A q : RowsFound(q) => RowsFound(q)' BY <1>1, <2>1 DEF RowsFound
  <2>6. \A q : NotOutdone(q) => NotOutdone(q)' BY <1>1, <2>2 DEF NotOutdone
  <2>7. \A k : FirstCounts(k) => FirstCounts(k)' BY <1>1, <2>1, <2>2, <2>3, <2>4 DEF FirstCounts
  <2> QED BY <1>1, <2>5, <2>6, <2>7 DEF StoreInv, SqliteKept
<1>5. Fresh' BY <1>1 DEF StoreInv, Fresh, Apart, Waits, Brings, Past
<1> QED BY <1>2, <1>3, <1>4, <1>5 DEF StoreInv

LEMMA NothingForgottenThen ==
  ASSUME StoreSetting, StoreInv
  PROVE  NothingForgotten
<1>1. StoreTyped /\ FileKept /\ SqliteKept BY DEF StoreInv
<1> SUFFICES ASSUME AtRest, NEW k \in Key
             PROVE  \E h \in hopes[k] : h[2] = Lookup(Current, k)
  BY Zenon DEF NothingForgotten
<1>2. \A p \in Process : session[p] = Idle
  <2> TAKE p \in Process
  <2>1. session[p] # Idle => session[p].task.kind = "ops"
    BY <1>1 DEF StoreTyped, Sessions, OpTask
  <2> QED BY <2>1 DEF AtRest, Holding
<1>3. Current = Used
  <2>1. config = NoConfig \/ config = Automatic(Used) BY <1>1 DEF StoreTyped
  <2> QED BY <2>1, NoConfigIsNone DEF Current, Used
<1>4. CASE ~sqliteUp
  <2>1. \E h \in hopes[k] : h[2] = document[k]
    BY <1>1, <1>2, <1>4 DEF FileKept, OpAt
  <2>2. Lookup(Current, k) = document[k] BY <1>3, <1>4 DEF Lookup, Used
  <2> QED BY <2>1, <2>2
<1>5. CASE sqliteUp
  <2>1. FirstCounts(k) BY <1>1, <1>5 DEF SqliteKept
  <2>2. Lookup(Current, k) =
          IF LiveRows(k) = {} THEN Absent ELSE rows[FirstRow(LiveRows(k))].value
    BY <1>3, <1>5 DEF Lookup, Used
  <2>3. LiveRows(k) \subseteq RowsOf(k) BY <1>5, LiveRowsAre
  <2>4. CASE RowsOf(k) = {}
    <3>1. Lookup(Current, k) = Absent BY <2>2, <2>3, <2>4
    <3>2. <<0, Absent>> \in hopes[k] BY <2>1, <2>4 DEF FirstCounts
    <3> QED BY <3>1, <3>2
  <2>5. CASE RowsOf(k) # {}
    <3>1. PICK t \in RowId : Top(k, t) /\ t \in LiveRows(k) BY <1>5, <2>5, LiveRowsAre
    <3>2. LiveRows(k) \in SUBSET RowId BY DEF LiveRows
    <3>3. FirstRow(LiveRows(k)) = t BY <2>3, <3>1, <3>2, TopIsFirst
    <3>4. Lookup(Current, k) = rows[t].value BY <2>2, <3>1, <3>3
    <3>5. Acked(k, rows[t].value) BY <2>1, <3>1, <1>2 DEF FirstCounts, Stores, OpAt
    <3> QED BY <3>4, <3>5 DEF Acked
  <2> QED BY <2>4, <2>5
<1> QED BY <1>4, <1>5

(* Once no process is at work, the coord store holds of every key what a   *)
(* last write left there, however many processes set, read and, in the     *)
(* file, delete at a time, and wherever they die (src/src/cord/store.ts).  *)
THEOREM WritersLoseNothing ==
  ASSUME StoreSetting, Writers
  PROVE  CoordSpec => []NothingForgotten
<1>1. CoordInit => StoreInv BY InitIsKept
<1>2. StoreInv /\ [CoordNext]_coordVars => StoreInv' BY NextKeeps, StutterKeeps
<1>3. StoreInv => NothingForgotten BY NothingForgottenThen
<1> QED BY <1>1, <1>2, <1>3, PTL DEF CoordSpec

-----------------------------------------------------------------------------
(* The election.                                                           *)

(* leaseMs is the same for all members.  With leases of different length a *)
(* short lease of a higher term would free a voter that a longer one still *)
(* counts on.                                                              *)
UniformTtl == \A m, n \in Node : LeaseTtl[m] = LeaseTtl[n]

-----------------------------------------------------------------------------
(* Type correctness.                                                       *)

USE ElectionAssumption

(* The approvals required are a natural number. *)
LEMMA RequiredType ==
  ASSUME NEW n \in Nat PROVE Required(n) \in Nat
BY DEF Required

(* The voters of a node are nodes. *)
LEMMA VotersType ==
  ASSUME TypeOK, NEW l
  PROVE  /\ Voters(l) \subseteq Node
         /\ Cardinality(Voters(l)) \in Nat
         /\ Required(Cardinality(Voters(l))) \in Nat
<1>1. Voters(l) \subseteq Node BY DEF Voters, Alive, TypeOK
<1>2. Cardinality(Voters(l)) \in Nat
  BY <1>1, FS_Subset, FS_CardinalityType
<1> QED BY <1>1, <1>2, RequiredType

(* Return and Canvass leave the state of the worker well typed. *)
WorkerType ==
  /\ pc \in [Worker -> PCs]
  /\ elig \in [Worker -> SUBSET Node]
  /\ renewing \in [Worker -> BOOLEAN]
  /\ claim \in [Worker -> Claim]
  /\ \A w \in Worker : pc[w] = "ask" => claim[w].leader \in Node
  /\ pending \in [Worker -> SUBSET Node]
  /\ oks \in [Worker -> Nat]

(* A worker that returns keeps its variables well typed. *)
LEMMA ReturnType ==
  ASSUME TypeOK, NEW w \in Worker, Return(w) PROVE WorkerType'
BY DEF TypeOK, WorkerType, Return, Goto, PCs, Claim, NoClaim, NodeOrNone

(* A worker that begins to ask for votes asks them for a node. *)
LEMMA CanvassType ==
  ASSUME TypeOK, NEW w \in Worker, NEW l \in Node, NEW t \in Nat,
         NEW r \in BOOLEAN, Canvass(w, l, t, r)
  PROVE  WorkerType'
<1>1. CASE Voters(l) = {}
  BY <1>1, ReturnType DEF Canvass
<1>2. CASE Voters(l) # {}
  <2> DEFINE k == Required(Cardinality(Voters(l)))
  <2>1. Voters(l) \subseteq Node /\ k \in Nat BY VotersType
  <2>2. [leader |-> l, term |-> t, left |-> 0, by |-> {}, needed |-> k] \in Claim
    BY <2>1 DEF Claim, NodeOrNone
  <2> HIDE DEF k
  <2>3. /\ pc' = [pc EXCEPT ![w] = "ask"]
        /\ elig' = [elig EXCEPT ![w] = {}]
        /\ renewing' = [renewing EXCEPT ![w] = r]
        /\ claim' = [claim EXCEPT ![w] =
             [leader |-> l, term |-> t, left |-> 0, by |-> {}, needed |-> k]]
        /\ pending' = [pending EXCEPT ![w] = Voters(l)]
        /\ oks' = oks
    BY <1>2 DEF Canvass, Goto, k
  <2>4. claim' \in [Worker -> Claim] BY <2>2, <2>3 DEF TypeOK
  <2>5. \A u \in Worker : pc'[u] = "ask" => claim'[u].leader \in Node
    BY <2>3 DEF TypeOK, PCs
  <2>6. pending' \in [Worker -> SUBSET Node] BY <2>1, <2>3 DEF TypeOK
  <2> QED BY <2>3, <2>4, <2>5, <2>6 DEF TypeOK, WorkerType, PCs
<1> QED BY <1>1, <1>2

(* The vote handlers keep the votes well typed. *)
LEMMA VotesAfterType ==
  ASSUME TypeOK, NEW m \in Request PROVE VotesAfter(m) \in [Node -> Lease]
BY DEF TypeOK, VotesAfter, Request, Lease, NodeOrNone

(* What a worker asks for is a well-typed request. *)
LEMMA RequestOfType ==
  ASSUME TypeOK, NEW w \in Worker, NEW v \in Node, pc[w] = "ask"
  PROVE  RequestOf(w, v) \in Request
BY DEF TypeOK, RequestOf, Request, Claim

(* Striking a voter off the claims keeps them well typed. *)
LEMMA ForgetType ==
  ASSUME TypeOK, NEW n \in Node, Forget(n)
  PROVE  votes' \in [Node -> Lease] /\ wins' \subseteq Claim
<1>1. votes' \in [Node -> Lease]
  BY DEF TypeOK, Forget, Lease, NoLease, NodeOrNone
<1>2. \A x \in Claim : [x EXCEPT !.by = @ \ {n}] \in Claim
  BY DEF Claim
<1> QED BY <1>1, <1>2 DEF TypeOK, Forget

(* The initial states are well typed. *)
LEMMA InitType == Init => TypeOK
BY DEF Init, TypeOK, PCs, Lease, NoLease, Claim, NoClaim, NodeOrNone

(* The first loop of reconcileCluster keeps every type. *)
LEMMA SurveyType ==
  ASSUME TypeOK, NEW w \in Worker, Survey(w) PROVE TypeOK'
<1>1. WorkerType'
  <2>1. CASE Return(w) BY <2>1, ReturnType
  <2>2. CASE /\ Healthy(assignment)
             /\ Canvass(w, assignment.leader, assignment.term, TRUE)
    <3>1. assignment.leader \in Node /\ assignment.term \in Nat
      BY <2>2 DEF Healthy, Alive, TypeOK, Lease
    <3> QED BY <2>2, <3>1, CanvassType
  <2>3. CASE /\ Goto(w, "elect")
             /\ elig' = [elig EXCEPT ![w] = EligibleNow]
             /\ UNCHANGED <<renewing, claim, pending, oks>>
    <3>1. EligibleNow \subseteq Node BY DEF EligibleNow, Alive, TypeOK
    <3> QED BY <2>3, <3>1 DEF TypeOK, WorkerType, Goto, PCs
  <2> QED BY <2>1, <2>2, <2>3 DEF Survey
<1> QED BY <1>1 DEF Survey, TypeOK, WorkerType, storeVars

(* The second loop of reconcileCluster keeps every type. *)
LEMMA ElectType ==
  ASSUME TypeOK, NEW w \in Worker, Elect(w) PROVE TypeOK'
<1>1. PICK n \in Candidates(elig[w]) : Canvass(w, n, assignment.term + 1, FALSE)
  BY DEF Elect
<1>2. n \in Node BY <1>1 DEF Candidates, TypeOK
<1>3. assignment.term + 1 \in Nat BY DEF TypeOK, Lease
<1>4. WorkerType' BY <1>1, <1>2, <1>3, CanvassType
<1> QED BY <1>4 DEF Elect, TypeOK, WorkerType, storeVars

(* A claim that counts an approval is a well-typed claim. *)
LEMMA ApprovedType ==
  ASSUME NEW c \in Claim, NEW v \in Node, NEW k \in Nat, c.leader \in Node
  PROVE  /\ Approved(c, v, k) \in Claim
         /\ Approved(c, v, k).leader = c.leader
         /\ Approved(c, v, k).term = c.term
         /\ Approved(c, v, k).by = c.by \cup {v}
<1>1. LeaseTtl[c.leader] \in Nat OBVIOUS
<1>2. c.left \in Nat /\ Lesser(c.left, LeaseTtl[c.leader]) \in Nat
  BY <1>1 DEF Claim, Lesser
<1> QED BY <1>1, <1>2 DEF Approved, Claim

(* A vote call, answered or not, keeps every type. *)
LEMMA AskType ==
  ASSUME TypeOK, NEW w \in Worker, NEW v \in Node,
         Ask(w, v) \/ AskFails(w, v) \/ AskTimesOut(w, v)
  PROVE  TypeOK'
<1>1. RequestOf(w, v) \in Request BY RequestOfType DEF Ask, AskFails, AskTimesOut, Asking
<1>2. pending' \in [Worker -> SUBSET Node]
  BY DEF Ask, AskFails, AskTimesOut, Asking, TypeOK
<1>3. CASE Ask(w, v)
  <2>1. votes' \in [Node -> Lease] BY <1>1, <1>3, VotesAfterType DEF Ask
  <2>2. oks' \in [Worker -> Nat] BY <1>3 DEF Ask, TypeOK
  <2>3. claim[w].leader \in Node BY <1>3 DEF Ask, Asking, TypeOK
  <2>4. claim' = claim \/ claim' = [claim EXCEPT ![w] = Approved(@, v, oks[w])]
    BY <1>3 DEF Ask
  <2>5. /\ claim' \in [Worker -> Claim]
        /\ \A u \in Worker : claim'[u].leader = claim[u].leader
    <3>1. claim[w] \in Claim /\ oks[w] \in Nat BY DEF TypeOK
    <3>2. /\ Approved(claim[w], v, oks[w]) \in Claim
          /\ Approved(claim[w], v, oks[w]).leader = claim[w].leader
      BY <2>3, <3>1, ApprovedType
    <3> QED BY <2>4, <3>2 DEF TypeOK
  <2>6. UNCHANGED <<up, reach, late, wins, faults, published, member, shard,
                    assignment, pc, elig, renewing>>
    BY <1>3 DEF Ask, storeVars
  <2> QED BY <1>2, <2>1, <2>2, <2>5, <2>6 DEF TypeOK
<1>4. CASE AskFails(w, v)
  BY <1>2, <1>4 DEF AskFails, TypeOK, storeVars
<1>5. CASE AskTimesOut(w, v)
  BY <1>1, <1>2, <1>5 DEF AskTimesOut, TypeOK, storeVars
<1> QED BY <1>3, <1>4, <1>5

(* Giving up, or writing the assignment, keeps every type. *)
LEMMA WriteType ==
  ASSUME TypeOK, NEW w \in Worker, Write(w) \/ GiveUp(w) PROVE TypeOK'
<1>1. WorkerType' BY ReturnType DEF Write, GiveUp
<1>2. claim[w] \in Claim BY DEF TypeOK
<1>3. CASE Write(w)
  <2>1. assignment' \in Lease BY <1>2, <1>3 DEF Write, Lease, Claim
  <2>2. wins' \subseteq Claim BY <1>2, <1>3 DEF Write, TypeOK
  <2> QED BY <1>1, <1>3, <2>1, <2>2 DEF Write, TypeOK, WorkerType
<1>4. CASE GiveUp(w)
  BY <1>1, <1>4 DEF GiveUp, TypeOK, WorkerType, storeVars
<1> QED BY <1>3, <1>4

(* The admin methods keep every type. *)
LEMMA AdminType ==
  ASSUME TypeOK, NEW w \in Worker, Admin(w) PROVE TypeOK'
<1>1. ASSUME NEW n \in Node, ForceRead(w, n) PROVE TypeOK'
  <2>1. assignment.term + 1 \in Nat BY DEF TypeOK, Lease
  <2>2. LeaseTtl[Host[w]] \in Nat OBVIOUS
  <2>3. [NoClaim EXCEPT !.leader = n, !.term = assignment.term + 1,
                        !.left = LeaseTtl[Host[w]]] \in Claim
    BY <2>1, <2>2 DEF NoClaim, Claim, NodeOrNone
  <2> QED BY <1>1, <2>3 DEF ForceRead, Goto, TypeOK, PCs, storeVars
<1>2. CASE ForceWrite(w)
  <2>1. WorkerType' BY <1>2, ReturnType DEF ForceWrite
  <2>2. assignment' \in Lease
    BY <1>2 DEF ForceWrite, TypeOK, Lease, Claim
  <2> QED BY <1>2, <2>1, <2>2 DEF ForceWrite, TypeOK, WorkerType
<1>3. ASSUME NEW l \in PCs \ {"ask"}, Goto(w, l), shard' \in BOOLEAN,
             faults' \in Nat,
             UNCHANGED <<up, reach, votes, late, wins, published, member,
                         assignment, elig, renewing, claim, pending, oks>>
      PROVE  TypeOK'
  <2>1. pc' \in [Worker -> PCs] BY <1>3 DEF Goto, TypeOK
  <2>2. \A u \in Worker : pc'[u] = "ask" => claim'[u].leader \in Node
    BY <1>3 DEF Goto, TypeOK
  <2> QED BY <1>3, <2>1, <2>2 DEF TypeOK
<1>5. CASE AddShard(w)
  <2>1. faults' \in Nat BY <1>5 DEF AddShard, TypeOK
  <2> QED BY <1>3, <1>5, <2>1 DEF AddShard, PCs
<1>6. CASE RemoveShard(w)
  <2>1. faults' \in Nat BY <1>6 DEF RemoveShard, TypeOK
  <2> QED BY <1>3, <1>6, <2>1 DEF RemoveShard, PCs
<1>4. CASE RemoveAssignment(w)
  <2>1. NoLease \in Lease BY DEF NoLease, Lease, NodeOrNone
  <2> QED BY <1>4, <2>1 DEF RemoveAssignment, Goto, TypeOK, PCs
<1> QED BY <1>1, <1>2, <1>4, <1>5, <1>6 DEF Admin

(* The end of a process keeps every type. *)
LEMMA ExitType ==
  ASSUME TypeOK, NEW n \in Node, Exit(n) PROVE WorkerType'
<1>1. NoClaim \in Claim BY DEF NoClaim, Claim, NodeOrNone
<1>2. \A w \in Worker : WithoutVoter(claim[w], n) \in Claim
  BY DEF TypeOK, WithoutVoter, Claim
<1>3. \A w \in Worker : WithoutVoter(claim[w], n).leader = claim[w].leader
  BY DEF TypeOK, WithoutVoter, Claim
<1>4. claim' \in [Worker -> Claim] BY <1>1, <1>2 DEF Exit
<1>5. \A w \in Worker : pc'[w] = "ask" => claim'[w].leader \in Node
  BY <1>3 DEF Exit, TypeOK
<1> QED BY <1>4, <1>5 DEF Exit, TypeOK, WorkerType, PCs

(* Starts, stops, crashes and departures keep every type. *)
LEMMA LifecycleType ==
  ASSUME TypeOK, NEW n \in Node, Lifecycle(n) PROVE TypeOK'
<1>1. CASE Start(n)
  BY <1>1 DEF Start, TypeOK, PCs
<1>2. CASE Stop(n) \/ Leave(n)
  <2>1. /\ published' \subseteq published /\ member' \subseteq member
        /\ faults > 0 /\ faults' = faults - 1
        /\ UNCHANGED <<up, reach, votes, late, wins, shard, assignment, workerVars>>
    BY <1>2 DEF Stop, Leave
  <2>2. faults' \in Nat BY <2>1 DEF TypeOK
  <2> QED BY <2>1, <2>2 DEF TypeOK, workerVars
<1>3. CASE ExitAfterStop(n) \/ Crash(n)
  <2>1. Exit(n) /\ faults' \in Nat BY <1>3 DEF ExitAfterStop, Crash, TypeOK
  <2>2. WorkerType' BY <2>1, ExitType
  <2>3. votes' \in [Node -> Lease] /\ wins' \subseteq Claim
    BY <2>1, ForgetType DEF Exit
  <2> QED BY <2>1, <2>2, <2>3 DEF Exit, TypeOK, WorkerType, storeVars
<1>4. CASE ReleaseLease(n)
  <2>1. votes' \in [Node -> Lease] /\ wins' \subseteq Claim
    BY <1>4, ForgetType DEF ReleaseLease
  <2>2. \A w \in Worker : /\ WithoutVoter(claim[w], n) \in Claim
                           /\ WithoutVoter(claim[w], n).leader = claim[w].leader
    BY DEF TypeOK, WithoutVoter, Claim
  <2>3. /\ claim' \in [Worker -> Claim]
        /\ \A w \in Worker : pc'[w] = "ask" => claim'[w].leader \in Node
    BY <1>4, <2>2 DEF ReleaseLease, TypeOK
  <2> QED BY <1>4, <2>1, <2>3 DEF ReleaseLease, TypeOK, storeVars
<1> QED BY <1>1, <1>2, <1>3, <1>4 DEF Lifecycle

(* The passing of time keeps every type. *)
LEMMA TickType ==
  ASSUME TypeOK, Tick PROVE TypeOK'
<1>1. \A k \in Nat : Aged(k) \in Nat BY DEF Aged
<1>2. assignment' \in Lease BY <1>1 DEF Tick, TypeOK, Lease
<1>3. \A x \in Lease : [x EXCEPT !.left = Aged(@)] \in Lease
  BY <1>1 DEF Lease
<1>4. votes' \in [Node -> Lease] BY <1>3 DEF Tick, TypeOK
<1>5. \A x \in Claim : /\ [x EXCEPT !.left = Aged(@)] \in Claim
                       /\ [x EXCEPT !.left = Aged(@)].leader = x.leader
  BY <1>1 DEF Claim
<1>6. /\ claim' \in [Worker -> Claim]
      /\ \A w \in Worker : pc'[w] = "ask" => claim'[w].leader \in Node
  BY <1>5 DEF Tick, TypeOK
<1>7. \A x \in Claim : x.left > 1 => [x EXCEPT !.left = @ - 1] \in Claim
  BY DEF Claim
<1>8. wins' \subseteq Claim BY <1>7 DEF Tick, TypeOK
<1> QED BY <1>2, <1>4, <1>6, <1>8 DEF Tick, TypeOK

(* TypeOK is inductive. *)
LEMMA NextType == TypeOK /\ [Next]_vars => TypeOK'
<1> SUFFICES ASSUME TypeOK, [Next]_vars PROVE TypeOK'
  OBVIOUS
<1>1. ASSUME NEW w \in Worker, Reconcile(w) PROVE TypeOK'
  BY <1>1, SurveyType, ElectType, AskType, WriteType DEF Reconcile
<1>2. ASSUME NEW w \in Worker, Admin(w) PROVE TypeOK'
  BY <1>2, AdminType
<1>3. ASSUME NEW n \in Node, Lifecycle(n) PROVE TypeOK'
  BY <1>3, LifecycleType
<1>4. ASSUME NEW m \in late, Deliver(m) PROVE TypeOK'
  <2>1. m \in Request BY DEF TypeOK
  <2>2. votes' \in [Node -> Lease] BY <1>4, <2>1, VotesAfterType DEF Deliver
  <2> QED BY <1>4, <2>2 DEF Deliver, TypeOK, storeVars, workerVars
<1>5. ASSUME NEW r \in Reaches, SetReach(r) PROVE TypeOK'
  BY <1>5 DEF SetReach, TypeOK, storeVars, workerVars
<1>6. CASE Tick BY <1>6, TickType
<1>7. CASE UNCHANGED vars
  BY <1>7 DEF vars, storeVars, workerVars, TypeOK
<1> QED BY <1>1, <1>2, <1>3, <1>4, <1>5, <1>6, <1>7 DEF Next

(* Every variable keeps its type; a worker that asks for votes asks them   *)
(* for a node, never for the leader of no assignment.                      *)
THEOREM TypeCorrect == Spec => []TypeOK
BY InitType, NextType, PTL DEF Spec

-----------------------------------------------------------------------------
(* The approvals.                                                          *)

(* No lease runs longer than the vote a voter gives today. *)
Bounded == \A c \in Claims : \A n \in Node : c.left <= LeaseTtl[n]

(* A worker that counted no approval has none. *)
Counted == \A w \in Worker : oks[w] = 0 => claim[w].by = {}

(* The inductive invariant. *)
IInv == TypeOK /\ Counted /\ Bounded /\ ApprovalsHold /\ NoDoubleVote

(* Claim d is what is left of claim c. *)
LeftOf(d, c) ==
  /\ d.leader = c.leader /\ d.term = c.term
  /\ d.by \subseteq c.by /\ d.left <= c.left

(* What the workers and the past leases claim is well typed. *)
LEMMA ClaimsType == ASSUME TypeOK PROVE Claims \subseteq Claim
BY DEF Claims, TypeOK

(* A step under which every running claim that somebody approved is what   *)
(* is left of an earlier one, its voters standing behind it.               *)
LEMMA Carried ==
  ASSUME IInv, TypeOK', Counted',
         \A d \in Claims' : \A n \in Node : d.left <= LeaseTtl[n],
         \A d \in Claims' : d.left > 0 /\ d.by # {} =>
           /\ \E c \in Claims : LeftOf(d, c)
           /\ \A v \in d.by : Backs(v, d)'
  PROVE  IInv'
<1>1. Bounded' BY DEF Bounded
<1>2. ApprovalsHold' BY DEF ApprovalsHold
<1>3. NoDoubleVote'
  <2> SUFFICES ASSUME NEW c \in Claims', NEW d \in Claims', Rivals(c, d),
                      NEW v \in c.by \cap d.by
               PROVE  FALSE
    BY DEF NoDoubleVote, Rivals
  <2>1. PICK a \in Claims : LeftOf(c, a) BY DEF Rivals
  <2>2. PICK b \in Claims : LeftOf(d, b) BY DEF Rivals
  <2>3. /\ a \in Claim /\ b \in Claim BY ClaimsType DEF IInv
  <2>4. c \in Claim /\ d \in Claim
    BY DEF TypeOK, Claims
  <2>5. Rivals(a, b)
    <3>1. /\ a.left \in Nat /\ b.left \in Nat /\ c.left \in Nat /\ d.left \in Nat
      BY <2>3, <2>4 DEF Claim
    <3>2. c.left > 0 /\ d.left > 0 /\ c.term = d.term /\ c.leader # d.leader
      BY DEF Rivals
    <3>3. /\ c.left <= a.left /\ c.term = a.term /\ c.leader = a.leader
          /\ d.left <= b.left /\ d.term = b.term /\ d.leader = b.leader
      BY <2>1, <2>2 DEF LeftOf
    <3>4. a.left > 0 /\ b.left > 0 BY <3>1, <3>2, <3>3
    <3> QED BY <3>2, <3>3, <3>4 DEF Rivals
  <2>6. v \in a.by \cap b.by
    <3>1. c.by \subseteq a.by /\ d.by \subseteq b.by BY <2>1, <2>2 DEF LeftOf
    <3> QED BY <3>1
  <2>7. a.by \cap b.by = {} BY <2>5 DEF IInv, NoDoubleVote
  <2> QED BY <2>6, <2>7
<1> QED BY <1>1, <1>2, <1>3 DEF IInv

(* The common case: the votes stay as they are. *)
LEMMA Kept ==
  ASSUME IInv, TypeOK', Counted', votes' = votes,
         \A d \in Claims' : \A n \in Node : d.left <= LeaseTtl[n],
         \A d \in Claims' : d.by = {} \/ d \in Claims
  PROVE  IInv'
<1>1. ASSUME NEW d \in Claims', d.left > 0, d.by # {}
      PROVE  /\ \E c \in Claims : LeftOf(d, c)
             /\ \A v \in d.by : Backs(v, d)'
  <2>1. d \in Claims /\ d \in Claim BY <1>1, ClaimsType DEF IInv
  <2>2. LeftOf(d, d) BY <2>1 DEF LeftOf, Claim
  <2>3. \A v \in d.by : Backs(v, d) BY <1>1, <2>1 DEF IInv, ApprovalsHold
  <2> QED BY <2>1, <2>2, <2>3 DEF Backs
<1> QED BY <1>1, Carried

(* A vote granted to m leaves every claim its voters. *)
LEMMA GrantKeeps ==
  ASSUME IInv, UniformTtl, NEW m \in Request,
         NEW d \in Claims, d.left > 0, NEW v \in d.by
  PROVE  LET x == VotesAfter(m)[v] IN
           /\ x.left >= d.left
           /\ x.term >= d.term
           /\ x.term = d.term => x.leader = d.leader
<1>1. Backs(v, d) BY DEF IInv, ApprovalsHold
<1>2. d \in Claim BY ClaimsType DEF IInv
<1>3. v \in Node /\ votes[v] \in Lease BY <1>2 DEF IInv, TypeOK, Claim
<1>4. CASE ~(Granted(m) /\ m.to = v)
  <2>1. CASE ~Granted(m)
    BY <1>1, <2>1 DEF VotesAfter, Backs
  <2>2. CASE m.to # v
    <3>1. VotesAfter(m)[v] = votes[v]
      BY <1>3, <2>2 DEF VotesAfter, IInv, TypeOK
    <3> QED BY <1>1, <3>1 DEF Backs
  <2> QED BY <1>4, <2>1, <2>2
<1>5. CASE Granted(m) /\ m.to = v
  <2>1. VotesAfter(m)[v] =
          [leader |-> m.leader, term |-> m.term, left |-> LeaseTtl[m.leader]]
    BY <1>3, <1>5 DEF VotesAfter, IInv, TypeOK
  <2>2. d.left <= LeaseTtl[m.leader] BY DEF IInv, Bounded, Request
  <2>3. \/ votes[v].term < m.term
        \/ votes[v].term = m.term /\ votes[v].leader = m.leader
    <3>1. votes[v].left > 0 BY <1>1, <1>2, <1>3 DEF Backs, Claim, Lease
    <3> QED BY <1>5, <3>1 DEF Granted, RequestOk, RenewOk
  <2>4. m.term \in Nat /\ d.term \in Nat /\ votes[v].term \in Nat
        /\ LeaseTtl[m.leader] \in Nat /\ d.left \in Nat
    BY <1>2, <1>3 DEF Request, Claim, Lease
  <2> QED BY <1>1, <2>1, <2>2, <2>3, <2>4 DEF Backs
<1> QED BY <1>4, <1>5

(* Nothing is claimed in the initial states. *)
LEMMA InitIInv == Init /\ TypeOK => IInv
<1> SUFFICES ASSUME Init, TypeOK PROVE IInv
  OBVIOUS
<1>1. \A c \in Claims : c = NoClaim BY DEF Init, Claims
<1>2. \A c \in Claims : c.left = 0 /\ c.by = {} BY <1>1 DEF NoClaim
<1>3. Bounded
  <2>1. \A n \in Node : 0 <= LeaseTtl[n] OBVIOUS
  <2> QED BY <1>2, <2>1 DEF Bounded
<1>4. ApprovalsHold BY <1>2 DEF ApprovalsHold
<1>5. NoDoubleVote BY <1>2 DEF NoDoubleVote, Rivals
<1>6. Counted BY DEF Init, Counted, NoClaim
<1> QED BY <1>3, <1>4, <1>5, <1>6 DEF IInv

(* Workers that get no new approval. *)
LEMMA ReturnKeeps ==
  ASSUME IInv, TypeOK', NEW w \in Worker, Return(w), votes' = votes,
         wins' = wins \/ wins' = wins \cup {claim[w]}
  PROVE  IInv'
<1>1. /\ \A u \in Worker : claim'[u] = claim[u] \/ claim'[u] = NoClaim
      /\ claim[w] \in Claims
  BY DEF Return, Claims, IInv, TypeOK
<1>2. \A d \in Claims' : d \in Claims \/ d = NoClaim
  BY <1>1 DEF Claims
<1>3. NoClaim.left = 0 /\ NoClaim.by = {} BY DEF NoClaim
<1>4. \A d \in Claims' : \A n \in Node : d.left <= LeaseTtl[n]
  BY <1>2, <1>3 DEF IInv, Bounded
<1>5. \A d \in Claims' : d.by = {} \/ d \in Claims BY <1>2, <1>3
<1>6. Counted' BY DEF IInv, Counted, Return, NoClaim, TypeOK
<1> QED BY <1>4, <1>5, <1>6, Kept

(* A claim that nobody has approved yet does no harm. *)
LEMMA NewClaimKeeps ==
  ASSUME IInv, TypeOK', UniformTtl, NEW w \in Worker, NEW c,
         claim' = [claim EXCEPT ![w] = c], UNCHANGED <<votes, wins, oks>>,
         c.by = {}, \A n \in Node : c.left <= LeaseTtl[n]
  PROVE  IInv'
<1>1. \A u \in Worker : claim'[u] = claim[u] \/ claim'[u] = c
  BY DEF IInv, TypeOK
<1>2. \A d \in Claims' : d \in Claims \/ d = c BY <1>1 DEF Claims
<1>3. \A d \in Claims' : \A n \in Node : d.left <= LeaseTtl[n]
  BY <1>2 DEF IInv, Bounded
<1>4. \A d \in Claims' : d.by = {} \/ d \in Claims BY <1>2
<1>5. Counted' BY DEF IInv, Counted, TypeOK
<1> QED BY <1>3, <1>4, <1>5, Kept

(* Steps that touch neither votes nor claims. *)
LEMMA IdleKeeps ==
  ASSUME IInv, TypeOK', UNCHANGED <<votes, wins, claim, oks>> PROVE IInv'
<1>1. Claims' = Claims BY DEF Claims
<1>2. Counted' BY DEF IInv, Counted
<1> QED BY <1>1, <1>2, Kept DEF IInv, Bounded

(* Beginning to ask for votes keeps the invariant. *)
LEMMA CanvassKeeps ==
  ASSUME IInv, TypeOK', UniformTtl, NEW w \in Worker,
         NEW l, NEW t, NEW r, Canvass(w, l, t, r), UNCHANGED <<votes, wins>>
  PROVE  IInv'
<1>1. CASE Voters(l) = {}
  BY <1>1, ReturnKeeps DEF Canvass
<1>2. CASE Voters(l) # {}
  <2> DEFINE c == [leader |-> l, term |-> t, left |-> 0, by |-> {},
                   needed |-> Required(Cardinality(Voters(l)))]
  <2>1. claim' = [claim EXCEPT ![w] = c] /\ oks' = oks BY <1>2 DEF Canvass
  <2>2. c.by = {} /\ c.left = 0 OBVIOUS
  <2> HIDE DEF c
  <2>3. \A n \in Node : c.left <= LeaseTtl[n] BY <2>2
  <2> QED BY <2>1, <2>2, <2>3, NewClaimKeeps
<1> QED BY <1>1, <1>2

(* An approval: the vote of v now stands behind the claim of w. *)
LEMMA AskKeeps ==
  ASSUME IInv, TypeOK', UniformTtl, NEW w \in Worker, NEW v \in Node, Ask(w, v)
  PROVE  IInv'
<1>m. PICK m : m = RequestOf(w, v) OBVIOUS
<1>o. PICK old : old = claim[w] OBVIOUS
<1>k. PICK k : k = oks[w] OBVIOUS
<1>n. PICK new : new = Approved(old, v, k) OBVIOUS
<1>1. m \in Request BY <1>m, RequestOfType DEF IInv, Ask, Asking
<1>2. votes' = VotesAfter(m) /\ wins' = wins BY <1>m DEF Ask
<1>3. ASSUME NEW d \in Claims, d.left > 0, NEW u \in d.by PROVE Backs(u, d)'
  BY <1>1, <1>2, <1>3, GrantKeeps DEF Backs
<1>4. CASE ~Granted(m)
  <2>1. claim' = claim /\ oks' = oks BY <1>4, <1>m DEF Ask
  <2>2. Claims' = Claims BY <1>2, <2>1 DEF Claims
  <2>3. Counted' BY <2>1 DEF IInv, Counted
  <2>4. \A d \in Claims : d \in Claim BY ClaimsType DEF IInv
  <2>5. \A d \in Claims : LeftOf(d, d) BY <2>4 DEF LeftOf, Claim
  <2>6. \A d \in Claims' : \A n \in Node : d.left <= LeaseTtl[n]
    BY <2>2 DEF IInv, Bounded
  <2> QED BY <1>3, <2>2, <2>3, <2>5, <2>6, Carried
<1>5. CASE Granted(m)
  <2>1. /\ claim' = [claim EXCEPT ![w] = new]
        /\ oks' = [oks EXCEPT ![w] = k + 1]
    BY <1>5, <1>m, <1>o, <1>k, <1>n DEF Ask
  <2>2. old \in Claim /\ old.leader \in Node /\ old \in Claims /\ k \in Nat
    BY <1>o, <1>k DEF IInv, TypeOK, Ask, Asking, Claims
  <2>3. /\ new \in Claim /\ new.leader = old.leader /\ new.term = old.term
        /\ new.by = old.by \cup {v}
    <3>1. /\ Approved(old, v, k) \in Claim
          /\ Approved(old, v, k).leader = old.leader
          /\ Approved(old, v, k).term = old.term
          /\ Approved(old, v, k).by = old.by \cup {v}
      BY <2>2, ApprovedType
    <3> QED BY <1>n, <3>1
  <2>4. new.left <= LeaseTtl[old.leader]
    <3>1. LeaseTtl[old.leader] \in Nat /\ old.left \in Nat
      BY <2>2 DEF Claim
    <3> QED BY <1>n, <2>2, <3>1 DEF Approved, Lesser, Claim
  <2>6. new.left > 0 /\ old.by # {} => old.left > 0 /\ new.left <= old.left
    <3>1. old.by # {} => k # 0 BY <1>o, <1>k DEF IInv, Counted
    <3>2. LeaseTtl[old.leader] \in Nat /\ old.left \in Nat
      BY <2>2 DEF Claim
    <3>3. k # 0 => new.left = Lesser(old.left, LeaseTtl[old.leader])
      BY <1>n, <2>2 DEF Approved, Claim
    <3> QED BY <3>1, <3>2, <3>3 DEF Lesser
  <2>7. VotesAfter(m)[v] =
          [leader |-> old.leader, term |-> old.term, left |-> LeaseTtl[old.leader]]
    BY <1>5, <1>m, <1>o DEF VotesAfter, RequestOf, IInv, TypeOK
  <2>8. new.left > 0 => \A u \in new.by : Backs(u, new)'
    <3> SUFFICES ASSUME new.left > 0, NEW u \in new.by PROVE Backs(u, new)'
      OBVIOUS
    <3>1. /\ new.left \in Nat /\ new.term \in Nat /\ old.left \in Nat
      BY <2>2, <2>3 DEF Claim
    <3>2. CASE u = v
      BY <1>2, <2>3, <2>4, <2>7, <3>1, <3>2 DEF Backs
    <3>3. CASE u \in old.by
      <4>1. old.left > 0 /\ new.left <= old.left BY <2>6, <3>3
      <4>2. Backs(u, old)' BY <1>3, <2>2, <3>3, <4>1
      <4>3. u \in Node /\ VotesAfter(m)[u].left \in Nat
        <5>1. u \in Node BY <2>2, <3>3 DEF Claim
        <5>2. VotesAfter(m) \in [Node -> Lease] BY <1>1, VotesAfterType DEF IInv
        <5> QED BY <5>1, <5>2 DEF Lease
      <4> QED BY <1>2, <2>3, <3>1, <4>1, <4>2, <4>3 DEF Backs
    <3> QED BY <2>3, <3>2, <3>3
  <2>9. \A u \in Worker : claim'[u] = claim[u] \/ claim'[u] = new
    BY <2>1 DEF IInv, TypeOK
  <2>10. \A d \in Claims' : d \in Claims \/ d = new
    BY <1>2, <2>9 DEF Claims
  <2>11. Counted'
    BY <2>1, <2>2 DEF IInv, TypeOK, Counted
  <2>12. Bounded'
    <3>1. \A n \in Node : new.left <= LeaseTtl[n]
      BY <2>2, <2>4 DEF UniformTtl
    <3> QED BY <2>10, <3>1 DEF IInv, Bounded
  <2>13. ApprovalsHold' BY <1>3, <2>8, <2>10 DEF ApprovalsHold
  <2>14. ASSUME NEW d \in Claims, Rivals(new, d) PROVE new.by \cap d.by = {}
    <3>1. v \notin d.by
      <4> SUFFICES ASSUME v \in d.by PROVE FALSE
        OBVIOUS
      <4>1. Backs(v, d)' BY <1>3, <2>14 DEF Rivals
      <4> QED BY <1>2, <2>3, <2>7, <2>14, <4>1 DEF Backs, Rivals
    <3>2. old.by \cap d.by = {}
      <4> SUFFICES ASSUME old.by # {} PROVE old.by \cap d.by = {}
        OBVIOUS
      <4>1. Rivals(old, d) BY <2>3, <2>6, <2>14 DEF Rivals
      <4> QED BY <2>2, <4>1 DEF IInv, NoDoubleVote
    <3> QED BY <2>3, <3>1, <3>2
  <2>15. NoDoubleVote'
    <3> SUFFICES ASSUME NEW c \in Claims', NEW d \in Claims', Rivals(c, d)
                 PROVE  c.by \cap d.by = {}
      BY DEF NoDoubleVote, Rivals
    <3>1. CASE c \in Claims /\ d \in Claims
      BY <3>1 DEF IInv, NoDoubleVote
    <3>2. CASE c = new /\ d \in Claims BY <2>14, <3>2
    <3>3. CASE d = new /\ c \in Claims
      <4>1. Rivals(new, c) BY <3>3 DEF Rivals
      <4> QED BY <2>14, <3>3, <4>1
    <3>4. CASE c = new /\ d = new BY <3>4 DEF Rivals
    <3> QED BY <2>10, <3>1, <3>2, <3>3, <3>4
  <2> QED BY <2>11, <2>12, <2>13, <2>15 DEF IInv
<1> QED BY <1>4, <1>5

(* A voter that restarts, or gives its vote back, is struck off all claims. *)
LEMMA ForgetKeeps ==
  ASSUME IInv, TypeOK', Counted', NEW n \in Node, Forget(n),
         \A w \in Worker : claim'[w] = NoClaim \/ claim'[w] = WithoutVoter(claim[w], n)
  PROVE  IInv'
<1>1. \A c \in Claims : c \in Claim BY ClaimsType DEF IInv
<1>2. \A c \in Claim : /\ LeftOf(WithoutVoter(c, n), c)
                       /\ WithoutVoter(c, n).left = c.left
                       /\ WithoutVoter(c, n).by = c.by \ {n}
  BY DEF WithoutVoter, LeftOf, Claim
<1>3. \A d \in Claims' : d = NoClaim \/ \E c \in Claims : d = WithoutVoter(c, n)
  <2>1. wins' = {WithoutVoter(x, n) : x \in wins} BY DEF Forget, WithoutVoter
  <2>2. wins \subseteq Claims /\ \A w \in Worker : claim[w] \in Claims BY DEF Claims
  <2>3. ASSUME NEW d \in Claims' PROVE d \in wins' \/ \E w \in Worker : d = claim'[w]
    BY <2>3 DEF Claims
  <2> QED BY <2>1, <2>2, <2>3
<1>4. NoClaim.left = 0 /\ NoClaim.by = {} BY DEF NoClaim
<1>5. \A d \in Claims' : \A m \in Node : d.left <= LeaseTtl[m]
  BY <1>1, <1>2, <1>3, <1>4 DEF IInv, Bounded
<1>6. ASSUME NEW d \in Claims', d.left > 0, d.by # {}
      PROVE  /\ \E c \in Claims : LeftOf(d, c)
             /\ \A v \in d.by : Backs(v, d)'
  <2>1. PICK c \in Claims : d = WithoutVoter(c, n) BY <1>3, <1>4, <1>6
  <2>2. /\ LeftOf(d, c) /\ d.left = c.left /\ d.by = c.by \ {n} /\ c \in Claim
    BY <1>1, <1>2, <2>1
  <2>3. ASSUME NEW v \in d.by PROVE Backs(v, d)'
    <3>1. v \in Node /\ v # n BY <2>2, <2>3 DEF Claim
    <3>2. votes'[v] = votes[v] BY <3>1 DEF Forget, IInv, TypeOK
    <3>3. Backs(v, c) BY <1>6, <2>2, <2>3 DEF IInv, ApprovalsHold
    <3> QED BY <2>2, <3>2, <3>3 DEF Backs, LeftOf
  <2> QED BY <2>2, <2>3
<1> QED BY <1>5, <1>6, Carried

(* Time takes as much from every vote as from the leases it stands behind. *)
LEMMA TickKeeps ==
  ASSUME IInv, TypeOK', Tick PROVE IInv'
<1>1. \A c \in Claims : c \in Claim BY ClaimsType DEF IInv
<1>2. ASSUME NEW d \in Claims'
      PROVE  \E c \in Claims : /\ d.leader = c.leader /\ d.term = c.term
                               /\ d.by = c.by /\ d.left = Aged(c.left)
  <2>1. CASE d \in wins'
    <3>1. PICK c \in wins : c.left > 1 /\ d = [c EXCEPT !.left = @ - 1]
      BY <2>1 DEF Tick
    <3>2. c \in Claims /\ c \in Claim BY <1>1 DEF Claims
    <3>3. /\ d.leader = c.leader /\ d.term = c.term
          /\ d.by = c.by /\ d.left = c.left - 1
      BY <3>1, <3>2 DEF Claim
    <3>4. c.left - 1 = Aged(c.left) BY <3>1, <3>2 DEF Aged, Claim
    <3> QED BY <3>2, <3>3, <3>4
  <2>2. CASE \E w \in Worker : d = claim'[w]
    <3>1. PICK w \in Worker : d = claim'[w] BY <2>2
    <3>2. d = [claim[w] EXCEPT !.left = Aged(@)] BY <3>1 DEF Tick
    <3>3. claim[w] \in Claims /\ claim[w] \in Claim
      BY DEF Claims, IInv, TypeOK
    <3> QED BY <3>2, <3>3 DEF Claim
  <2> QED BY <1>2, <2>1, <2>2 DEF Claims
<1>3. \A k \in Nat : Aged(k) \in Nat /\ Aged(k) <= k /\ (Aged(k) > 0 => Aged(k) = k - 1)
  BY DEF Aged
<1>4. ASSUME NEW d \in Claims', NEW n \in Node PROVE d.left <= LeaseTtl[n]
  <2>1. PICK c \in Claims : d.left = Aged(c.left) BY <1>2
  <2>2. c.left \in Nat /\ c.left <= LeaseTtl[n] /\ LeaseTtl[n] \in Nat
    BY <1>1 DEF Claim, IInv, Bounded
  <2> QED BY <1>3, <2>1, <2>2
<1>5. ASSUME NEW d \in Claims', d.left > 0, d.by # {}
      PROVE  /\ \E c \in Claims : LeftOf(d, c)
             /\ \A v \in d.by : Backs(v, d)'
  <2>1. PICK c \in Claims : /\ d.leader = c.leader /\ d.term = c.term
                            /\ d.by = c.by /\ d.left = Aged(c.left)
    BY <1>2
  <2>2. c \in Claim /\ c.left \in Nat BY <1>1 DEF Claim
  <2>3. d.left = c.left - 1 /\ d.left <= c.left /\ c.left > 0
    BY <1>3, <1>5, <2>1, <2>2
  <2>4. LeftOf(d, c) BY <2>1, <2>3 DEF LeftOf
  <2>5. ASSUME NEW v \in d.by PROVE Backs(v, d)'
    <3>1. v \in Node /\ votes[v] \in Lease
      BY <2>1, <2>2, <2>5 DEF Claim, IInv, TypeOK
    <3>2. Backs(v, c) BY <2>1, <2>3, <2>5 DEF IInv, ApprovalsHold
    <3>3. /\ votes'[v].left = Aged(votes[v].left)
          /\ votes'[v].term = votes[v].term
          /\ votes'[v].leader = votes[v].leader
      BY <3>1 DEF Tick, Lease
    <3>4. votes[v].left \in Nat BY <3>1 DEF Lease
    <3>5. votes'[v].left >= d.left
      BY <2>2, <2>3, <3>2, <3>3, <3>4 DEF Backs, Aged
    <3> QED BY <2>1, <3>2, <3>3, <3>5 DEF Backs
  <2> QED BY <2>4, <2>5
<1>6. Counted'
  <2>1. \A w \in Worker : claim'[w].by = claim[w].by
    BY DEF Tick, IInv, TypeOK, Claim
  <2> QED BY <2>1 DEF Tick, IInv, Counted
<1> QED BY <1>4, <1>5, <1>6, Carried

(* The steps of reconcileCluster keep the invariant. *)
LEMMA ReconcileKeeps ==
  ASSUME IInv, TypeOK', UniformTtl, NEW w \in Worker, Reconcile(w) PROVE IInv'
<1>1. CASE Survey(w)
  <2>1. votes' = votes /\ wins' = wins BY <1>1 DEF Survey
  <2>2. CASE Return(w) BY <2>1, <2>2, ReturnKeeps
  <2>3. CASE Canvass(w, assignment.leader, assignment.term, TRUE)
    BY <2>1, <2>3, CanvassKeeps
  <2>4. CASE claim' = claim /\ oks' = oks BY <2>1, <2>4, IdleKeeps
  <2> QED BY <1>1, <2>2, <2>3, <2>4 DEF Survey
<1>2. CASE Elect(w)
  <2>1. votes' = votes /\ wins' = wins BY <1>2 DEF Elect
  <2>2. PICK n : Canvass(w, n, assignment.term + 1, FALSE) BY <1>2 DEF Elect
  <2> QED BY <2>1, <2>2, CanvassKeeps
<1>3. ASSUME NEW v \in Node, Ask(w, v) PROVE IInv'
  BY <1>3, AskKeeps
<1>4. ASSUME NEW v \in Node, AskFails(w, v) \/ AskTimesOut(w, v) PROVE IInv'
  BY <1>4, IdleKeeps DEF AskFails, AskTimesOut
<1>5. CASE GiveUp(w) BY <1>5, ReturnKeeps DEF GiveUp
<1>6. CASE Write(w) BY <1>6, ReturnKeeps DEF Write
<1> QED BY <1>1, <1>2, <1>3, <1>4, <1>5, <1>6 DEF Reconcile

(* The steps of the admin methods keep the invariant. *)
LEMMA AdminKeeps ==
  ASSUME IInv, TypeOK', UniformTtl, NEW w \in Worker, Admin(w) PROVE IInv'
<1>1. ASSUME NEW n \in Node, ForceRead(w, n) PROVE IInv'
  <2> DEFINE c == [NoClaim EXCEPT !.leader = n, !.term = assignment.term + 1,
                                  !.left = LeaseTtl[Host[w]]]
  <2>1. claim' = [claim EXCEPT ![w] = c] /\ UNCHANGED <<votes, wins, oks>>
    BY <1>1 DEF ForceRead
  <2>2. c.by = {} /\ c.left = LeaseTtl[Host[w]] BY DEF NoClaim
  <2>3. Host[w] \in Node OBVIOUS
  <2>4. LeaseTtl[Host[w]] \in Nat BY <2>3
  <2> HIDE DEF c
  <2>5. \A m \in Node : c.left <= LeaseTtl[m]
    <3>1. \A m \in Node : LeaseTtl[m] = LeaseTtl[Host[w]]
      BY <2>3 DEF UniformTtl
    <3> QED BY <2>2, <2>4, <3>1
  <2> QED BY <2>1, <2>2, <2>5, NewClaimKeeps
<1>2. CASE ForceWrite(w) BY <1>2, ReturnKeeps DEF ForceWrite
<1>3. CASE AddShard(w) \/ RemoveShard(w) \/ RemoveAssignment(w)
  BY <1>3, IdleKeeps DEF AddShard, RemoveShard, RemoveAssignment
<1> QED BY <1>1, <1>2, <1>3 DEF Admin

(* Starts, stops, crashes and departures keep the invariant. *)
LEMMA LifecycleKeeps ==
  ASSUME IInv, TypeOK', NEW n \in Node, Lifecycle(n) PROVE IInv'
<1>1. CASE Start(n) \/ Stop(n) \/ Leave(n)
  BY <1>1, IdleKeeps DEF Start, Stop, Leave, workerVars
<1>2. CASE Exit(n)
  <2>1. Counted'
    BY <1>2 DEF Exit, Counted, IInv, TypeOK, NoClaim, WithoutVoter, Claim
  <2> QED BY <1>2, <2>1, ForgetKeeps DEF Exit
<1>3. CASE ReleaseLease(n)
  <2>1. Counted'
    BY <1>3 DEF ReleaseLease, Counted, IInv, TypeOK, WithoutVoter, Claim
  <2> QED BY <1>3, <2>1, ForgetKeeps DEF ReleaseLease
<1> QED BY <1>1, <1>2, <1>3 DEF Lifecycle, ExitAfterStop, Crash

(* A request served late keeps the invariant: nobody counts the answer. *)
LEMMA DeliverKeeps ==
  ASSUME IInv, TypeOK', UniformTtl, NEW m \in late, Deliver(m) PROVE IInv'
<1>1. m \in Request BY DEF IInv, TypeOK
<1>2. Claims' = Claims /\ Counted'
  BY DEF Deliver, Claims, Counted, IInv, workerVars
<1>3. \A d \in Claims : LeftOf(d, d)
  BY ClaimsType DEF IInv, LeftOf, Claim
<1>4. ASSUME NEW d \in Claims, d.left > 0, NEW u \in d.by PROVE Backs(u, d)'
  BY <1>1, <1>4, GrantKeeps DEF Backs, Deliver
<1>5. \A d \in Claims' : \A n \in Node : d.left <= LeaseTtl[n]
  BY <1>2 DEF IInv, Bounded
<1> QED BY <1>2, <1>3, <1>4, <1>5, Carried

(* IInv is inductive if all leases have one length. *)
LEMMA NextIInv == UniformTtl /\ IInv /\ TypeOK' /\ [Next]_vars => IInv'
<1> SUFFICES ASSUME UniformTtl, IInv, TypeOK', [Next]_vars PROVE IInv'
  OBVIOUS
<1>1. ASSUME NEW w \in Worker, Reconcile(w) PROVE IInv'
  BY <1>1, ReconcileKeeps
<1>2. ASSUME NEW w \in Worker, Admin(w) PROVE IInv'
  BY <1>2, AdminKeeps
<1>3. ASSUME NEW n \in Node, Lifecycle(n) PROVE IInv'
  BY <1>3, LifecycleKeeps
<1>4. ASSUME NEW m \in late, Deliver(m) PROVE IInv'
  BY <1>4, DeliverKeeps
<1>5. ASSUME NEW r \in Reaches, SetReach(r) PROVE IInv'
  BY <1>5, IdleKeeps DEF SetReach, workerVars
<1>6. CASE Tick BY <1>6, TickKeeps
<1>7. CASE UNCHANGED vars
  BY <1>7, IdleKeeps DEF vars, workerVars
<1> QED BY <1>1, <1>2, <1>3, <1>4, <1>5, <1>6, <1>7 DEF Next

(* With one leaseMs for all members, whatever rounds run at once, requests *)
(* are lost or late, nodes restart and admins force: a voter's vote stands *)
(* behind every running lease it approved.                                 *)
THEOREM ApprovalsHoldAlways ==
  ASSUME UniformTtl PROVE Spec => []ApprovalsHold
<1>1. Init => TypeOK /\ IInv BY InitType, InitIInv
<1>2. TypeOK /\ IInv /\ [Next]_vars => (TypeOK /\ IInv)'
  BY NextType, NextIInv
<1>3. IInv => ApprovalsHold BY DEF IInv
<1> QED BY <1>1, <1>2, <1>3, PTL DEF Spec

(* And so no voter stands behind two running leases of one term.           *)
THEOREM NoDoubleVoteEver ==
  ASSUME UniformTtl PROVE Spec => []NoDoubleVote
<1>1. Init => TypeOK /\ IInv BY InitType, InitIInv
<1>2. TypeOK /\ IInv /\ [Next]_vars => (TypeOK /\ IInv)'
  BY NextType, NextIInv
<1>3. IInv => NoDoubleVote BY DEF IInv
<1> QED BY <1>1, <1>2, <1>3, PTL DEF Spec

(* Two sets of voters that outnumber the nodes have a voter in common.     *)
LEMMA QuorumsMeet ==
  ASSUME NEW S \in SUBSET Node, NEW T \in SUBSET Node,
         Cardinality(S) + Cardinality(T) > Cardinality(Node)
  PROVE  S \cap T # {}
<1>1. IsFiniteSet(Node) OBVIOUS
<1>2. IsFiniteSet(S) /\ IsFiniteSet(T) /\ IsFiniteSet(S \cup T)
  BY <1>1, FS_Subset, FS_Union
<1>3. Cardinality(S \cup T) <= Cardinality(Node) BY <1>1, FS_Subset
<1>4. Cardinality(S \cup T) =
        Cardinality(S) + Cardinality(T) - Cardinality(S \cap T)
  BY <1>2, FS_Union
<1>5. Cardinality({}) = 0 BY FS_EmptySet
<1>6. /\ Cardinality(S) \in Nat /\ Cardinality(T) \in Nat
      /\ Cardinality(Node) \in Nat
  BY <1>1, <1>2, FS_CardinalityType
<1>7. Cardinality(S \cap T) # 0
  <2> HIDE DEF ElectionAssumption
  <2> QED BY <1>3, <1>4, <1>6
<1> QED BY <1>5, <1>7

(* Hence one running lease a term, whenever the two leaders' quorums are   *)
(* large enough to meet and no approver restarted since.                   *)
THEOREM OneLeasePerTermAlways ==
  ASSUME UniformTtl PROVE Spec => []OneLeasePerTerm
<1>1. Init => TypeOK /\ IInv BY InitType, InitIInv
<1>2. TypeOK /\ IInv /\ [Next]_vars => (TypeOK /\ IInv)'
  BY NextType, NextIInv
<1>3. IInv => OneLeasePerTerm
  <2> SUFFICES ASSUME IInv, NEW c \in Held, NEW d \in Held,
                      Intact(c), Intact(d),
                      c.needed + d.needed > Cardinality(Node), Rivals(c, d)
               PROVE  FALSE
    BY DEF OneLeasePerTerm
  <2>1. /\ c \in Claims /\ d \in Claims BY DEF Held, Claims
  <2>2. c \in Claim /\ d \in Claim BY <2>1, ClaimsType DEF IInv
  <2>3. c.by \cap d.by = {} BY <2>1 DEF IInv, NoDoubleVote
  <2>4. /\ c.by \in SUBSET Node /\ d.by \in SUBSET Node
        /\ c.needed \in Nat /\ d.needed \in Nat
    BY <2>2 DEF Claim
  <2>5. /\ IsFiniteSet(c.by) /\ IsFiniteSet(d.by) /\ IsFiniteSet(Node)
    BY <2>4, FS_Subset
  <2>6. /\ Cardinality(c.by) \in Nat /\ Cardinality(d.by) \in Nat
        /\ Cardinality(Node) \in Nat
    BY <2>5, FS_CardinalityType
  <2>7. Cardinality(c.by) + Cardinality(d.by) > Cardinality(Node)
    BY <2>4, <2>6 DEF Intact
  <2> QED BY <2>3, <2>4, <2>7, QuorumsMeet
<1> QED BY <1>1, <1>2, <1>3, PTL DEF Spec
=============================================================================
