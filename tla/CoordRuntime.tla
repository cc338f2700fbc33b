---------------------------- MODULE CoordRuntime ----------------------------
(***************************************************************************)
(* The coord command line and the daemons it starts                        *)
(* (src/src/cord/coord_runtime.ts).  A command is a process that reads and *)
(* writes the catalogue of nodes in the coord store, each time in a        *)
(* session of its own (CoordStorage), and the mirror of it in nodes.json;  *)
(* it starts daemons and stops them by their process ids.  A daemon opens  *)
(* the store once and works on that one until it ends.                     *)
(*                                                                         *)
(* The catalogue maps a node, which is also its key in the store, to the   *)
(* process id of its daemon, or to 0.  A daemon's epoch is as unique as    *)
(* its process id and stands for it; every node has an address of its own. *)
(* Left out are the discovery cache, which nothing but -save reads, the    *)
(* output, and process ids that come into use again.                       *)
(***************************************************************************)
EXTENDS CoordStorage

CONSTANTS
  Cli, Pid,         \* processes of commands, and those of daemons
  Budgets           \* bounds: the requests that may come and how many, one by
                    \* one or side by side, deaths, slow starts and so on

ASSUME CoordRuntimeAssumption ==
  /\ Process = Cli \cup Pid
  /\ Pid \subseteq Nat \ {0}

VARIABLES
  daemon,       \* the daemon of each process id
  mirror,       \* nodes.json: a catalogue, or the export that -save writes
  command,      \* the command each process carries out
  budget

runtimeVars == <<daemon, mirror, command, budget>>
coordVars == <<storageVars, runtimeVars>>

CoordNode == Key
NoNodes == [n \in CoordNode |-> Absent]
Known(nodes) == {n \in CoordNode : nodes[n] # Absent}

isPidAlive(v) == v \in Pid /\ daemon[v].phase \in {"starting", "serving"}
waitForHttpNode(n) == \E q \in Pid : daemon[q] = [phase |-> "serving", node |-> n]

(* A command: what was asked, where it is, where it goes on after loading  *)
(* or saving the catalogue, the catalogue it has in hand, the nodes still  *)
(* to be dealt with and the one it starts.                                 *)
Command(ask, pc, then) ==
  [ask |-> ask, pc |-> pc, then |-> then, nodes |-> NoNodes, running |-> {},
   queue |-> {}, node |-> 0, pid |-> 0, rescue |-> FALSE]

At(p, pc) == command[p] # Idle /\ command[p].pc = pc
Goes(p, c) == command' = [command EXCEPT ![p] = c]
To(c, pc) == [c EXCEPT !.pc = pc]
LoadThen(c, then) == [c EXCEPT !.pc = "load", !.then = then]
SaveThen(c, then) == [c EXCEPT !.pc = "save", !.then = then]

(* An error ends a command.  Once the nodes that ran are stopped, a switch *)
(* of the storage that fails, or that cannot start a node again, starts    *)
(* them all, come what may.                                                *)
Fails(c) ==
  IF c.rescue THEN To(c, "next")
  ELSE IF c.ask.kind = "stor"
          /\ (c.pc = "switching" \/ c.then \in {"check", "await", "timedOut"})
       THEN [To(c, "next") EXCEPT !.rescue = TRUE, !.queue = c.running]
       ELSE Idle

OnlyCommand == UNCHANGED <<storageVars, daemon, mirror, budget>>
OpensSession(p, task, c) ==
  /\ Becomes(p, NewSession(task))
  /\ Goes(p, c)
  /\ OnlySession
  /\ UNCHANGED <<daemon, mirror, budget>>

(* The first in the order of their names.                                  *)
First(S) == CHOOSE n \in S : \A x \in S : n <= x

-----------------------------------------------------------------------------
(* The catalogue.                                                          *)

Catalogue(entries) ==
  [n \in CoordNode |-> IF n \in KeysOf(entries)
                  THEN entries[CHOOSE i \in DOMAIN entries : entries[i].key = n].value
                  ELSE Absent]

Entries(nodes) == LET ids == Sorted(Known(nodes))
                  IN [i \in DOMAIN ids |-> Entry(ids[i], nodes[ids[i]])]

loadNodes(p) ==
  /\ At(p, "load")
  /\ OpensSession(p, Task("list", TRUE), To(command[p], "loading"))

(* An empty store is filled from the mirror, unless that holds an export,  *)
(* over which the code stumbles.                                           *)
NodesLoaded(p) ==
  LET c == command[p]
      s == session[p]
      stored == Catalogue(s.entries)
  IN
  /\ At(p, "loading") /\ Finished(p)
  /\ Becomes(p, Idle)
  /\ OnlySession
  /\ IF s.ok /\ s.entries # <<>>
     THEN /\ mirror' = [export |-> FALSE, nodes |-> stored]
          /\ Goes(p, [To(c, c.then) EXCEPT !.nodes = stored])
     ELSE /\ Goes(p, IF ~s.ok \/ mirror.export THEN Fails(c)
                     ELSE [To(c, IF mirror.nodes = NoNodes THEN c.then ELSE "save")
                             EXCEPT !.nodes = mirror.nodes])
          /\ UNCHANGED mirror
  /\ UNCHANGED <<daemon, budget>>

saveNodes(p) ==
  /\ At(p, "save")
  /\ OpensSession(p, [Task("fill", TRUE) EXCEPT !.entries = Entries(command[p].nodes)],
                  To(command[p], "saving"))

NodesSaved(p) ==
  LET c == command[p] IN
  /\ At(p, "saving") /\ Finished(p)
  /\ Becomes(p, Idle)
  /\ OnlySession
  /\ IF session[p].ok
     THEN mirror' = [export |-> FALSE, nodes |-> c.nodes] /\ Goes(p, To(c, c.then))
     ELSE UNCHANGED mirror /\ Goes(p, Fails(c))
  /\ UNCHANGED <<daemon, budget>>

-----------------------------------------------------------------------------
(* Daemons.                                                                *)

Starting(n) == [phase |-> "starting", node |-> n]
Unborn == {q \in Pid : daemon[q].phase = "unborn"}

Dead(q) == daemon' = [daemon EXCEPT ![q].phase = "dead"] /\ Becomes(q, Idle)

(* runServeMode: the store is open, the node listens.  Its address may be  *)
(* taken by another daemon of the same node.                               *)
Serve(q) ==
  /\ daemon[q].phase = "starting"
  /\ \/ /\ Holding(q) /\ ~waitForHttpNode(daemon[q].node)
        /\ daemon' = [daemon EXCEPT ![q].phase = "serving"]
        /\ UNCHANGED session
     \/ /\ Finished(q) \/ (Holding(q) /\ waitForHttpNode(daemon[q].node))
        /\ Dead(q)
  /\ OnlySession
  /\ UNCHANGED <<mirror, command, budget>>

DaemonDies(q) ==
  /\ isPidAlive(q)
  /\ budget.deaths > 0
  /\ budget' = [budget EXCEPT !.deaths = @ - 1]
  /\ Dead(q)
  /\ OnlySession
  /\ UNCHANGED <<mirror, command>>

(* startNodeDaemon, after it loaded the catalogue: a daemon that answers   *)
(* is left alone.                                                          *)
Check(p) ==
  LET c == command[p]
      n == c.node
      q == First(Unborn)
  IN
  /\ At(p, "check")
  /\ IF isPidAlive(c.nodes[n]) /\ waitForHttpNode(n)
     THEN Goes(p, To(c, "next")) /\ UNCHANGED <<daemon, session>>
     ELSE /\ Unborn # {}
          /\ daemon' = [daemon EXCEPT ![q] = Starting(n)]
          /\ Becomes(q, NewSession(Task("hold", FALSE)))
          /\ Goes(p, [SaveThen(c, "await") EXCEPT !.nodes[n] = q, !.pid = q])
  /\ OnlySession
  /\ UNCHANGED <<mirror, budget>>

Await(p) ==
  LET c == command[p] IN
  /\ At(p, "await")
  /\ daemon[c.pid].phase = "serving"
  /\ Goes(p, To(c, "next"))
  /\ OnlyCommand

Late(p) ==
  LET c == command[p] IN
  /\ At(p, "await")
  /\ \/ daemon[c.pid].phase = "dead" /\ UNCHANGED budget
     \/ /\ daemon[c.pid].phase = "starting" /\ budget.slow > 0
        /\ budget' = [budget EXCEPT !.slow = @ - 1]
  /\ Goes(p, [SaveThen(c, "timedOut") EXCEPT !.nodes[c.node] = Absent])
  /\ OnlySession
  /\ UNCHANGED mirror

(* Mutant: a daemon that is late is left to itself.                        *)
GiveUpAlive(p) == Late(p) /\ UNCHANGED <<daemon, session>>

(* It did not come up in time, or at all: it is killed and taken out.      *)
GiveUpStart(p) == Late(p) /\ Dead(command[p].pid)

TimedOut(p) ==
  /\ At(p, "timedOut")
  /\ Goes(p, Fails(command[p]))
  /\ OnlyCommand

(* The next node to start, or the end of the command.                      *)
NextStart(p) ==
  LET c == command[p]
      n == First(c.queue)
  IN
  /\ At(p, "next")
  /\ Goes(p, IF c.queue = {} THEN Idle
             ELSE [LoadThen(c, "check") EXCEPT !.node = n, !.queue = @ \ {n}])
  /\ OnlyCommand

-----------------------------------------------------------------------------
(* The commands.                                                           *)

(* What a command begins with: start provisions the storage, tasks and the *)
(* storage status are sessions and no more.                                *)
Begin(p, ask) ==
  /\ command[p] = Idle
  /\ ~budget.alone \/ \A x \in Cli : command[x] = Idle
  /\ budget.requests > 0
  /\ budget' = [budget EXCEPT !.requests = @ - 1]
  /\ IF ask.kind \in {"start", "task"}
     THEN Becomes(p, NewSession(IF ask.kind = "start" THEN Task("inspect", TRUE)
                                ELSE [ask.task EXCEPT !.entries =
                                       [i \in DOMAIN @ |-> [@[i] EXCEPT !.value = budget.requests]]]))
          /\ Goes(p, Command(ask, "provision", "none"))
     ELSE UNCHANGED session /\
          Goes(p, IF ask.kind = "load"
                  THEN [Command(ask, "save", "none") EXCEPT !.nodes = mirror.nodes]
                  ELSE Command(ask, "load", ask.kind))
  /\ OnlySession
  /\ UNCHANGED <<daemon, mirror>>

Provisioned(p) ==
  LET c == command[p] IN
  /\ At(p, "provision") /\ Finished(p)
  /\ Goes(p, IF c.ask.kind = "start" /\ session[p].ok
             THEN [LoadThen(c, "check") EXCEPT !.node = c.ask.node] ELSE Idle)
  /\ Becomes(p, Idle)
  /\ OnlySession
  /\ UNCHANGED <<daemon, mirror, budget>>

(* status, and the end of load, stop and cleanup.                          *)
End(p) ==
  /\ At(p, "status") \/ At(p, "none")
  /\ Goes(p, Idle)
  /\ OnlyCommand

(* save to the default path: the export takes the place of the mirror.     *)
Export(p) ==
  /\ At(p, "save to file")
  /\ mirror' = [export |-> TRUE, nodes |-> command[p].nodes]
  /\ Goes(p, Idle)
  /\ UNCHANGED <<storageVars, daemon, budget>>

Restore(p) ==
  LET c == command[p] IN
  /\ At(p, "restore")
  /\ Goes(p, [LoadThen(c, "next") EXCEPT !.queue = Known(c.nodes)])
  /\ OnlyCommand

(* stop, which does nothing but fail when it knows none of the nodes.      *)
Select(p) ==
  LET c == command[p]
      chosen == Known(c.nodes) \cap c.ask.nodes
  IN
  /\ At(p, "stop")
  /\ Goes(p, IF chosen = {} THEN Idle ELSE [LoadThen(c, "kill") EXCEPT !.queue = chosen])
  /\ OnlyCommand

Running(nodes) == {n \in Known(nodes) : isPidAlive(nodes[n]) \/ waitForHttpNode(n)}

(* Mutant: the storage is switched under the nodes that run.               *)
collectNodes(p) ==
  LET c == command[p] IN
  /\ At(p, "stor")
  /\ Goes(p, [To(c, "switch") EXCEPT !.then = "switch", !.running = Running(c.nodes)])
  /\ OnlyCommand

(* stor: the nodes that run are stopped, and started again in the end.     *)
collectRunningNodes(p) ==
  LET c == command[p]
      running == Running(c.nodes)
  IN
  /\ At(p, "stor")
  /\ Goes(p, IF running = {} THEN [To(c, "switch") EXCEPT !.then = "switch"]
             ELSE [LoadThen(c, "kill") EXCEPT !.queue = running, !.running = running])
  /\ OnlyCommand

(* stopNodes.                                                              *)
Kill(p) ==
  LET c == command[p]
      n == First(c.queue)
      kept == [c EXCEPT !.queue = @ \ {n}, !.nodes[n] = IF @ = Absent THEN @ ELSE 0]
  IN
  /\ At(p, "kill")
  /\ Goes(p, IF c.queue # {} THEN kept
             ELSE SaveThen(c, IF c.ask.kind = "stor" THEN "switch" ELSE "none"))
  /\ IF c.queue # {} /\ isPidAlive(c.nodes[n]) THEN Dead(c.nodes[n])
     ELSE UNCHANGED <<daemon, session>>
  /\ OnlySession
  /\ UNCHANGED <<mirror, budget>>

Switch(p) ==
  /\ At(p, "switch")
  /\ OpensSession(p, [Task("switch", FALSE) EXCEPT !.to = command[p].ask.to],
                  To(command[p], "switching"))

Switched(p) ==
  LET c == command[p] IN
  /\ At(p, "switching") /\ Finished(p)
  /\ Becomes(p, Idle)
  /\ Goes(p, IF session[p].ok THEN [To(c, "next") EXCEPT !.queue = c.running] ELSE Fails(c))
  /\ OnlySession
  /\ UNCHANGED <<daemon, mirror, budget>>

(* cleanup: daemons that do not answer are killed, and only the process    *)
(* ids of those that do are kept.                                          *)
BeginCleanup(p) ==
  /\ At(p, "cleanup")
  /\ Goes(p, [To(command[p], "clean") EXCEPT !.queue = Known(command[p].nodes)])
  /\ OnlyCommand

Clean(p) ==
  LET c == command[p]
      n == First(c.queue)
      answers == isPidAlive(c.nodes[n]) /\ waitForHttpNode(n)
  IN
  /\ At(p, "clean")
  /\ Goes(p, IF c.queue = {} THEN SaveThen(c, "none")
             ELSE [c EXCEPT !.queue = @ \ {n}, !.nodes[n] = IF answers THEN @ ELSE 0])
  /\ IF c.queue # {} /\ isPidAlive(c.nodes[n]) /\ ~answers THEN Dead(c.nodes[n])
     ELSE UNCHANGED <<daemon, session>>
  /\ OnlySession
  /\ UNCHANGED <<mirror, budget>>

-----------------------------------------------------------------------------
WithStore(A) == A /\ UNCHANGED runtimeVars

CommandStep(p) ==
  \/ loadNodes(p)
  \/ NodesLoaded(p)
  \/ saveNodes(p)
  \/ NodesSaved(p)
  \/ Check(p)
  \/ Await(p)
  \/ GiveUpStart(p)
  \/ TimedOut(p)
  \/ NextStart(p)
  \/ Provisioned(p)
  \/ End(p)
  \/ Export(p)
  \/ Restore(p)
  \/ Select(p)
  \/ collectRunningNodes(p)
  \/ Kill(p)
  \/ Switch(p)
  \/ Switched(p)
  \/ BeginCleanup(p)
  \/ Clean(p)

(* A command that only works on the store dies.                            *)
CommandDies(p) ==
  /\ budget.crashes > 0
  /\ command[p] # Idle /\ command[p].ask.kind = "task"
  /\ budget' = [budget EXCEPT !.crashes = @ - 1]
  /\ Die(p)
  /\ Goes(p, Idle)
  /\ UNCHANGED <<daemon, mirror>>

(* Where commands come one at a time, SQLite changes between them.         *)
Toggle ==
  /\ budget.toggles > 0
  /\ ~budget.alone \/ \A p \in Cli : command[p] = Idle
  /\ budget' = [budget EXCEPT !.toggles = @ - 1]
  /\ ToggleSqlite
  /\ UNCHANGED <<daemon, mirror, command>>

CoordInit ==
  /\ StorageInit
  /\ budget \in Budgets
  /\ sqliteUp \in budget.sqlite
  /\ daemon = [q \in Pid |-> [phase |-> "unborn", node |-> 0]]
  /\ mirror = [export |-> FALSE, nodes |-> NoNodes]
  /\ command = [p \in Cli |-> Idle]

CoordNext ==
  \/ \E p \in Process : WithStore(Step(p))
  \/ \E p \in Cli : CommandStep(p) \/ CommandDies(p) \/ \E ask \in budget.asks : Begin(p, ask)
  \/ \E q \in Pid : Serve(q) \/ DaemonDies(q)
  \/ Toggle

CoordSpec == CoordInit /\ [][CoordNext]_coordVars

(* As long as some process can go on, one does.                            *)
FairSpec ==
  /\ CoordSpec
  /\ WF_coordVars(\/ \E p \in Process : WithStore(Step(p))
                  \/ \E p \in Cli : CommandStep(p)
                  \/ \E q \in Pid : Serve(q))

-----------------------------------------------------------------------------
Quiet ==
  /\ AtRest
  /\ \A p \in Cli : command[p] = Idle
  /\ \A q \in Pid : daemon[q].phase # "starting"

ServingDaemons == {q \in Pid : daemon[q].phase = "serving"}

(* The catalogue that the next command will load.                          *)
NextLoaded == LET entries == list(Current)
              IN IF entries = <<>> /\ ~mirror.export THEN mirror.nodes ELSE Catalogue(entries)

(* While commands come one at a time, every daemon that serves is in the   *)
(* catalogue with its process id, by which alone it can be stopped: also   *)
(* when SQLite goes and the catalogue comes back from the mirror, when     *)
(* daemons die or start late, and after a switch.                          *)
CatalogueComplete ==
  budget.alone /\ Quiet => \A q \in ServingDaemons : NextLoaded[daemon[q].node] = q

(* A daemon works on the configured store.                                 *)
OneStore == Quiet /\ config # NoConfig => \A q \in ServingDaemons : session[q].b = config.current

(* It does so at least once the operator chose the store.                  *)
ChosenStoreIsUsed == config # NoConfig /\ config.policy = "explicit" => OneStore

(* Every command ends, unless one died and left its lock behind.           *)
CommandsEnd == \A p \in Cli : command[p] # Idle ~> command[p] = Idle \/ lock = Gone
=============================================================================
