# A verification development for netab

netab is a TypeScript program in three layers. *cord* (`src/src/cord`) runs nodes
that find each other, keep a membership, elect leaders and carry remote calls.
*steng* (`src/src/steng`) is a table engine with an operation log per table.
*netab* (`src/src/netab`) is the service on top: it sends writes to the leader of a
cluster and reads to whoever can answer. This directory holds TLA+ models of the
parts whose correctness depends on interleaving, failure or time, the TLC runs that
check them, and proofs that TLAPS checks.

Paths below are relative to `src/src` of the repository.

## 1. The system

| Part | State | Operations | Talks to |
|---|---|---|---|
| Foundation (`cord/foundation.ts`) | sessions of reverse links (memory), route state, connect intents and node directory (store), rate windows | start, stop, call, connect, disconnect, discover, learn; handlers of `reverse.*` | the store, other nodes over HTTP, registered handlers |
| Registry (`cord/registry.ts`) | started in-process nodes, reachability | set reachability, look-ups | foundation, cluster, cord node |
| Cluster (`cord/cluster.ts`) | membership, specs, heartbeats (store) | join, leave, list, alive nodes | store, foundation's directory |
| Election (`cord/election.ts`) | shard definitions and assignments (store), votes (memory), timer | tick, getLeader, forceLeader, add/removeShard, vote handlers | cluster, foundation RPC, store |
| IAM (`cord/iam.ts`) | groups, users, grants (store) | group edits, membership, canInvoke | store; asked by the foundation before a handler runs |
| Bootstrap (`cord/bootstrap.ts`) | unallocated registrations (store) | register, list | store |
| Coord stores (`cord/store.ts`), storage selection (`cord/coord_storage.ts`) | JSON file with a lock file, or a steng table; which backend is current | get, set, del, list; open, promote, switch | files, steng |
| Cord node (`cord/cord_node.ts`) | the managers above, an optional steng engine | start, stop, replicate_tick, built-in commands | all of the above |
| Coord runtime and CLI (`cord/coord_*.ts`) | catalogue of nodes (store), its mirror `nodes.json`, daemon processes | start, stop, stor, cleanup, restore, status, load, save | coord storage, daemons by process id and HTTP |
| Steng memory engine (`steng/engine/steng_engine.ts`) | documents, tombstones, blobs, operation log, watermark | add, update, replace, delete, blobs, apply_ops, retention, snapshots | change bus |
| Steng SQL engine (`steng/engine/sql_steng_engine.ts`, `steng/sqldb`) | the same in SQLite or Postgres | the same, as transactions | a database |
| Netab service (`netab/netab_service.ts`) | table policies | routed writes, reads with fall-back | a directory of leaders, steng |
| Client, HTTP server, RBAC, auth (`netab/`) | the client's token | log-ins, requests | netab service |
| POS helper, Kotlin apps | application data | application calls | netab client |

What is hard:

- *Concurrency at awaits.* One Node.js process runs one statement at a time, yet
  every `await` lets other work in: interval timers fire while an earlier round
  still waits, requests are handled between two steps of a method, and several
  nodes write the same store without compare-and-swap.
- *Failure.* Calls are lost, or time out and are served later; a process may be
  stopped or killed; votes are volatile, assignments durable.
- *Time.* Leases are wall-clock instants, checked by whoever reads them.
- *Two histories of one table.* The documents and the operation log are written
  side by side, and replication, retention, snapshots and failover all touch both.

What makes each part correct:

- Election: one leader per term with a running lease; votes that back leases;
  a leader returns after failures and stays while all is well.
- Replication: a replica holds a beginning of the leader's log and shows what that
  says; nothing fits badly; everybody catches up.
- Steng: the log is numbered 1, 2, ... and says what the table holds.
- Reverse link: an old link never tears down the new one; a request is answered at
  most once, and never by the answer to another.
- Stores and routes: no acknowledged change is lost to a concurrent one; a rule that
  was set stays and is obeyed.
- Calls: one proxy at most, a true path, and an end, whatever the routes say.
- IAM: the group graph stays acyclic, and a deny that holds is found.
- Coord runtime: every daemon that runs can be found and stopped, and works on the
  store that was chosen.
- Netab service: rows of the token's site only; what is kept here is not hidden by
  what is elsewhere; writes land in the primary cluster; subscribers miss nothing.

## 2. Modules

| Module | Models | Checked by | Proved in |
|---|---|---|---|
| `Election` | election of one shard's leader | `MCElection` | `CordProofs` |
| `ElectionTimely` | the same under the configured timing, with fairness | `MCElectionTimely` | |
| `Steng` | operators: one table of the memory engine | through `Replication`, `SqlSteng` | `StengProofs`, `FoldProofs` |
| `Replication` | replication ticks, writes, retention, imports, failovers | `MCReplication` | `ReplicationProofs` |
| `AbstractLog` | what replication promises: one log, everywhere a beginning of it | as property `IsOneLog` | `ReplicationProofs` |
| `ReverseLink` | reverse links between one client and one server | `MCReverseLink` | `ReverseProofs` |
| `SqlSteng` | one table of the SQL engine on SQLite and on Postgres | `MCSqlSteng` | `SqlProofs` |
| `Iam` | groups, subgroups, grants and `canInvoke`, read by read | through `Calls` | `CallsProofs` |
| `Calls` | calls between nodes, direct, reverse or over a proxy, with routes that change; composes `Iam` | `MCCalls` | `CallsProofs` |
| `CoordStorage` | the coord store on a file or SQLite, its choice, promotion and switching | through `CoordRuntime` | `CordProofs` |
| `CoordRuntime` | the coord commands and the daemons they start; composes `CoordStorage` | `MCCoord` | |
| `NetabAccess` | operators: rules, scopes, how tokens are come by | through `NetabService` | `NetabProofs` |
| `NetabService` | netab services of several clusters, their clients and subscribers; uses `Steng` | `MCNetab` | `NetabProofs` |

### Election

`Election` follows `election.ts` from await to await. A *worker* is one execution of
`reconcileCluster` or of an admin method on a node; two workers on one node would be
a timer that fires while an earlier tick still waits. The durable store is shared:
`member`, `published` (the node directory), `shard` and `assignment`. `votes` is the
memory of each voter (`leaseVotes`).

| Action | Code |
|---|---|
| `Survey` | `reconcileCluster`, first loop: healthy assignments are retained, and `maybeRenew` |
| `Elect` | second loop: choose a candidate, read the assignment again for its term |
| `Ask`, `AskFails`, `AskTimesOut`, `Deliver` | one call of `requestVotes` and the handlers `handleRequestLease`, `handleRenewLease`; a call that fails; one that times out and is served later |
| `GiveUp`, `Write` | too few approvals; `writeAssignment` |
| `ForceRead`, `ForceWrite`, `AddShard`, `RemoveShard`, `RemoveAssignment`, `ReleaseLease` | the admin methods, split where they await, and `handleReleaseLease` |
| `Start`, `Stop`, `ExitAfterStop`, `Crash` | `CordNode.start`, `stop`, the end of the process, a kill |
| `Leave`, `SetReach`, `Tick` | `leaveCluster`, the registry's reachability, time |

Time is kept as what remains of each lease; `Tick` takes one unit from all. The
clocks of the nodes are taken to agree, and a lease of `leaseMs` to be a whole
number of units. `getLeader` is `Leader`: it ticks and then reads. Loads of several
shards only influence which candidate comes first, so with `FreeChoice` any
eligible node may be chosen; without it, the code's order by priority and id.
`wins` is a history variable: every lease that got its approvals and still runs.

`ElectionTimely` adds the timing the defaults provide (interval 500 ms, lease
1500 ms): a unit of time is one interval and does not pass before every started
node has reconciled. Its fairness says that the timer keeps firing, that a call
begun goes on (each RPC has a time-out), and that a stopped process exits. A
call that is lost is taken to cost less than an interval, although `requestVotes`
waits `leaseMs` for each silent voter.

### Replication and steng

`Steng` holds, as operators on a table, what each operation of the memory engine
leaves behind, and what a filter matches. A JSON value is a function on its leaves; leaves under one top-level
field share their `Field`, which is what tells `deepMerge` from `shallowMerge`.
Etags, time stamps, filters, indexes and schemas are left out, ids are drawn from a
set and never twice.

`Replication` interleaves, on a small set of nodes:

| Action | Code |
|---|---|
| `AddObj` ... `DeleteBlob` | the engine's writes, at any node that `routeWrite` once found leading (`led`) |
| `RunRetention`, `ImportSnapshot`, `DoRow` | `run_retention` and `import_snapshot`: the rows are found first, then handled one an await |
| `TickBegins` | `replicate_tick` on the leader |
| `Visit`, `ReadOps`, `ApplyOps`, `ApplyFails`, `SetWatermark` | the body of `replicateStengCluster`'s loop, from await to await; a refused operation ends the tick |
| `FailOver`, `StopStart` | the election's outcome changes; a runtime is stopped or started |

`apply_ops` of the memory engine has no await inside, so it is one step, and what it
applied before a refusal stays. `DocTime` gives every document a fixed value of the
retention time field. One table stands for all, as the loops treat tables alike.

`AbstractLog` says what a reader may rely on while one node leads: one log that
grows at its end, a number for each node saying how much of it the node has, and
views that say exactly that. `IsOneLog` maps `Replication` onto it.

### Reverse link

`ReverseLink` has one *client* (the node that called `connect`), one *server*, and a
*connection* for every `connect()`, each with a loop and a session. `entry` is the
client's `reverseOutgoing`, `session` the server's `reverseIncoming`.

| Action | Code |
|---|---|
| `Connect`, `Open`, `OpenFails`, `Install` | `connect()` and `handleReverseOpen`, from await to await |
| `Poll`, `PollExpired`, `WaitEnds` | `handleReversePoll` and the timer of a poll that waits |
| `PollUnsent`, `PollLost`, `PollFails`, `Answered` | what the loop gets: nothing, after the call or its answer was lost, or an answer |
| `Serve`, `Reply`, `ReplyFails` | `handleReverseRequest`, `handleReverseReply` |
| `LoopEnds` | the end of `runReverseClient`, with its unconditional delete |
| `Call`, `TimesOut`, `FindDead` | `callReverse`, its timer, `getActiveIncomingSession` |
| `Disconnect`, `Close`, `CloseLost`, `ServerDisconnect` | `disconnect()` at the client and at the server, `handleReverseClose` |
| `Stop`, `Start`, `ServerRestart`, `Expire` | `stop`, `start`, a new server process, a ttl that passes |

A poll that was lost without the client noticing stays out until the HTTP client
gives up (`callHttpDetailed` takes no notice of `timeoutMs`); the server may count it
stale meanwhile. A poll that waits at the server is kept there as `"gone"` when
nobody listens any more. The handlers are one step each, as they have no await before
they answer or wait, and `callReverse` follows the look-up of the session without one.
Records of peers in the route state and the connect intents are left out.
`kept`, `off` and `alone` are history variables. Fairness: the loops go on, as their
calls return or fail in the end; polls that wait are answered by their timer; and
`reverse.close` arrives or is lost.

### SQL engine

`SqlSteng` has one table of the SQL engine. `db` is what is committed, a function from
keys (a document, its index entries, a blob, a log entry, the configuration, the
watermark) to contents; `own[p]` is what the transaction of caller `p` has written so
far. `dialect` is chosen at the start. On *SQLite* all callers share a connection: a
second `BEGIN` fails, and a read outside transactions sees what the open one has
written. On *Postgres* every caller has a connection at READ COMMITTED: it sees its own
writes over what is committed at that moment, a write waits for rows that others have
written, and the database ends one of several transactions that wait on each other.

A call is a sequence of *rows*, handled in turn; each row is a sequence of awaited
statements (`Stages`).

| Action | Code |
|---|---|
| `Call`, `AddIndex`, `RunRetention` | the methods up to their transaction: the configuration is read, or the expired documents are found |
| `Begin`, `Commit`, `Rollback` | `SqlDb.tx` of the two databases |
| `Read` | `getDocRow`, `getBlobRow`, `getWatermarkTx`; a missing document or an import conflict fails the call, a known row may be skipped |
| `Check` | `apply_ops`: an entry is skipped, refused or due |
| `Write` | `writeDocTx`, `writeTombstoneTx`, `writeImportedDocTx`, `upsertBlobTx`, `resetTableDataTx`, `setTableConfigTx`, `setWatermarkTx` |
| `Seq1`, `Log` | `latestSeqTx` and `insertOpTx` of `appendOpTx` |
| `Deadlocked` | Postgres ends a transaction |
| `Ship` | a peer reads the log outside any transaction |
| `GetObjs`, `QueryIds`, `FetchDocs` | `get_objs`: the configuration, then the ids clause by clause through the indexes (`queryFilteredIds`), a second look at the documents, and the rows |

The documents are JSON values as in `Steng`, and `TableOf` reads a database as a table
of the memory engine: `SerialCommits` says that a call acknowledged on SQLite has done
to it what `Steng`'s operators do for the same rows in one go. The several statements
that write one document and its index rows, or one import's reset, are one step;
configurations are sets of index names, and only the SQLite runs change them; the time
field of a document is fixed (`DocTime`) and has no index. Creating and dropping tables,
several processes on one SQLite file, etags, time stamps and change events are left
out. A read keeps, as history, which documents others changed meanwhile (`touched`):
on the shared SQLite connection all of them as soon as a transaction is open, because
the single statements of a row can be seen there.

### Calls and IAM

`Calls` follows a request through a node: `frame` holds the calls in progress, each
with its node, its caller, its authority and its stage. The routes, deny rules, proxy
mode and peers of a node are one record (`routeState`) of the store.

| Action | Code |
|---|---|
| `Request`, `GiveUp` | a call from outside; a caller that stops waiting, while the callee goes on |
| `LoadRouteState`, `FindExpired`, `SavePruned`, `SaveRouteState` | `loadRouteState` with its pruning of expired peers, and `saveRouteState`, which writes the record as it was read |
| `enforceInboundRoutePolicy`, `authorizeRpc` | the rules of the callee; `Iam` for calls with a user's authority, with the groups and the scope that the caller claims |
| `executeRouted`, `listPeerSummaries` | `exec`: direct, by a reverse session, over the route's or the default proxy; the hop count |
| `callDetailed` | the call of the other node: in the process, over its session, or at its address, for which `resolveDirectAddr` loads the route state once more |
| `learn`, `LearnNext`, `Return` | what a node learns, with its own authority (`makeInternalAuth`), of the peers that an answer names, unless they are connected or known; and the answer |

A peer has a flag `connected`: it is set by a call over its session and taken back by the
first load that finds the session gone, which then saves the record, as it does when it
drops an expired peer. To decide whom to call and to call him are two steps; for a call
that needs no address the code awaits nothing in between, so the model has steps of others
there that the code has not. Left out is what polls and openings of a session
write of the peer: sessions stand from the start (`Reverse`), except that a record may
remember one that is gone.

`Iam` has administrators (`ReadGroup`, `ReadChild`, `LookForCycle`, `WriteGroup`,
`DeleteGroup`, `ListParents`, `Unlink`, `SetGrant`) and evaluations of `canInvoke`
(`ListSubjects`, `PoseQuery`, `WalkQuery`, `ReadGrant`, `Decide`), which read one key a
step while the others change them; a walk over subgroups is kept as what is still to
be visited. The runs have one administrator at a time: of two, each may add the
edge that closes a cycle with the other's (`iam.ts:212`), and `deleteGroup` may write a
group back that another deleted. Masks and scopes are modelled; `authorizeRpc`
asks with the scope and the groups of the caller and no mask, and the run has a caller
that claims a group and a scope, and a deny for that scope only. A peer's learned proxy is never forgotten, as in the code. Fairness:
a call that can go on does; a walk or a read returns.

### Coord store and commands

`CoordStorage`: `config` is `coord.storage.json`, `document` and `lock` the JSON file and
its lock file, `rows` the SQLite table, `session` what each process is at.

| Action | Code |
|---|---|
| `loadStorageConfig`, `initializeAutoStorage`, `EmptyConfig`, `WriteConfig` | reading the configuration, its first choice, and the write that first empties the file |
| `maybePromoteAutoFileStore`, `openHandle`, `Use`, `SurveyStore` | promotion of the file to SQLite, opening with fall-back, `switchCoordStorage`, `inspect` |
| `FileGet`, `acquireLock`, `save`, `Unlock` | `JsonFileStore`: reads without the lock; writes under it |
| `findRows`, `NewRows`, `SqliteSet`, `SqliteDel`, `deleteDuplicateRows` | `StengStore`: the look-up, then the write (ids of new rows come in the order of time, but for those added within a millisecond), then the burial of duplicates |
| `Die`, `ToggleSqlite` | a process is killed; SQLite begins or ceases to open |

`CoordRuntime`: a command is a process that loads the catalogue, works and saves it, in
sessions of `CoordStorage`; a daemon opens the store once.

| Action | Code |
|---|---|
| `Begin`, `loadNodes`, `NodesLoaded`, `saveNodes`, `NodesSaved`, `End` | a command; the catalogue in the store and in `nodes.json` |
| `Check`, `Await`, `Late`, `GiveUpStart`, `NextStart` | starting a node: is it there, spawn, wait for its health, record or kill |
| `Select`, `Kill`, `Switch`, `Switched` | `stop`; `stor`, which stops what runs, switches and starts it again |
| `BeginCleanup`, `Clean`, `Export`, `Restore`, `Provisioned` | `cleanup`, `save`, `restore`, provisioning of a new root |
| `Serve`, `DaemonDies`, `CommandDies`, `Toggle` | daemons, and faults |

A switch that fails after the nodes were stopped starts all of them again; an error while
they are being stopped (`coord_runtime.ts:1982`) ends the command (`Fails`).
Simplifications: SQLite fails only when it is opened; a daemon's epoch is its process
id; process ids and addresses are not used twice; Postgres, which shares the code of
SQLite but never falls back, and the discovery cache, which only `save` reads, are left
out. What the runs exclude, because the code does not hold there: commands that overlap
(two starts of one node lose the daemon of one, `coord_runtime.ts:1561`; writes beside a
switch or a promotion are lost); deletions beside other writers on SQLite
(`MCCoordDuplicates.cfg`: a late burial of duplicates hits the row acknowledged last); a start killed between spawn and save; SQLite that fails, leaves
the work to an older file, and comes back; and `save` to its default path, which puts
an object into `nodes.json` that `loadNodes` cannot read once the store is empty
(`coord_runtime.ts:274`). Fairness: some process that can go on does; a kill may
leave the lock file behind, which `CommandsEnd` excepts.

### Netab service

`NetabAccess` says, as operators, which rows and fields a token may see and write
(`rbac.ts`) and which token each log-in yields. `NetabService` has the services of two
clusters, each with a table of `Steng` and the leader its cord names, and clients whose
calls go on step by step.

| Action | Code |
|---|---|
| `Login` | the log-ins of `client.ts`; the token of the answer replaces the one held |
| `Call` | a call arrives and its action is permitted or refused |
| `ReadLocal`, `FindFallback`, `AskFallback` | `get_objs`: the own store, `maybeFallbackRead`, and `readFromFallbacks` with the leader looked up before it is asked |
| `subscribe_objs`, `Unsubscribe` | the change bus |
| `routeWrite`, `Write`, `Finish` | the leader of the primary cluster is looked up, then writes (`Commit`: the row and its log entry), and answers once the write was told |
| `Publish` | the end of `commitDocOp` and `commitDeleteOp`, after their await: the subscribers are told (`telling` is what is still to be told, in the order of the writes) |
| `Replicate` | one round of `replicateStengCluster` for one peer: indexes, an entry, the watermark. `apply_ops` tells at once (`CommitCopy`), ahead of what `telling` holds of that row (`Overtaken`) |
| `run_retention`, `Purge` | retention: the old rows are found, then deleted one by one, each told before the next; the watermark comes last |
| `start`, `stop`, `Elect` | the directory; what `getLeader` of a node's cord answers |

`Elect` and `Replicate` are cut down from what `Election` and `Replication` have in full: any
member may come to be named by any other at any time, and a batch of entries is as many
steps of one entry each, which allows more interleavings than the code. Retention is run
by whoever calls the engine; one at a time in a store. There are no blobs.

A token is the context it decodes to; an expired one fails the call that is passed on.
The service that is asked checks the permissions anew, where a read that was given the
site as its filter counts as a query: `AskFallback` may be refused either way.
`rows`, `own`, `kept` and `changed` are partly history. Left out: batches, shallow
merges, app and database names, brands and locations in rows (they follow the site). A
read by ids takes no notice of a filter, as in the engine, so scope is claimed for
queries and subscriptions only; a row that leaves a subscriber's filter is not told;
paging past the own rows goes on in the fall-back's rows; `fall-back only` without one
answers the own rows; once one rule restricts the fields of a token, its unrestricted
rules no longer count for them. Fairness: each client's call that can go on does, and a
change that was written is told: between the two the code awaits no more than
`appendOp`, which returns.

What subscribers may rely on (`ViewsAreTrue`) has two exceptions. Rows they are still to
be told of differ for that while. Rows whose deletion or change was told after the copy of
a later entry (`misled`) stay wrong until they change again: the entry was applied and
told between the write and its publication. `ViewsCatchUp` leaves this exception out,
and `MCNetabOvertaken.cfg` shows the row that a subscriber loses.

## 3. Runs

| Run | Bounds | Shows |
|---|---|---|
| `election_safety` | 2 nodes, 1 worker each, leases of 2 units, terms up to 2, one fault of any kind, two reachability relations | the safety of votes and leases |
| `election_timely` | 2 nodes, terms up to 5, one fault that is no crash | `LeaderReturns`, `LeaderSettles` |
| `replication_local` | 2 nodes, 2 documents, 1 blob, 2 writes, 2 of retention, import, failover and stop | the log has no gaps and says what the table holds |
| `replication_single` | 3 nodes, 1 leader, 2 overlapping ticks, 2 writes, 1 retention run or stop, 2 entries a batch | one log; nothing refused; all catch up |
| `replication_shallow` (violated) | 2 nodes, shallow updates | a shallow update reads back deep |
| `reverse_link` | 2 connections, the second with a ttl, 2 calls, 2 losses, stops, restarts or disconnects | closed sessions leave nobody waiting; requests run once and in order; links made in turn last and end |
| `sql_engine` | both databases, 2 callers, 3 calls of up to 5 rows, or reads with 3 filters, 2 documents, 1 blob, 10 log entries | acknowledged calls are atomic and the log grows entry by entry; index entries are never stale, and filtered reads find what matches |
| `calls` | 3 nodes, 1 user and a guest, 2 groups, 5 calls in progress; 2 requests, with or without claimed groups and a scope, and a caller that gives up, or 1 request with 2 changes of routes, groups or grants, an expiry and a caller that gives up | calls end, over one proxy at most, on the path they report; denies hold; groups stay acyclic |
| `calls_deny` (violated) | the same | a rule is overwritten by a call that learns of a peer |
| `coord` | 2 nodes, 2 command processes, 6 process ids for daemons; 9 regimes: writers side by side, in the file with a crash or on SQLite without deletions, maintenance one by one, commands one by one, two starts or a cleanup side by side | nothing acknowledged is lost, every daemon is in the catalogue and, once chosen, on the right store; commands end |
| `coord_promote` (violated) | starts, SQLite comes up once | a daemon works on a store that was promoted away |
| `netab` | 3 services, 2 clusters that fall back on one another, 2 clients, 6 rows; 9 regimes with 1 to 3 calls, an election, a stop, a retention run; 438,530 states | answers in scope, kept rows served, writes in the primary cluster only, true subscriptions, every call answered |

Why the bounds are enough to be of interest. Two nodes already give two candidates,
two voters and quorums of one when the nodes do not reach each other; two units of
lease let it expire between any two steps; one fault can hit between any two of
them, and the bound on the terms lets a lease lapse and be won again. For
replication, two writes and a retention delete make a log of three entries, more
than a batch; two ticks at once give every overlap of what they read and apply; the
peer visited second shows whether the first one holds it up. Two connections may be
open at once or in turn, and two faults let one hit each of them, or one a poll and
the next its repetition. Two SQL callers meet at every
statement, and a third call can find the outcome of both, or come between a failure
and its repetition; two updates of two documents in opposite orders make a deadlock.
Proofs (below) remove the bounds where it matters most.

The bounds of the later runs: three nodes are one more than a proxy needs, and let two
of them name each other; one change can fall between any two reads of a call. For the
store, two writers meet at every read, lock and write, and a crash hits between any
two; three commands let the third find what the first two and a fault left. Two
clients of the service meet in one table; one election, one stop and one retention run
fall between any two steps of a call.

Violated runs and what they say:

- **Shallow** (`replication_shallow`). `update_objs` logs the patch without the kind of
  merge. The design (`steng/docs/design.md:207`) says: "This keeps local materialized
  state and local oplog consistent."
- **Deny** (`calls_deny`). The route record is read, changed and saved with awaits in
  between, so a call that learns of a peer saves the rules of before (`foundation.ts:1453`).
  The documentation (`cord/docs/README.md:1207-1208`) says "A will reject inbound calls
  from B." `DenyInHolds` shows that a rule that is in the record is obeyed.
- **Promote** (`coord_promote`). The next command after SQLite has come back promotes
  the file store while a daemon works on the file (`coord_storage.ts:91`). The
  documentation (`cord/docs/README.md:78`) says: "switching storage while daemons are
  running stops them, migrates the shared state, then starts them again".
  `ChosenStoreIsUsed` shows that `coord stor` does.

Further configurations are kept beside these. Each checks one property and TLC finds a
counterexample; `tlc -config X.cfg M` shows it:

| Configuration | Module, property | Counterexample |
|---|---|---|
| `MCElectionChurn.cfg` | `MCElection`, `HealthyLeaderKept` | `reconcileCluster` reads the assignment again for its term alone (`election.ts:417`): of two nodes that start side by side the slower one deposes the leader that the faster one elected (`cord/docs/README.md:449`: "keep current leader if healthy and eligible (avoid churn)"). `LeaderSettles` shows that it comes to rest. |
| `MCElectionCrash.cfg` | `MCElectionTimely`, `LeaderReturns` | the directory record of a killed process stays (`foundation.ts:808`), so it stays a candidate and a voter (`cord/docs/README.md:432`: "Must handle failures and re-election.") |
| `MCReplicationBootstrap.cfg` | `MCReplication`, `NeverRefused` | a restored table numbers its log anew, and what is shipped afterwards does not fit (`steng/docs/design.md:399-402` recommends it) |
| `MCReverseOverlap.cfg` | `MCReverseLink`, `LinkEnds` | the loop of an old connection deletes the new one from the table (`foundation.ts:2454`), and `disconnect()` cannot end it (`cord/docs/README.md:1484`: "keep it until disconnected or until the daemon stops") |
| `MCSqlIndex.cfg` | `MCSqlSteng`, `IndexFollowsDocs` | a table restored into an empty database has indexes without rows (`sql_steng_engine.ts:1225`), and filters find nothing (`steng/docs/README.md:153`: "JSON rows are canonical; indexes are derived views.") |
| `MCCoordDuplicates.cfg` | `MCCoord`, `NothingForgotten` | on SQLite a `get` has found two rows of a key and is to delete the second; a `del` that looked before there were two deletes the first; a `set` replaces the second, the only one left, and is acknowledged; the `get` then deletes it (`store.ts:183`; `store.ts:326`: "Delete redundant duplicate rows") |
| `MCNetabWindow.cfg` | `MCNetab`, `KeptRowsAreServed` | a window that ends exactly at the watermark, inclusively, counts as older than it (`netab_service.ts:846`): a kept row is replaced by the fall-back's version |
| `MCNetabOvertaken.cfg` | `MCNetab`, `ViewsCatchUp` | at a follower retention deletes a row; before the deletion is told, a tick copies and tells the row's replacement; the deletion is told last, and the subscriber has lost a live row (`steng_engine.ts:774`) |

Two more things the SQL model shows are no runs, as no line of the repository says
otherwise: on SQLite a peer may ship entries of a call that is rolled back later, and
on Postgres `update_objs` may lose an update that commits between its read and its
write. They are in the list of hazards.

## 4. Proofs

Eight modules hold proofs that `tlapm` checks to the last leaf, for every value of the
constants the assumptions allow. Every inductive invariant was first checked by TLC on
the run of its module. Assumptions named `...Assumption` stand beside the constants and
say only what those are (sets of numbers, functions on a set); TLC evaluates them in
every run. What goes beyond is a hypothesis of the theorem, listed here.

| Theorem | States | Hypotheses |
|---|---|---|
| `CordProofs!TypeCorrect` | `TypeOK` | |
| `ApprovalsHoldAlways`, `NoDoubleVoteEver`, `OneLeasePerTermAlways` | `ApprovalsHold`, `NoDoubleVote`, `OneLeasePerTerm` | `UniformTtl` |
| `WritersLoseNothing` | `NothingForgotten` | `StoreSetting`, `Writers` |
| `StengProofs!ReadReturnsBlock`, `ApplyBlock` | `read_ops_since` and `apply_ops` of the engine | |
| `ReplicationProofs!TypeCorrect`, `LogsStayInStep` | `TypeOK`, `LogInStep` | |
| `DocumentsFollowLog` | `DocsFollowLog` | `Deep` |
| `ReplicasFollowLeader`, `NoBatchIsRefused`, `LogsOnlyGrow` | `PrefixOfLeader`, `NeverRefused` | `OneLeader` |
| `ReplicationIsOneLog` | `IsOneLog`: the refinement of `AbstractLog` | `OneLeader`, `Deep` |
| `ReverseProofs!TypeCorrect`, `ClosedIsQuietAlways`, `NoneWaitsOnNoneAlways`, `RunsInOrderAlways`, `LinkIsUp` | `TypeOK`, `ClosedIsQuiet`, `NoneWaitsOnNone`, `RunsInOrder`, `LinkUp` | |
| `SqlProofs!TransactionsFit` | `Typed`: what transactions hold fits what is committed | `Setting` |
| `IndexAgrees`, `ShippedStays` | `IndexNeverStale`, `ShippedIsLogged` | `Setting` |
| `CommitsAddToTheLog`, `SqliteIsSerial` | `LogGrows`, `SerialCommits` | `Setting` |
| `IndexesFindAll` | `ReadsFindMatches` | `Setting`, `KnownIndexes` |
| `CallsProofs!TypeCorrect`, `DenyInHoldsAlways` | `TypeOK`, `DenyInHolds` | `Setting` |
| `OneProxyHopAlways` | `OneProxyHop` | `Setting`, `Plain` |
| `PathIsTrueAlways` | `PathIsTrue` | `Setting`, `Plain`, `ViaElse` at the start |
| `CallsProofs!DenyHoldsAlways` | `DenyHolds` | `GroupSetting` |
| `GroupsStayAcyclic` | `GroupsAcyclic`, if it holds at the start | `GroupSetting`, `OneAdmin` |
| `NetabProofs!SitesAreApart`, `SubscribersKeepUp` | `InScope`, `ViewsAreTrue` | `Setting` |
| `WritesStayAtThePrimary` | `OnlyPrimaryWrites` | `Setting`, `InStepAtStart` |
| `NothingKeptIsHidden` | `KeptRowsAreServed` | `Setting`, `WindowsFit` |

**Election.** `TypeOK` is inductive as it stands; the conjunct on `claim` is needed to
know that voters are asked for a node. The inductive invariant of the rest is
`IInv = TypeOK /\ Counted /\ Bounded /\ ApprovalsHold /\ NoDoubleVote`. `Counted`
says that the approvals a worker counted come from that many voters or from voters that
forgot; `Bounded` that no vote or claim outlasts the lease length. Both are needed where
a vote is given: a voter already behind a running claim of the same term answers yes to
no other leader, and a vote renewed lasts at least as long as every claim it stands
behind. Two sets of approvals that together outnumber the nodes share a voter
(`QuorumsMeet`), and `NoDoubleVote` excludes that voter. `UniformTtl` is one `leaseMs`
for all members: with leases of different length a short one of a higher term frees a
voter that a longer one still counts on; the runs use equal lengths for the same reason.

**Coord store.** `CordProofs` takes `CoordRuntime` as it is, with all its actions, and
restricts its budgets: `Writers` says that the tasks are sequences of operations, that
SQLite is there all the time or never, and that where it is there each process has one
operation, which is no deletion. `StoreInv = StoreTyped /\ FileKept /\ SqliteKept /\
Fresh` is inductive. In the file, whoever is between lock and unlock holds the lock; what
he has read is the document until he saves, and the document holds of every key what a
last write left, or what he has saved and not yet acknowledged (`FileKept`); a lock left
by a dead process stops the writers and loses nothing. On SQLite two writers may each
find no row of a key and add one. `FirstCounts` says that the first row a key ever had
is the one that counts: it is live, and its value was acknowledged last or is about to
be. A burial spares it, as whoever has found more than one row has found it among them. A
writer that looked before that row was there adds another one behind it, or, within the
same millisecond, ahead of it; `NotOutdone` says that the value it fails to replace
was not acknowledged before it began, so that the two overlap and either may win.
`Fresh` tells the values of the requests apart, by the numbers of the requests that are
left. With a deletion the first row may be dead and a later one count, which
`MCCoordDuplicates.cfg` shows to break the property. `StoreSetting` says that values
which stand for nothing are none of those they stand beside.

**One table.** `apply_ops` and `Replayed` are folds over a log. The library defines a
fold by the choice of a recursive function, so `FoldProofs` first shows that the function
exists and is the only one (by least elements of sets of numbers, as the library's
induction takes an operator that no prover here can instantiate) and then what one more
element makes of a fold (`FoldAppend`) and that an invariant goes through it
(`FoldInvariant`). `StengProofs` uses them for every operation of the engine: a table
keeps its shape (`Tables`), its log keeps its numbers (`LogFits`), and, with deep merges
only, its documents stay what the log says (`Good`). Of a batch: `read_ops_since`
returns an unbroken block, and a block applied to a table that holds a beginning of the
same log is accepted and leaves a longer beginning, with any overlap.

**Replication.** `Typed` makes each table `Good` and each worker hold entries. `Led` is
what one leader adds: logs are beginnings of the leader's, and a tick between its awaits
has a number its peer has reached and a batch that is a block of the leader's log
(`InFlight`): what was read stays true, as logs only grow. `Deep` excludes shallow
updates, which `replication_shallow` shows to break the property. `OneLeader` says that
the leadership stays, and that retention and imports happen at the leader, without a
reset: `MCReplicationBootstrap.cfg` shows what a reset does, and after a fail-over two
logs may differ for good. The refinement maps every step to a step of `AbstractLog` or a
stutter; its fairness has no part in it, as `AbstractLog` states safety.

**Reverse link.** `Typed` knows which connections and polls there are. `Safe` adds
`Ordered`: what lies ahead of a session (its queue, the answer under way, the request
being served) is in the order of the calls, belongs to the session, and none of it has
run. `LinkSafe` is for `LinkUp`, the safety half of `LinkKept`: the connection opened
last, if opened in turn, has its session in the server's table and a running loop.

**SQL engine.** `Typed` has three parts besides the kinds of the variables. What a call
sees, its own writes over what is committed, is a proper table (`Contents`): its log has
no gap and each index row is that of its document; two transactions never hold one key,
as each write waits for the other. `Ready` ties the statements left of a row to the row,
to the document read for it and to the last log number known: an entry is numbered one
above the last of what the call sees. `Owns` ties what a transaction holds to the rows it
has handled: the log entries it holds are those rows' entries, in their order and right
behind the last entry of `db`. That is the delicate part on Postgres, where `db` moves on
under an open transaction: another call that adds an entry meanwhile takes the very
number this one holds, so it waits for the key and then fails on it; if it commits
first, this one does. `Serial` is what SQLite adds: the table a transaction
sees is what the memory engine makes of `db` and of the rows handled so far, up to the
statements of the row under way (`InSeries`); the fold over the rows grows by one
row when its last statement is done. `Setting` says which fields a row of each kind
carries, that an import clears a table before anything else, that `apply_ops` reads the
last number before its entries, and that on Postgres no table is cleared or configured:
the model takes the statements of these for one, which a shared connection hides
and a pool would not.

The reads need three more invariants. `AllFull`: every live document is in each index
that a filter uses, in what is committed and in what each open transaction sees, and the
configurations still to be handled keep it so. `Found`: between two statements of a read
the clauses that are done hold of just the documents found so far, of those untouched
since it began; a `!=` holds the documents equal to its value in between. `AllTouched`:
on SQLite an open transaction disturbs every read, which sees what is not committed.
`KnownIndexes` says that the indexes of the filtered fields are there from the start,
that no configuration drops one, and that each one rebuilds the indexes unless the table
has just been cleared. What comes later is not covered, for a reason: a call writes index
rows for the indexes it read before its transaction, so one that read the catalogue
before an index was added leaves its document out of it, and a table restored into an
empty database (`MCSqlIndex.cfg`) does so in one call.

**Calls.** `Typed` says where a call may be and that each waits for one child at most.
`RulesBind` (a call noted as barred is not beyond the check) gives `DenyInHolds`;
`AllCounted` ties the hop count to the trail and gives `OneProxyHop`; `PathSafe` compares
the path kept in requests and answers with the trail, and needs to know that a route's
proxy is never its destination. `Setting` says that values which stand for nothing are
no members of the sets, and that requests are requests. `Plain` is an assumption on who
calls: a request starts with no hop and no path, and `exec` is not asked to run `exec`
or `learn`; an `exec` within an `exec` starts a count of its own in the code, so nothing
bounds the proxies of both together. `ViaElse` says that no node starts with a
record of a peer reached over that peer itself; the steps keep it.

**IAM.** `Above` computes a closure in as many rounds as there are groups; `ReachFacts`
shows that it is the least closed set. `Evaluations` ties each evaluation in progress to
what has been true since it began: a walk that found nothing has covered every group the
standing edges reach (`Pending`), the subjects gathered include every group that holds
the caller (`Gathered`), and the grants read include every denial that stood
(`Looked`). `GroupSetting` has finitely many groups, each with a record or none, and
administrators whose members are users: `addMember` takes any reference, and a group
made a *member* of another is not what `addSubgroup` guards. `InStep` says that the
edges are grounded, each set of groups having one that holds none of it, and that the
look for a cycle, once over, is still right, which is so with `OneAdmin`: of two, each
may add the edge that closes a circle with the other's.

**Netab service.** `Typed` says where a call may be, that every table is `Good`, and
`LastWords`: the last of what is still to be told of a row, if it was not overtaken, is
what the table holds. That is needed because a write and its publication are two
steps with any number of others between them: a new word goes behind the others
(`QueueAppend`), a copied entry marks those of its row as late (`QueueOvertaken`), and
telling takes the first one away (`QueueTold`). The lemma `TableSteps` sorts the steps:
the tables and subscriptions stay, a client subscribes, a service tells its first word
(`Tells`), or one service's table changes (`Change`): the documents of one id at most, which is
queued or told at once, the log grows, the watermark stays or is a cut-off, and
outside the primary clusters what is logged is a deletion or a copy of a member's
entry. Each property adds what it must remember. `TrueView`: a view is what its filter
finds in the store subscribed to, of the rows that no word waits for and none misled;
when the last word of a row is told, `LastWords` says that it is right. `ScopedCall`,
`ScopedSub`: the filter of a call or a
subscription carries the site of its token, so every row found, here or by a
fall-back, is of that site. `OnlyDeletes`: the log of a service outside the primary
clusters goes on after its start with retention's deletions. `KeptCall`: a read that
goes on to a fall-back either kept no row, or asks for the ids it misses only. `Setting`
says that tables start as the engine leaves them and that requests are requests. `InStepAtStart`: the members of a cluster that is not primary
start with logs of one length, as the property counts entries from the start and a
follower otherwise catches up on older writes. `WindowsFit` bounds the reads: a time
window ends at a number, an inclusive one not exactly at a watermark
(`MCNetabWindow.cfg` shows why), and none comes with ids, as a read by ids ignores its
filter while `maybeFallbackRead` still looks at the window and replaces the rows.

The hypotheses hold of the constants of the run that checks the property: of
`replication_single`, `sql_engine`, `calls` and `netab`, which TLC confirms when they are made
assumptions (that a starting table is `Good` follows from `NewTableGood` and `AddGood`),
`UniformTtl` of `election_safety`, and `Writers` of the three regimes of `coord` in which
writers run side by side; `StoreSetting` needs only that the model values, which stand
for nothing, are no records.

Only model-checked. All liveness (`LeaderReturns`, `LeaderSettles`, `CaughtUp`,
`LinkKept`, `LinkEndsAlone`, `CallsEnd`, `CommandsEnd`, `CallsAnswered`), which needs fairness
and ENABLED. `CatalogueComplete`
and `ChosenStoreIsUsed` of `CoordRuntime`, and `NothingForgotten` where the storage is
promoted or switched: they hold of the regimes of their run only (the commands that come
one at a time, the crashes each of them allows), and their invariants would have to
follow each regime apart. What the code does not keep (`DenyKept` and the other violated runs).

## 5. Plan

1. Done: `Election`; `Replication`, the memory engine; `ReverseLink`; `SqlSteng` with
   filtered reads; `CoordStorage`, `CoordRuntime`; `Calls`, `Iam`; `NetabAccess`,
   `NetabService`.
2. Done: proofs for `Election`, `Steng`, `Replication` with its refinement,
   `ReverseLink`, `SqlSteng`, `Calls`, `Iam`, `NetabService` and the writers of
   `CoordStorage`.
3. Left to prove: `NothingForgotten` across promotions and switches, `CatalogueComplete`
   and `ChosenStoreIsUsed`, which need a store that is moved while nobody writes it.
4. Left to model: connect intents and their restoration at a start; change events and
   configurations changed side by side, and the lost update on Postgres, as a property of
   its own; several administrators, commands that overlap, background discovery; several
   rows a call, and a composition of `NetabService` with `Election` in place of the free
   choice of leaders.

## 6. Not modelled

Argument parsing, display and the interactive shell (`coord_cli.ts`, most of
`coord_runtime.ts`'s lines); HTTP framing, the signing of tokens; schemas and the
formats of snapshot bundles; heartbeats, which nothing decides by, and background
discovery; commands on hosts (`execHostCommand`) and the built-in commands, which only
dispatch; the POS helper and the Android applications. Load balancing over several
shards is a free choice in `Election`. Clock skew between nodes is left out: leases are
compared with the reader's own clock, and skew beyond a lease would defeat them.
