# Verification of the Odoo orchestrator

The orchestrator is a desktop application (a Rust core behind a local HTTP API,
in a Tauri shell) that runs PostgreSQL clusters and Odoo servers as local
processes and manages the databases, snapshots, checkouts and add-ons around
them. This directory holds TLA+ models of its core, the TLC runs that check them
and the TLAPS proofs about them. All paths below are relative to
`src/src-tauri/crates/`; `core/` stands for `orchestrator-core/src/` and `api/`
for `orchestrator-api/src/`.

## 1. Inventory

| Component | State it keeps | Operations | Hard behaviour | What makes it correct |
|---|---|---|---|---|
| PostgreSQL supervisor, `core/postgres.rs` | `Inner{state, generation}`; the data directory and the postmaster in it | `start`, `stop`, health watcher, `StopOnDrop` | every await and listener call is off the lock; `pg_ctl` times out; handlers are dropped with their client; adoption of a leftover postmaster | stale calls and watchers never act for newer ones; Running is watched; Stopping ends; at rest the state is the truth |
| Odoo supervisor, `core/odoo.rs` | `Inner{state, current_pid, generation}`; the child process; the port | `start`, `stop`, wait task, log readers, `StopOnDrop` | `stop` keeps the generation; pid recorded after the spawn; readiness is whoever answers the port; TERM may be ignored | Stopping ends by the wait task; a stopped server has no process; an exit that was asked for is no crash |
| Supervisor registry and listeners, `core/lib.rs` 1917-1960, 3122-3196, 481 | `postgres_supervisors`, `odoo_supervisors`; the `servers` row | get-or-create, start, stop, state, adopt orphans on open | listener off the lock, its write errors dropped; listener holds a `Core`; cached configuration | one supervisor per id; the row ends up as the state |
| Event log and streams, `core/lib.rs` 986-1011 and 1871-1901, `core/bus.rs`, `api/ws.rs` | `events` table, two broadcast channels (256, 2048), log rings (5000) | append, subscribe, recent | persist then broadcast; lagging subscribers | nobody sees an event that is not durable; a gap is announced |
| Database lifecycle, `core/lib.rs` 594-775 and 1155-1646, `core/pg_admin.rs`, `core/filestore.rs` | `databases` and `snapshots` rows; the cluster's databases; filestores, dumps | create, duplicate, drop, adopt, forget, back up, restore, snapshot, delete, revert, reconcile | several external steps per operation, no transaction around them; folders copied half way; adopt and forget of any name | rows and databases disagree only through an operation that was cut or overlapped; a snapshot can be deleted; a revert keeps either the old or the new contents |
| Template cache and freshness, `core/lib.rs` 2590-2807 | `oo_template_*` databases, `module_installs` | create with modules, clear, remember, freshness | hash and install, and note and hash, are minutes apart | a cache hit is of the code its key names; Live means installed as on disk |
| Upgrade, `core/lib.rs` 2342-2583, `core/openupgrade.rs` | the working copy, its checkpoints | plan, run, one hop | failure of a middle hop | the original is untouched; every hop has a checkpoint |
| Reload policy and data watcher, `core/lib.rs` 1711-1831 | policy in the row, `data_watchers` | set, restart watcher, update after change | debounce thread; configuration is cached; a watcher that cannot be made | nothing is watched against the policy; the policy takes effect on the next start |
| Checkouts and interpreters, `core/odoo_runtime.rs`, `core/python_runtime.rs`, `core/lib.rs` 1987-2046 | folders | ensure, clone, provision | concurrent clones; half-built venvs; removals that fail half way | a resolved checkout or venv is complete; the user's checkouts stay |
| Modules and neutralization, `core/lib.rs` 2224-2340 and 2833-3060 | one-shot `odoo-bin` runs | install, upgrade, uninstall, neutralize | long external commands | a failure is reported, nothing is remembered for it |
| Routing and proxy, `core/lib.rs` 570-613, `api/proxy.rs` | domains in rows | routing table, set domain, find route | check-then-set | one host, one database |
| Ports and storage, `core/lib.rs` 156-242, 543-560 | ports in rows | next free port, ensure storage | saturation at 65535; check-then-create | no port is given out twice |
| Add-ons scan, `core/modules.rs`, `core/manifest.rs` | none | scan, topological order | shadowing, cycles | the order puts dependencies first |
| Projects, servers, add-ons sources, `core/lib.rs` 891-1111, `core/db.rs` | rows | one statement each | little | foreign keys hold |
| HTTP API, shell, frontend | none of their own | translate | a handler's future is dropped with its client | covered where it matters: `Abandon` |

Components call each other inside one process. `Core` owns one supervisor per
cluster and server; the API's handlers await `Core`'s methods directly, so any
number of `start`/`stop` calls of one supervisor overlap. Supervisors call back
through their listener, off their lock, which writes rows and events.
`PROJECT.json` lists every component with its status, and every hazard with the
line where it bites.

## 2. Modules

| Module | Models | Proofs |
|---|---|---|
| `Lifecycle` | the promise of `PgSupervisor`: the order in which its state may move | |
| `PgSupervisor` | one PostgreSQL supervisor, its calls, watchers and guard, and the postmaster; implements `Lifecycle` | `PgSupervisorProofs` |
| `OdooLifecycle` | operators: the order in which the state of an Odoo supervisor moves, for those who only look at it | |
| `OdooSupervisor` | one Odoo supervisor, its calls, wait tasks and guard, and its processes | `OdooSupervisorProofs` |
| `Fleet` (extends `OdooLifecycle`) | what stands around the Odoo supervisors: registry, listeners, rows, event log, channels, log rings, reload policy | `FleetProofs` |
| `Databases` | the databases of one Odoo: rows, cluster, filestores, dumps, snapshots; upgrades and reconciliation | `DatabasesProofs` |
| `ModuleCode` | which code each database runs: module commands, freshness records, templates, neutralization | `ModuleCodeProofs` |
| `Addons` | operators: finding add-ons folders, scanning sources, the install order | `AddonsProofs` |
| `Workspace` (extends `Addons`) | projects, servers, ports, storage, sources, hostnames, the proxy | `WorkspaceProofs` |
| `Runtimes` | checkouts, OpenUpgrade, repositories of modules, interpreters | `RuntimesProofs` |
| `MC...` | the instances TLC checks | |

The modules are cut where the code is: what one knows of another is the state
that crosses the boundary. `Fleet` sees no processes; it takes of a supervisor only
which state may follow which, and that is `OdooLifecycle`, which `MovesAsTold` in
`OdooSupervisorProofs` proves of `OdooSupervisor`.
`Databases` and `ModuleCode` both have rows and a cluster: the first is about where
data goes (attachments, versions of Odoo), the second about which modules are in
it, and a revert or a click in Odoo is an outside `Change` there. An upgrade's hop
is one step of `Databases`; fetching what a hop needs is `Runtimes`.

### PgSupervisor

Each element of `Calls` is one `start()` or `stop()`. `pc[c]` is where it is; a
step ends where the code gives up the lock, awaits, or calls the listener.
`gen[c]` is the generation it took under the lock. A call that was accepted
walks `tellStarting` (the listener), `probe` (`cluster_is_already_running`),
`initdb`/`initdbRun`, `launch` and `waitReady` (`pg_ctl start -w`), then
`serving` or `startFailed`; a stop walks `tellStopping`, `pgCtlStop`, `waitDown`,
`stopReturned`. Every write after an await goes through `SetStateIfCurrent`, as
in the code. `watcher[c]` is the health watcher that call spawned: it sleeps,
probes, confirms, decides in one lock section and applies in another, which
compares the generation only. `Abandon` is the handler's future dropped by the
web server: the blocking command goes on, and nobody resumes after it (`Resume`).
`Drop` is `StopOnDrop::drop`; it happens when no call holds a handle.

The world: `postmaster` has a phase and the call that launched it; `dataDir` is
empty, being initialised, or a cluster. `pg_ctl start` forks a postmaster only in
a ready directory without a lock; `pg_ctl stop` finds it through
`postmaster.pid`, which a booting postmaster may not have written. `Faults` names
the failures a run allows. The pid in `Running{pid}` is abstracted to the call
that launched the process. Exit codes, log tails and `run_as` are left out, and
so is process-id reuse.

### OdooSupervisor

The same style. `proc[c]` is the process that call `c` spawned and `waiter[c]`
its wait task; `currentPid` and `target` are pids, named by the call that spawned
the process. `stop()` keeps the generation, which is why `Reap`, the lock section
of the wait task, ends Stopping. The port is shared by all of this supervisor's
processes and a possible `squatter`. `AwaitExit` is both waits of `stop()`: they
look at the state, whoever wrote it. The startup poll has a deadline; a process
that will never serve meets it.

### Fleet

`registry[s]` is `odoo_supervisors`, `sup[b]` the supervisors that were built.
`Look` and `Insert` are `get_or_create_odoo_supervisor`: the first lock section, and
the insertion under the second, which keeps what is there. `Start` and `Moves` move
a supervisor and leave a notice; the listener takes the notice through `WriteRow`,
`AppendEvent` and `Publish`, off every lock, so notices of one server overtake each
other. The listener drops the errors of both writes: `WriteRowFails` goes on to the
event, `AppendEventFails` ends the notice, since what is not in the log is not published. `ReadLine` and `PublishLine` are `record_log_line`. `sent[k]` is what was
published on a bus and `socket[k]` the one receiver behind `/ws/events` or
`/ws/logs`: `Receive`, or `Lag` when the channel no longer has the next item (the
event socket goes on, the log socket sends a notice). `Unwatch`, `ReadPolicy` and
`Watch` are `restart_data_watcher`; `WatchNothing` is the two ways in which it answers
Ok without a watcher, none of the folders there or none to be had from the system.
`Restart` ends the app; rows and log stay. `Faults` names the failures a run allows.

### Databases

`pc[c]` is the next command or row write of operation `c`; a step is one of them.
`Possible(c)` is what that command needs, and `CutShort` is everything that ends an
operation there: the command's error, the death of the app, a handler dropped with
its client. Nothing is undone, as in the code. A folder may be copied or removed in
part: `FolderPartly`, `BackupPartly`. `Forget` takes any row and `BeginAdopt` any name in
the cluster, also that of a snapshot's database, because the code asks for no more than
`CheckKnown` does. (One thing is left out there: a database adopted under a snapshot's
name never has attachments in a folder of its own, `LiveFolder`.) `Into` is the name that `plan_upgrade`
derives for the working copy of a database. A database is reduced to the attachments
its rows point at, the version of Odoo it is for, whether a hop failed in it (`mixed`) and whether it was copied without its files (`bare`): what the
properties tell apart. `snapDb`, `snapFiles`, `snapRow` are shared by a snapshot, a
revert's counter-snapshot and an upgrade's checkpoints, as `create_snapshot` is.
`calm` is a history variable: operations took turns and succeeded; so is `clashed`, the
names that two operations were at work on at once.

### ModuleCode

`code` is what the add-ons path holds, one version per module; `installs` is
`module_installs`. `Run`, `RunFails` and `Uninstall` are one-shot `odoo-bin`
commands; a command that fails leaves any subset of its modules done, and a failed
batch goes through its modules one by one to find the culprit. `Record` is
`remember_module_contents`, which hashes what is on disk after the command.
`module_freshness` is `BeginFreshness` (which modules are on disk, and the notes),
`States` (the answer of the database) and `Hash`, which reads the folders as they are
by then. A template's place in the cluster is its key. `held`, `unmoved`, `trusted` and
`sound` are history variables that say which operations, modules of a command, notes and
templates nobody interfered with; the properties need them because the code gives no
guarantee to the others. `LiveIsLive` asks nothing of the reading side but that the note
it read is still the one on record.

### Workspace and Addons

One step per section under the lock of the SQLite connection. `Addons` is a
translation of `modules.rs` into sets and sequences: the tree of folders, the ranks
of the proposal, `Winners`, `Kahn` (the turns of `topological_order`). `ScanIsSound`
compares it with a definition of its own (`IsOrdered`): what is stuck is the largest set
whose members each need a member. Sorted sequences are stated by what they are: the i-th of `InOrder` is
the one with i - 1 before it. A workspace is opened as the app left it (`Wellformed`);
whether names that two databases share in it were ever compared is not on record, so they
count as `unchecked`. Nothing keeps two rows of one name off one cluster: an adopt looks
at the rows of its own server, the others at none (`InsertDatabase`). A hostname is a label, a suffix and whether it has capitals,
which is as much as `hostname`, `set_database_domain` and `find_route` look at.

### Runtimes

`folder[p]` is a folder of the cache: absent, or how far it is written and by which
clone (`begun`: `.git` is there; `marked`: also the files that
`is_odoo_checkout` looks for; `whole`), or a link to the user's own checkout.
`venv[v]` is the interpreter and which packages are in it. `Cleanup` removes whatever
is in the folder; `ClearFails`, `CleanupFails` and `RemoveCachedFails` are removals that
stop half way and leave any of `Leavings`, which may be `scraps` or a folder that still
looks like a checkout. `own` is which checkouts the user has. `remove_cached` deletes
where the links lead (`RemoveTree`), so what keeps them is that it asks first whether
that is still in the cache (`InCache`). `rough` and `refused` are history variables.

### History variables

They say what happened so far, are read by properties (and by each other) only and
guard no action. Where a property has an "unless", it is because the code does not
do better there; the exceptions are stated in the comment of the property.

## 3. Runs

| Run | Bounds | Shows |
|---|---|---|
| `pg_safety` | 4 calls, all faults; 1.45 million states | `TypeOK`, `RunningIsWatched`, `StoppingIsOwned`, `RestIsTruthful`, and `ImplementsLifecycle`: `PgSupervisor` refines `Lifecycle` |
| `pg_live` | 3 calls; `pg_ctl stop` timeouts, crashes, `pg_isready` blips; `FairSpec` | `CrashIsNoticed`, `CallsEnd` |
| `pg_drop` | 3 calls, no faults | violated: `DropLosesNothing` |
| `odoo_safety` | 3 calls, all faults; 349 thousand states | `TypeOK`, `StoppingIsOwned`, `RestIsTruthful` |
| `odoo_live` | 3 calls, at most 2 at a time; processes that ignore TERM or exit by themselves; `FairSpec` | `StopEnds`, `CallsEnd` |
| `odoo_crash` | 2 calls, no faults | violated: `CrashIsUnasked` |
| `databases` | 3 operations, 2 at a time (where there is an upgrade, the third runs alone, unless two were cut before), 2 names, 1 attachment, 2 hops, all faults; 1.0 million states | `RowsHaveDatabases`, `DatabasesHaveRows`, `RevertCanBeUndone`, `UpgradeHasWayBack`, `UpgradeSparesOriginal`, `RestIsCoherent` |
| `modules` | 2 clients, 3 operations, 1 outside change, 2 modules, one needing the other, 2 versions, 2 names, new databases made with the first, failing commands and queries; 709 thousand states | `LiveIsLive`, `ServedIsCurrent`, `OkMeansCurrent` |
| `fleet` | 1 server, 2 clients, 3 transitions, 3 lines, 1 restart, at most 5 inputs, all faults; channels of 1, rings of 2; 793 thousand states | `OnlyRegisteredRun`, `DurableFirst`, `AccountsAgree`, `GapsAreTold`, `PolicyIsWatched` |
| `fleet_reload` | 1 client, 3 calls, 4 transitions | violated: `NextStartHonoursPolicy` |
| `workspace` | 2 clients, 2 calls, 1 request, 1 restart, at most 3 of them together; an empty workspace and a busy one; 4 ports; 6 folders | `ServersAreFiled`, `CopiesGetFreePorts`, `NeverTheWrongBooks`, `ScanIsSound`, `OwnCodeWins` |
| `runtimes` | 2 clients, 4 calls, 2 versions, 1 failing command or removal, 1 crash, at most 5 of these together; 2.8 million states | `RunsWhatIsWhole`, `UserCodeStays`, `RetryHelps` |

Every passing run of safety also checks its module's `TypeOK`.

Why the bounds are enough.

* Supervisors. A generation is issued per accepted call, so the number of calls
  bounds `generation`; there is no other counter. The races are between a call (or
  the watcher or wait task it left behind) and the calls that supersede it: a start
  that is superseded, the stop that does it, a start after that and one more call
  that stops or is refused need four. Three already give every pair of an old and a
  new owner with an intermediate one.
* `Databases`. The hazards are two operations on one name, one of them cut, and a
  third that meets what they left; a snapshot, its revert and one operation beside
  it need three. A second name is the upgrade's copy or a duplicate. Two hops give a
  first, a last, and a checkpoint between them; an upgrade overlaps one operation
  (`MaxBeside`), since it has as many steps as two others. One attachment that is or is not in
  a folder is all that the coherence properties tell apart.
* `ModuleCode`. One operation that makes a record or a template, one that reads it
  and one beside them; the edit is the outside change. Two modules give a
  dependency and a batch, and a template of a module whose dependency came along.
* `Fleet`. `EventCap` and `LineCap` stand for 256 and 2048, `BufferLines` for 5000: at
  1, 1 and 2 they overflow within the lines and transitions there are. Servers
  share nothing but the buses, so one is enough for the accounts.
* `Workspace`. `MaxPort` is 4 so that the last port is reached. `Busy` has two
  Odoos on one port, one from before there were projects, and a name with
  capitals, which no sequence of two calls would make.
* `Runtimes`. Two overlapping calls for a version and another that finds what they
  left need three; the fourth is the retry. Of the two versions one is on the
  user's machine, linked or found there.

Symmetry is used only where no liveness is checked, and only over values that the
specification does not tell apart. `CHECK_DEADLOCK FALSE` everywhere: the inputs are
finite, and a system nobody asks anything any more rests.

Fairness. `FairSpec` of the two supervisors gives weak fairness to the steps of
every call and of every watcher or wait task: tokio polls a task that can go on.
Environment steps are fair only where the operating system sees to them: a
postmaster that boots or shuts down gets there, an odoo-bin binds or ends after a
KILL (after TERM only where `stubborn` is off). `StartDeadline` is strongly fair: it
is a clock, and the poll keeps passing it. No client call, no fault, no crash and no
`Drop` is fair. The other modules have no loops that wait for one another: each
operation is a chain of steps that ends, and they are checked for safety.

What the violated properties say, and why they are kept:

* `DropLosesNothing`. The doc comment of `StopOnDrop` (`core/postgres.rs:120`).
  A stop that overtakes a start before `pg_ctl start` ran leaves Stopped with a
  live postmaster, which the guard then ignores.
* `CrashIsUnasked`. The comments in the wait task (`core/odoo.rs:440-443`). Running
  overwrites Stopping at the end of a startup poll.
* `NextStartHonoursPolicy`. The doc comment of `set_reload_policy`
  (`core/lib.rs:1708`). A supervisor keeps the arguments it was built with, and the
  registry keeps the supervisor until the app ends.

Every property of a passing run has a mutant: a definition of the model changed
the way a plausible slip in the code would change it, with which TLC finds that
property violated. The mutated forms stand before the definition they replace,
under the comment "Mutant".

## 4. Proofs

Every safety property that a passing run checks is also a theorem, for all values of the
constants; what is left to the runs is liveness (see the end of this section). Each proof module shows one
inductive invariant, `Init => Inv` and `Inv /\ [Next]_vars => Inv'`, and takes the
properties from it.

| Module | Inductive invariant | Properties of the runs |
|---|---|---|
| `PgSupervisorProofs` | `Ownership` (`OwnershipHolds`); while `calm`, also `Turns` | `TypeOK`, `RunningIsWatched`, `StoppingIsOwned`, `RestIsTruthful`, `ImplementsLifecycle` |
| `OdooSupervisorProofs` | `Supervision` (`SupervisionHolds`) | `TypeOK`, `StoppingIsOwned`, `RestIsTruthful`; and `MovesAsTold`: the state moves as `OdooLifecycle` says |
| `FleetProofs` | `Order` (`OrderHolds`) | `TypeOK`, `OnlyRegisteredRun`, `DurableFirst`, `GapsAreTold`, `PolicyIsWatched`, `AccountsAgree` |
| `DatabasesProofs` | `Order` (`OrderHolds`); while `calm`, also `Coherent` | `TypeOK`, `RowsHaveDatabases`, `DatabasesHaveRows`, `RevertCanBeUndone`, `UpgradeHasWayBack`, `UpgradeSparesOriginal`, `RestIsCoherent`; and `SnapshotsAreFrozen`, `RevertRestores` |
| `ModuleCodeProofs` | `Custody` (`CustodyHolds`) | `TypeOK`, `LiveIsLive`, `ServedIsCurrent`, `OkMeansCurrent` |
| `RuntimesProofs` | `Care` (`CareHolds`) | `TypeOK`, `RunsWhatIsWhole`, `UserCodeStays`, `RetryHelps` |
| `WorkspaceProofs` | `Order` (`OrderHolds`) | `TypeOK`, `ServersAreFiled`, `CopiesGetFreePorts`, `NeverTheWrongBooks`, `ScanIsSound`, `OwnCodeWins` |

The arguments.

* `PgSupervisor`. `RunningIsWatched` alone is not inductive: a watcher that gives up
  because another generation is current must not have been the last one, and a
  `StopReturned` must not leave Running. What carries it is that the generation is a
  token. It is issued under the lock to one call and never again
  (`GenerationsAreUnique`), and the call that holds the current one, or its watcher,
  can tell from its own program counter what the state is (`OwnerKnowsState`): a start
  between its lock section and its end owns Starting, a stop owns Starting or
  Stopping, a live watcher owns Running. The refinement uses the same facts: the four
  writes that compare the generation can only happen from the states `Lifecycle`
  allows. `RestIsTruthful` adds what can be told of the postmaster while only one
  call is in flight and none has failed.
* `OdooSupervisor`. The token is weaker, because `stop()` shares the generation of the
  `start()` it ends. At most one `start()` of a generation spawns; so the pid that
  `Inner` keeps has a wait task which will match the generation (`PidIsWaitedFor`), and
  that is what ends Stopping. `Turns` says, where one call is in flight at a time, what
  its place tells about process, pid, state and listener.
* `Fleet`. A number for a supervisor is given to one call, and whoever comes second to
  `Insert` finds the first one's (`Registration`). A notice at "publish" is in the log,
  and the bus and the socket have only what is in the log (`Durability`). What a log
  client got last is the line before the next it will get, or the notice
  ((`EndsBefore`); an event client that never lagged has a contiguous window of what was
  sent (`IsWindow`). `Accounts` follows the one notice of a server that is under way,
  from the state through row and log to the client; a row that missed it is `unheard`
  and an event that was not appended leaves the server `untold`, each until the next
  write of its own that succeeds.
* `Databases`. Operations interleave freely and end anywhere, so almost nothing is
  true of a database while one works on it. What nobody can undo is: a name that had
  a database has it still, or there is an operation that took it away (`Presence`); a
  database that had a row had it until an operation removed it (`Tracking`); an id is
  used once (`RowIds`, `SnapshotIds`). `RowsHaveDatabases` needs more, since a name can be
  dropped, made again and dropped through the row that was left. Operations under way at
  once are on record for the names they share (`Apart`). But for names that overlaps, cuts
  or the deletion of a snapshot excuse, a name has one row at most, which loses its
  database only while an operation is between the two (`Settled`). `Undoable`, `WaysBack` and `Alone` say the same of
  what a revert and a hop can go back to.
  `RestIsCoherent` speaks of histories in which operations took turns and succeeded and
  no snapshot was adopted as a database (dropping that one takes the snapshot's away), and
  needs an invariant of its own, `Coherent`: while one operation is under way, its place
  and its arguments say what it has made and not filed yet (`Unfiled`), what it has
  dropped and not struck off or put back (`Emptied`), from which folder the attachments
  of a database are about to come (`Held`), and that what it was asked about is still
  what it was (`Stands`); all the other rows, databases, folders and dumps agree
  (`RowsAgree`, `FoldersAgree`, `DumpsAgree`), up to the databases that somebody forgot
  (`Forgotten`), whose rows are gone and which nothing else speaks of. A lemma for each kind of operation shows
  that its steps keep this; a file that Odoo attaches meanwhile goes into database and
  folder at once (`AttachAgrees`); and at the end of an operation nothing is unfiled,
  emptied or held elsewhere (`SoundRests`). TLC checked `Coherent` before it was proved,
  on the instance of `databases`, and on 4 operations in turn with 2 attachments.
  Two more theorems say what no run checks. `SnapshotsAreFrozen`: under any interleaving
  and any fault, only a deletion of that snapshot, or the drop or revert of a database
  adopted under its name, alters what a snapshot with a row holds; nor does Odoo, which
  writes to none but one so adopted. `RevertRestores`: a
  revert that ended well leaves just the snapshot's database and folder under the live
  name.
* `ModuleCode`. An operation that nobody interfered with still sees what it saw
  (`Held`), and its place says what it has done: at "record", that the database has the
  code on disk of each module the command was for that is still `unmoved`. Sound templates hold what their keys
  say, trusted notes what their database has or had uninstalled: `LiveIsLive` follows from that
  alone, in the state in which the folders are hashed, without a word about what happened
  while the database was asked. It needs that row
  ids are given out once (`RowIds`) and that keys are no names of databases.
* `Runtimes`. Nothing is locked. Two calls for one version mark it `rough`, two at one
  folder mark each other `disturbed`; for the rest, a folder that is not whole belongs
  to exactly the call that is writing or removing it (`Unfinished`), an interpreter that
  is not filled to the call that fills it (`Filling`, `Filled`), and after one refusal the
  folder is gone or somebody's (`Refusals`). A removal that fails makes its version
  `rough`. A link in the cache is only removed as a link, because what `RemoveTree` is
  asked for is `InCache`; that is all `UserCodeStays` rests on.
* `Workspace`. Requests interleave between any two statements. What a request has kept
  still holds when it is used, because nothing it refers to is ever deleted (`Keeping`,
  `References`), or what changed since left its mark on it (`mixed`): until then a copy
  knows every port (`Porting`), and a domain that was compared is nobody else's
  (`Hosting`). `Numbering` keeps the ids of calls, rows and databases apart. `Loading`
  carries `OwnCodeWins`. Between two rows of one proposal on one server the rank follows
  the kind; that survives an adoption under way on the server, and copies of the server
  made meanwhile, since an adoption puts in its rows in that order above all ranks there
  are, and a copy's server is younger than its original: rows of one proposal reach a
  server only from an older one, so what another request put on the new server has no
  mates among the rows still to be copied.
* `Addons`. The i-th member of a finite set in an order exists and is unique
  (`InOrderIs`), from which every sorted or filtered sequence is shown to be sorted and to
  have just the rows it should. `WinnersAreFirst`: no copy of a module with a lower rank
  is passed over. The induction that takes is on a set of numbers (`NatSetInduction`),
  and so is the one on the turns of `topological_order`. A turn keeps `Turned`: a degree
  is the number of edges from what is not done yet, a module is queued or done just when
  it has none, nothing is there twice, and what is done came after what it needs
  (`TurnIs`). As many turns as there are modules empty the queue, since each does one more
  (`KahnIs`). What is left then is a set whose members each need a member; and no such
  set has a module that is done, since the first of them in the order would need one that
  is done earlier still (`ScanIs`).

Assumed: nothing beyond each module's `ConstantsAssumption` (`RuntimesAssumption`,
`AddonsAssumption`, `WorkspaceAssumption`), which TLC evaluates on every run. Besides types and positive bounds these say that `Absent`
is none of the values it stands beside, which in Rust is `None`; that the prefixes
keep names of databases, snapshots (`Names \cap SnapIds = {}`) and templates
(`Names \cap Keys = {}`) apart; that a working copy does not have its original's name;
that nobody asks for an empty set of modules; that there are finitely many modules, in `Addons` also in each folder, where numbers
stand for their names.

Only model-checked: all liveness (`CrashIsNoticed`, `CallsEnd`, `StopEnds`), which is out
of the prover's reach, since it rests on fairness and `ENABLED`. A run that is expected to
find a violation shows one behaviour of the code and needs no proof.

## 5. Not modelled

* Configuration rendering (`core/odoo_conf.rs`) and the manifest parser
  (`core/manifest.rs`): text processing without state. A manifest is what `Disk`
  says, or `Broken`.
* Sizes and the other figures that are read and shown: no operation acts on them.
* The debounce of the data watcher and `update_after_data_change`. The thread that
  drains the watcher is a plain one, where `Handle::try_current` (`core/lib.rs:1796`)
  finds no runtime, so the update is never spawned. A defect, but a sequential one
  that any test of the watcher shows; there is nothing to interleave.
* The PostgreSQL registry, which is the code of the Odoo registry over another map,
  with its listener.
* The token check, JSON and status codes of the HTTP API; the desktop shell; the
  frontend. What matters of them is in the models: a handler's future is dropped
  with its client (`Abandon`, `CutShort`), and quitting ends the process (`Restart`,
  `Crash`).
* What `odoo-bin`, `git`, `uv`, `psql`, `initdb` do inside. They are external
  definitions, with the outcomes the code distinguishes and the partial effects a
  killed or failing command can leave.

Reachable in the models and forbidden by no property, because nothing promises
otherwise: two storages registered by two first callers; a second backup whose dump
lands beside the first one's attachments; a supervisor left at Starting by an error
of `initdb`; a neutralization that takes a failed query for a database without Odoo and
answers Ok (`AskOdoo`). The last is why no property is about neutralization: without that
case nothing would be left of it but the command's own effect. `PROJECT.json` lists what
can go wrong under "hazards", with a note where the properties leave a case out: mostly
overlaps and edits that the code neither prevents nor notices.

One more, which the model has only in part. `plan_upgrade` takes the version to
start from off the row of the server (`core/lib.rs:2345`), and the working copy of an
upgrade is filed under the server of its original (`core/lib.rs:1199`), whose version
no upgrade changes. Upgrading that copy again therefore plans its hops from the old
version, although `core/lib.rs:2567` calls the database's own recorded version the one
that counts. `Databases` plans as the code does: every chain starts at the first
version.

## 6. Plan

No safety property of a passing run is left without a theorem. What could come next:

* the hazards that `PROJECT.json` lists without a property: each is something the code allows, so a
  property would need a promise to hold it to, and the first step is to decide on one;
* liveness of `Runtimes` and `Fleet`, where a call waits for a command or a channel: the
  models have their steps, but no run states a fairness for them.
