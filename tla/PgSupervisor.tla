----------------------------- MODULE PgSupervisor -----------------------------
(***************************************************************************)
(* One supervised PostgreSQL cluster (postgres.rs): the shared             *)
(* Inner{state, generation}, any number of concurrent start() and stop()   *)
(* calls, the health watcher each successful start() leaves behind, the    *)
(* stop-on-drop guard, and the postmaster process they all act on.         *)
(*                                                                         *)
(* A call is a thread of control that holds the mutex for one step at a    *)
(* time: every lock section, every await and every listener call (made off *)
(* the lock) is a step of its own, so all interleavings the tokio runtime  *)
(* can produce are behaviours.  Each element of Calls makes one call; the  *)
(* number of Calls is therefore the bound on the generation counter.       *)
(***************************************************************************)
EXTENDS Naturals

CONSTANTS
  Calls,          \* the start() and stop() calls clients make
  NoCall,         \* "nobody": the launcher of a leftover postmaster, a pid of 0
  Faults          \* which failures the environment produces

\* initdb: it fails; startTimeout, stopTimeout: pg_ctl -w gives up; crash: the
\* postmaster dies; flaky: pg_isready fails though it is alive (load, recovery
\* from the loss of a backend); abandon: the HTTP client leaves.
FaultKinds == {"initdb", "startTimeout", "stopTimeout", "crash", "flaky", "abandon"}

ASSUME ConstantsAssumption ==
  /\ NoCall \notin Calls
  /\ Faults \subseteq FaultKinds

VARIABLES
  state,        \* Inner.state, without the pid of Running
  generation,   \* Inner.generation
  pid,          \* the pid in Running{pid}: the launcher of the process, or 0
  pc,           \* where each call is
  gen,          \* the generation a call read under the lock (0: none yet)
  watcher,      \* where the health watcher spawned by each call is
  abandoned,    \* calls whose future was dropped while a command still runs
  heard,        \* the state most recently passed to on_state_change
  dropped,      \* the last handle is gone
  postmaster,   \* the server process of the data directory
  dataDir,      \* what the data directory holds
  calm          \* history: no two calls overlapped and no command failed so far

vars == <<state, generation, pid, pc, gen, watcher, abandoned, heard, dropped,
          postmaster, dataDir, calm>>

States == {"Stopped", "Starting", "Running", "Stopping", "Crashed"}
Phases == {"down", "booting", "up", "stopping"}

StartLocs == {"tellStarting", "probe", "initdb", "initdbRun", "launch", "waitReady",
              "serving", "startFailed"}
StopLocs  == {"tellStopping", "pgCtlStop", "waitDown", "stopReturned"}
TellLocs  == {"tellRunning", "tellFailed", "tellStopped"}
EndLocs   == {"returned", "refused", "abandoned"}
Locs      == {"idle"} \cup StartLocs \cup StopLocs \cup TellLocs \cup EndLocs

\* The awaits at which the web server can drop a handler's future.
AwaitLocs == {"probe", "initdbRun", "launch", "waitReady", "pgCtlStop", "waitDown"}

LiveWatch  == {"sleep", "probe", "confirm", "decide", "apply"}
WatchLocs  == {"none", "tellCrashed", "gone"} \cup LiveWatch

InFlight == {c \in Calls : pc[c] \notin {"idle"} \cup EndLocs /\ c \notin abandoned}

TypeOK ==
  /\ state \in States
  /\ generation \in Nat
  /\ pid \in Calls \cup {NoCall}
  /\ pc \in [Calls -> Locs]
  /\ gen \in [Calls -> Nat]
  /\ watcher \in [Calls -> WatchLocs]
  /\ abandoned \subseteq Calls
  /\ heard \in States
  /\ dropped \in BOOLEAN
  /\ postmaster \in [phase : Phases, by : Calls \cup {NoCall}]
  /\ dataDir \in {"empty", "initialising", "ready"}
  /\ calm \in BOOLEAN

\* The app opens on a data directory of its own: fresh, or used before, then
\* possibly with a postmaster that survived a hard kill of the app.
Init ==
  /\ state = "Stopped"
  /\ generation = 0
  /\ pid = NoCall
  /\ pc = [c \in Calls |-> "idle"]
  /\ gen = [c \in Calls |-> 0]
  /\ watcher = [c \in Calls |-> "none"]
  /\ abandoned = {}
  /\ heard = "Stopped"
  /\ dropped = FALSE
  /\ calm = TRUE
  /\ \/ dataDir = "empty" /\ postmaster = [phase |-> "down", by |-> NoCall]
     \/ dataDir = "ready" /\ postmaster \in [phase : {"down", "up"}, by : {NoCall}]

-------------------------------------------------------------------------------
Goto(c, l) == pc' = [pc EXCEPT ![c] = l]

\* The end of a command a call awaits: nobody is left to go on if it was dropped.
Resume(c, l) == Goto(c, IF c \in abandoned THEN "abandoned" ELSE l)

Current(c) == gen[c] = generation

\* set_state_if_current, up to the listener call: `tell` is where that call is
\* made, `skip` where a superseded caller goes on.
SetStateIfCurrent(c, new, tell, skip) ==
  \/ Current(c) /\ state' = new /\ Goto(c, tell)
  \/ ~Current(c) /\ Goto(c, skip) /\ UNCHANGED state

Tell(c, at, what, next) ==
  /\ pc[c] = at
  /\ heard' = what
  /\ Goto(c, next)

Invoke(c) ==
  /\ pc[c] = "idle"
  /\ ~dropped
  /\ calm' = (calm /\ InFlight = {})

\* The lock section that opens an accepted start() or stop().
NewGeneration(c, new) ==
  /\ generation' = generation + 1
  /\ gen' = [gen EXCEPT ![c] = generation + 1]
  /\ state' = new

-------------------------------------------------------------------------------
(* start() *)

StartRefused(c) ==
  /\ Invoke(c)
  /\ state \in {"Running", "Starting"}
  /\ Goto(c, "refused")
  /\ UNCHANGED <<state, generation, pid, gen, watcher, abandoned, heard, dropped,
                 postmaster, dataDir>>

StartAccepted(c) ==
  /\ Invoke(c)
  /\ state \notin {"Running", "Starting"}
  /\ NewGeneration(c, "Starting")
  /\ Goto(c, "tellStarting")
  /\ UNCHANGED <<pid, watcher, abandoned, heard, dropped, postmaster, dataDir>>

TellStarting(c) ==
  /\ Tell(c, "tellStarting", "Starting", "probe")
  /\ UNCHANGED <<state, generation, pid, gen, watcher, abandoned, dropped,
                 postmaster, dataDir, calm>>

\* cluster_is_already_running: a process that is still booting may not have
\* written postmaster.pid yet; one that is shutting down still has it.
Probe(c) ==
  /\ pc[c] = "probe"
  /\ \/ postmaster.phase # "down" /\ Resume(c, "serving")
     \/ postmaster.phase \in {"down", "booting"} /\ Resume(c, "initdb")
  /\ UNCHANGED <<state, generation, pid, gen, watcher, abandoned, heard, dropped,
                 postmaster, dataDir, calm>>

\* ensure_initdb up to the command.  The `?` on its error returns from start()
\* and leaves the state at Starting.  Another call's initdb that has not
\* finished shows as a PG_VERSION file, or as a directory initdb refuses.
EnsureInitdb(c) ==
  /\ pc[c] = "initdb"
  /\ \/ dataDir = "empty" /\ dataDir' = "initialising" /\ Goto(c, "initdbRun")
     \/ dataDir = "initialising" /\ Goto(c, "returned") /\ UNCHANGED dataDir
     \/ dataDir # "empty" /\ Goto(c, "launch") /\ UNCHANGED dataDir
  /\ UNCHANGED <<state, generation, pid, gen, watcher, abandoned, heard, dropped,
                 postmaster, calm>>

InitdbEnds(c) ==
  /\ pc[c] = "initdbRun"
  /\ \/ dataDir' = "ready" /\ Resume(c, "launch") /\ UNCHANGED calm
     \/ /\ "initdb" \in Faults
        /\ dataDir' = "empty"
        /\ Resume(c, "returned")
        /\ calm' = FALSE
  /\ UNCHANGED <<state, generation, pid, gen, watcher, abandoned, heard, dropped,
                 postmaster>>

\* `pg_ctl start` forks a postmaster, which exits at once on a lock file that
\* is held or on a directory that is not a cluster yet.
Launch(c) ==
  /\ pc[c] = "launch"
  /\ IF postmaster.phase = "down" /\ dataDir = "ready"
     THEN postmaster' = [phase |-> "booting", by |-> c] /\ Goto(c, "waitReady")
     ELSE Resume(c, "startFailed") /\ UNCHANGED postmaster
  /\ UNCHANGED <<state, generation, pid, gen, watcher, abandoned, heard, dropped,
                 dataDir, calm>>

\* `-w`: pg_ctl returns when the process it launched is ready, has exited, or
\* the timeout is over (the process may then still come up).
WaitReady(c) ==
  /\ pc[c] = "waitReady"
  /\ \/ /\ postmaster = [phase |-> "up", by |-> c]
        /\ Resume(c, "serving")
        /\ UNCHANGED calm
     \/ /\ postmaster.phase = "down" \/ postmaster.by # c
        /\ Resume(c, "startFailed")
        /\ UNCHANGED calm
     \/ /\ "startTimeout" \in Faults /\ postmaster.phase # "up"
        /\ Resume(c, "startFailed")
        /\ calm' = FALSE
  /\ UNCHANGED <<state, generation, pid, gen, watcher, abandoned, heard, dropped,
                 postmaster, dataDir>>

\* Mutant: an error of `pg_ctl start` is passed on by `?`, as one of initdb is.
StartFailedByQuestionMark(c) ==
  /\ pc[c] = "startFailed"
  /\ Goto(c, "returned")
  /\ UNCHANGED <<state, generation, pid, gen, watcher, abandoned, heard, dropped,
                 postmaster, dataDir, calm>>

StartFailed(c) ==
  /\ pc[c] = "startFailed"
  /\ SetStateIfCurrent(c, "Stopped", "tellFailed", "returned")
  /\ UNCHANGED <<generation, pid, gen, watcher, abandoned, heard, dropped,
                 postmaster, dataDir, calm>>

TellFailed(c) ==
  /\ Tell(c, "tellFailed", "Stopped", "returned")
  /\ UNCHANGED <<state, generation, pid, gen, watcher, abandoned, dropped,
                 postmaster, dataDir, calm>>

\* Mutant: the generation is put where the pid belongs.
ServingWithGeneration(c) ==
  /\ pc[c] = "serving"
  /\ IF Current(c)
     THEN state' = "Running" /\ pid' = gen[c] /\ Goto(c, "tellRunning")
     ELSE Goto(c, "returned") /\ UNCHANGED <<state, pid>>
  /\ UNCHANGED <<generation, gen, watcher, abandoned, heard, dropped, postmaster,
                 dataDir, calm>>

\* read_pid (0 when postmaster.pid is gone) and the move to Running.  A
\* superseded start() skips the move but spawns its watcher and returns Ok.
Serving(c) ==
  /\ pc[c] = "serving"
  /\ \/ /\ Current(c)
        /\ state' = "Running"
        /\ pid' = IF postmaster.phase = "down" THEN NoCall ELSE postmaster.by
        /\ Goto(c, "tellRunning")
        /\ UNCHANGED watcher
     \/ /\ ~Current(c)
        /\ Goto(c, "returned")
        /\ watcher' = [watcher EXCEPT ![c] = "sleep"]
        /\ UNCHANGED <<state, pid>>
  /\ UNCHANGED <<generation, gen, abandoned, heard, dropped, postmaster, dataDir,
                 calm>>

\* Mutant: no watcher is spawned.
TellRunningUnwatched(c) ==
  /\ Tell(c, "tellRunning", "Running", "returned")
  /\ UNCHANGED <<state, generation, pid, gen, watcher, abandoned, dropped,
                 postmaster, dataDir, calm>>

\* The listener hears Running, then spawn_health_watcher.
TellRunning(c) ==
  /\ Tell(c, "tellRunning", "Running", "returned")
  /\ watcher' = [watcher EXCEPT ![c] = "sleep"]
  /\ UNCHANGED <<state, generation, pid, gen, abandoned, dropped, postmaster,
                 dataDir, calm>>

-------------------------------------------------------------------------------
(* stop() *)

StopNoop(c) ==
  /\ Invoke(c)
  /\ state = "Stopped"
  /\ Goto(c, "returned")
  /\ UNCHANGED <<state, generation, pid, gen, watcher, abandoned, heard, dropped,
                 postmaster, dataDir>>

StopCrashed(c) ==
  /\ Invoke(c)
  /\ state = "Crashed"
  /\ NewGeneration(c, "Stopped")
  /\ Goto(c, "tellStopped")
  /\ UNCHANGED <<pid, watcher, abandoned, heard, dropped, postmaster, dataDir>>

\* Mutant: a stop() that finds Stopping takes the generation, then has nothing to do.
StopAcceptedIdly(c) ==
  /\ Invoke(c)
  /\ state \in {"Running", "Starting", "Stopping"}
  /\ NewGeneration(c, IF state = "Running" THEN "Stopping" ELSE state)
  /\ Goto(c, IF state = "Stopping" THEN "returned" ELSE "tellStopping")
  /\ UNCHANGED <<pid, watcher, abandoned, heard, dropped, postmaster, dataDir>>

\* Mutant: stop() works under the generation it finds, as that of odoo.rs does.
StopAcceptedSameGeneration(c) ==
  /\ Invoke(c)
  /\ state \in {"Running", "Starting", "Stopping"}
  /\ state' = IF state = "Running" THEN "Stopping" ELSE state
  /\ gen' = [gen EXCEPT ![c] = generation]
  /\ Goto(c, "tellStopping")
  /\ UNCHANGED <<generation, pid, watcher, abandoned, heard, dropped, postmaster,
                 dataDir>>

\* Only Running moves to Stopping; a start or stop in progress is superseded
\* and its state left as it is.
StopAccepted(c) ==
  /\ Invoke(c)
  /\ state \in {"Running", "Starting", "Stopping"}
  /\ NewGeneration(c, IF state = "Running" THEN "Stopping" ELSE state)
  /\ Goto(c, "tellStopping")
  /\ UNCHANGED <<pid, watcher, abandoned, heard, dropped, postmaster, dataDir>>

TellStopping(c) ==
  /\ Tell(c, "tellStopping", "Stopping", "pgCtlStop")
  /\ UNCHANGED <<state, generation, pid, gen, watcher, abandoned, dropped,
                 postmaster, dataDir, calm>>

\* `pg_ctl stop` finds the postmaster through postmaster.pid, which a booting
\* one may not have written; without it the command fails at once.
PgCtlStop(c) ==
  /\ pc[c] = "pgCtlStop"
  /\ \/ /\ postmaster.phase # "down"
        /\ postmaster' = [postmaster EXCEPT !.phase = "stopping"]
        /\ Goto(c, "waitDown")
     \/ /\ postmaster.phase \in {"down", "booting"}
        /\ Resume(c, "stopReturned")
        /\ UNCHANGED postmaster
  /\ UNCHANGED <<state, generation, pid, gen, watcher, abandoned, heard, dropped,
                 dataDir, calm>>

\* Mutant: the wait for the shutdown has no timeout.
WaitDownForever(c) ==
  /\ pc[c] = "waitDown"
  /\ postmaster.phase = "down"
  /\ Resume(c, "stopReturned")
  /\ UNCHANGED <<state, generation, pid, gen, watcher, abandoned, heard, dropped,
                 postmaster, dataDir, calm>>

\* `-w`: until postmaster.pid is gone, or the timeout.  A postmaster started
\* meanwhile keeps the file there, and then only the timeout ends the wait.
WaitDown(c) ==
  /\ pc[c] = "waitDown"
  /\ postmaster.phase # "stopping" \/ "stopTimeout" \in Faults
  /\ calm' = (calm /\ postmaster.phase # "stopping")
  /\ Resume(c, "stopReturned")
  /\ UNCHANGED <<state, generation, pid, gen, watcher, abandoned, heard, dropped,
                 postmaster, dataDir>>

\* Stopped whatever pg_ctl answered.
StopReturned(c) ==
  /\ pc[c] = "stopReturned"
  /\ SetStateIfCurrent(c, "Stopped", "tellStopped", "returned")
  /\ UNCHANGED <<generation, pid, gen, watcher, abandoned, heard, dropped,
                 postmaster, dataDir, calm>>

TellStopped(c) ==
  /\ Tell(c, "tellStopped", "Stopped", "returned")
  /\ UNCHANGED <<state, generation, pid, gen, watcher, abandoned, dropped,
                 postmaster, dataDir, calm>>

\* The HTTP client went away while the handler awaited: the future is dropped,
\* the spawn_blocking command it waited for runs on.
Abandon(c) ==
  /\ "abandon" \in Faults
  /\ pc[c] \in AwaitLocs
  /\ abandoned' = abandoned \cup {c}
  /\ calm' = FALSE
  /\ UNCHANGED <<state, generation, pid, pc, gen, watcher, heard, dropped,
                 postmaster, dataDir>>

-------------------------------------------------------------------------------
(* The health watcher of a start(), and the guard of the last handle *)

Watch(c, from, to) ==
  /\ watcher[c] = from
  /\ watcher' = [watcher EXCEPT ![c] = to]

\* The interval is over: is there still something of this generation to watch?
WatcherWakes(c) ==
  /\ Watch(c, "sleep", IF ~dropped /\ Current(c) /\ state = "Running"
                       THEN "probe" ELSE "gone")
  /\ UNCHANGED <<state, generation, pid, pc, gen, abandoned, heard, dropped,
                 postmaster, dataDir, calm>>

\* Mutant: a blip ends the watcher instead of its round.
WatcherProbesOnce(c) ==
  /\ \/ /\ postmaster.phase = "up"
        /\ Watch(c, "probe", "sleep") \/ Watch(c, "confirm", "gone")
        /\ UNCHANGED calm
     \/ /\ postmaster.phase # "up" \/ "flaky" \in Faults
        /\ Watch(c, "probe", "confirm") \/ Watch(c, "confirm", "decide")
        /\ calm' = (calm /\ postmaster.phase # "up")
  /\ UNCHANGED <<state, generation, pid, pc, gen, abandoned, heard, dropped,
                 postmaster, dataDir>>

\* pg_isready: true only of a server that is up.  It may be false of one that is
\* alive too: under load, or while it recovers from the loss of a backend.
WatcherProbes(c) ==
  /\ \/ /\ postmaster.phase = "up"
        /\ Watch(c, "probe", "sleep") \/ Watch(c, "confirm", "sleep")
        /\ UNCHANGED calm
     \/ /\ postmaster.phase # "up" \/ "flaky" \in Faults
        /\ Watch(c, "probe", "confirm") \/ Watch(c, "confirm", "decide")
        /\ calm' = (calm /\ postmaster.phase # "up")
  /\ UNCHANGED <<state, generation, pid, pc, gen, abandoned, heard, dropped,
                 postmaster, dataDir>>

\* should_apply is read in a lock section of its own ...
WatcherDecides(c) ==
  /\ Watch(c, "decide", IF Current(c) /\ state = "Running" THEN "apply" ELSE "gone")
  /\ UNCHANGED <<state, generation, pid, pc, gen, abandoned, heard, dropped,
                 postmaster, dataDir, calm>>

\* ... and the section that writes Crashed compares the generation alone.
WatcherApplies(c) ==
  /\ Watch(c, "apply", IF Current(c) THEN "tellCrashed" ELSE "gone")
  /\ state' = IF Current(c) THEN "Crashed" ELSE state
  /\ UNCHANGED <<generation, pid, pc, gen, abandoned, heard, dropped, postmaster,
                 dataDir, calm>>

WatcherTells(c) ==
  /\ Watch(c, "tellCrashed", "gone")
  /\ heard' = "Crashed"
  /\ UNCHANGED <<state, generation, pid, pc, gen, abandoned, dropped, postmaster,
                 dataDir, calm>>

\* StopOnDrop::drop.  `pg_ctl stop` first; if that fails, the pid Running
\* carries is signalled, which ends the postmaster only if it is its pid.
Drop ==
  /\ ~dropped
  /\ InFlight = {}
  /\ dropped' = TRUE
  /\ IF state \in {"Running", "Starting"} /\ postmaster.phase # "down"
     THEN \/ postmaster' = [postmaster EXCEPT !.phase = "down"]
          \/ /\ "stopTimeout" \in Faults
             /\ state = "Starting" \/ pid # postmaster.by
             /\ UNCHANGED postmaster
     ELSE UNCHANGED postmaster
  /\ UNCHANGED <<state, generation, pid, pc, gen, watcher, abandoned, heard,
                 dataDir, calm>>

-------------------------------------------------------------------------------
(* The postmaster itself *)

PhaseChange(from, to) ==
  /\ postmaster.phase \in from
  /\ postmaster' = [postmaster EXCEPT !.phase = to]
  /\ UNCHANGED <<state, generation, pid, pc, gen, watcher, abandoned, heard,
                 dropped, dataDir, calm>>

PostmasterUp    == PhaseChange({"booting"}, "up")
PostmasterExits == PhaseChange({"stopping"}, "down")
PostmasterDies  == "crash" \in Faults /\ PhaseChange({"booting", "up"}, "down")

\* What a call does by itself once it is made.
Proceed(c) ==
  \/ TellStarting(c)
  \/ Probe(c)
  \/ EnsureInitdb(c)
  \/ InitdbEnds(c)
  \/ Launch(c)
  \/ WaitReady(c)
  \/ StartFailed(c)
  \/ TellFailed(c)
  \/ Serving(c)
  \/ TellRunning(c)
  \/ TellStopping(c)
  \/ PgCtlStop(c)
  \/ WaitDown(c)
  \/ StopReturned(c)
  \/ TellStopped(c)

WatcherSteps(c) ==
  \/ WatcherWakes(c)
  \/ WatcherProbes(c)
  \/ WatcherDecides(c)
  \/ WatcherApplies(c)
  \/ WatcherTells(c)

Client(c) ==
  \/ StartRefused(c)
  \/ StartAccepted(c)
  \/ StopNoop(c)
  \/ StopCrashed(c)
  \/ StopAccepted(c)
  \/ Abandon(c)

Next ==
  \/ \E c \in Calls : Client(c) \/ Proceed(c) \/ WatcherSteps(c)
  \/ Drop
  \/ PostmasterUp
  \/ PostmasterExits
  \/ PostmasterDies

Spec == Init /\ [][Next]_vars

\* The runtime polls every spawned task and every awaited call again, and the
\* operating system lets a postmaster that boots or shuts down get there.
FairSpec ==
  /\ Spec
  /\ \A c \in Calls : WF_vars(Proceed(c)) /\ WF_vars(WatcherSteps(c))
  /\ WF_vars(PostmasterUp)
  /\ WF_vars(PostmasterExits)

-------------------------------------------------------------------------------
(* The inductive invariant behind the safety properties: who the current      *)
(* generation belongs to, and what the state is while its owner is at work.   *)

\* A generation is issued to one call, under the lock, and never again.
GenerationsAreUnique ==
  /\ \A c \in Calls : gen[c] <= generation
  /\ \A c, d \in Calls : gen[c] = gen[d] /\ gen[c] # 0 => c = d
  /\ \A c \in Calls : pc[c] \in StartLocs \cup StopLocs \cup TellLocs => gen[c] # 0
  /\ \A c \in Calls : pc[c] = "idle" => gen[c] = 0
  /\ \A c \in Calls : gen[c] = 0 => watcher[c] = "none" /\ c \notin abandoned
  /\ \A c \in Calls : watcher[c] # "none" => pc[c] = "returned"

\* What the owner of the current generation knows about the state.
OwnerKnowsState ==
  \A c \in Calls : Current(c) /\ gen[c] # 0 =>
    /\ pc[c] \in StartLocs => state = "Starting"
    /\ pc[c] \in StopLocs => state \in {"Starting", "Stopping"}
    /\ pc[c] = "tellRunning" => state = "Running"
    /\ pc[c] \in {"tellFailed", "tellStopped"} => state = "Stopped"
    /\ watcher[c] \in LiveWatch => state = "Running"

-------------------------------------------------------------------------------
(* Properties *)

\* The comment on Inner.generation says a stale watcher "can never clobber a
\* newer one's state": whatever calls and watchers overlap, the state only
\* moves the way one lone start/watch/stop cycle would move it.
Promise == INSTANCE Lifecycle WITH state <- state
ImplementsLifecycle == Promise!Spec

\* A crash can only be noticed by a live watcher of the current generation.  As
\* long as a handle exists, Running is never left without one (or without the
\* start() that is about to spawn it), in spite of watchers that give up when
\* they look while another generation is current.
RunningIsWatched ==
  state = "Running" /\ ~dropped =>
    \E c \in Calls : /\ Current(c)
                     /\ watcher[c] \in LiveWatch \/ pc[c] = "tellRunning"

\* Stopping is never left without the stop() that will end it, unless the
\* client of that very call went away: a newer stop() takes the duty over from
\* the one it supersedes.
StoppingIsOwned ==
  state = "Stopping" =>
    \E c \in Calls : /\ Current(c)
                     /\ pc[c] \in StopLocs \/ c \in abandoned

\* As long as clients take turns and no command fails, a supervisor at rest
\* tells the truth, crashes of the postmaster or not: no transition is left
\* hanging; once the supervisor was used, Stopped means that nothing serves the
\* data directory any more, and so does the end of the last handle; and what the
\* listener heard last is the state, save for a notice of a crash, which the
\* watcher makes off the lock and the next call can overtake.
RestIsTruthful ==
  calm /\ InFlight = {} /\ generation > 0 =>
    /\ state \notin {"Starting", "Stopping"}
    /\ state = "Stopped" \/ dropped => postmaster.phase \notin {"booting", "up"}
    /\ heard \in {state, "Crashed"} \/ \E c \in Calls : watcher[c] = "tellCrashed"

\* A postmaster that is gone while the state says Running is noticed, unless
\* the handle is dropped or another postmaster comes up first.
CrashIsNoticed ==
  (state = "Running" /\ postmaster.phase = "down") ~>
    (state # "Running" \/ postmaster.phase # "down" \/ dropped)

\* Every call that was made ends: no start() and stop() wait for each other,
\* whatever they do to the same postmaster.
CallsEnd == \A c \in Calls : (c \in InFlight) ~> (pc[c] \in EndLocs \/ c \in abandoned)

Ownership ==
  /\ TypeOK
  /\ GenerationsAreUnique
  /\ OwnerKnowsState
  /\ RunningIsWatched
  /\ StoppingIsOwned

-------------------------------------------------------------------------------
(* What comments and messages of postgres.rs say, and the code does not do *)

\* "Nobody should be able to lose a running PostgreSQL by dropping a Rust
\* value": once the last handle is gone, and every command still in flight has
\* ended, no postmaster that a start() launched serves the data directory.
DropLosesNothing ==
  dropped /\ (\A c \in Calls : pc[c] \in {"idle"} \cup EndLocs) =>
    postmaster.phase # "up" \/ postmaster.by = NoCall
=============================================================================
