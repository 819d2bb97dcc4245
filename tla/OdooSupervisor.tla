---------------------------- MODULE OdooSupervisor ----------------------------
(***************************************************************************)
(* One supervised odoo-bin (odoo.rs).  Unlike PgSupervisor it owns the     *)
(* process it spawned: a wait task observes the exit, stop() signals a     *)
(* recorded pid and leaves the generation alone, and start() polls the     *)
(* HTTP port to decide that the process is up.                             *)
(*                                                                         *)
(* Every lock section, await and listener call is a step of its own.  Each *)
(* element of Calls makes one start() or stop(); a call also names the     *)
(* process it spawned and the wait task it left behind.                    *)
(***************************************************************************)
EXTENDS Naturals, FiniteSets

CONSTANTS
  Calls,          \* the start() and stop() calls clients make
  NoCall,         \* no pid
  Faults,         \* which failures the environment produces
  MaxInFlight     \* how many calls may overlap

\* spawn: the command cannot be run; exit: the process ends by itself; timeout:
\* it is not ready in time; stubborn: it ignores TERM; squatter: a stranger
\* serves the port; abandon: the HTTP client leaves, the handler is dropped.
FaultKinds == {"spawn", "exit", "timeout", "stubborn", "squatter", "abandon"}

ASSUME ConstantsAssumption ==
  /\ NoCall \notin Calls
  /\ Faults \subseteq FaultKinds
  /\ MaxInFlight \in Nat \ {0}

VARIABLES
  state,        \* Inner.state
  currentPid,   \* Inner.current_pid: the call that spawned that process
  generation,   \* Inner.generation
  pc,           \* where each call is
  gen,          \* the generation a call works for (0: none yet)
  target,       \* the pid a stop() read under the lock
  proc,         \* the process each start() spawned
  waiter,       \* where the wait task of each spawned process is
  heard,        \* the state most recently passed to on_notify
  dropped,      \* the last handle is gone
  squatter,     \* something else answers HTTP on the port
  calm          \* history: calls took turns, nothing disturbed a call in flight

vars == <<state, currentPid, generation, pc, gen, target, proc, waiter, heard,
          dropped, squatter, calm>>

States   == {"Stopped", "Starting", "Running", "Stopping", "Crashed"}
\* closing: got TERM while it served; termed: got TERM while it booted.
Alive    == {"booting", "ready", "closing", "termed", "killed"}
EndLocs  == {"returned", "refused", "abandoned"}
WorkLocs == {"tellStarting", "portProbe", "spawn", "recordPid", "poll", "httpProbe",
             "serving", "tellRunning", "startTimedOut", "setStopped", "tellStopped",
             "tellStopping", "signal", "waitExit", "escalate", "waitKilled"}

\* The awaits at which the web server can drop a handler's future.
AwaitLocs == {"portProbe", "httpProbe", "waitExit", "waitKilled"}

InFlight == {c \in Calls : pc[c] \in WorkLocs}

TypeOK ==
  /\ state \in States
  /\ currentPid \in Calls \cup {NoCall}
  /\ generation \in Nat
  /\ pc \in [Calls -> {"idle"} \cup WorkLocs \cup EndLocs]
  /\ gen \in [Calls -> Nat]
  /\ target \in [Calls -> Calls \cup {NoCall}]
  /\ proc \in [Calls -> {"none", "exited"} \cup Alive]
  /\ waiter \in [Calls -> {"none", "waiting", "tellStopped", "tellCrashed", "gone"}]
  /\ heard \in States
  /\ dropped \in BOOLEAN
  /\ squatter \in BOOLEAN
  /\ calm \in BOOLEAN

Init ==
  /\ state = "Stopped"
  /\ currentPid = NoCall
  /\ generation = 0
  /\ pc = [c \in Calls |-> "idle"]
  /\ gen = [c \in Calls |-> 0]
  /\ target = [c \in Calls |-> NoCall]
  /\ proc = [c \in Calls |-> "none"]
  /\ waiter = [c \in Calls |-> "none"]
  /\ heard = "Stopped"
  /\ dropped = FALSE
  /\ squatter = FALSE
  /\ calm = TRUE

-------------------------------------------------------------------------------
Goto(c, l) == pc' = [pc EXCEPT ![c] = l]

Current(c) == gen[c] = generation

\* set_state_if_current up to the listener call: a pid is forgotten with the
\* process it belonged to, whoever sets the state and wherever the pid is from.
SetStateIfCurrent(c, new, tell) ==
  IF Current(c)
  THEN /\ state' = new
       /\ currentPid' = IF new \in {"Stopped", "Crashed"} THEN NoCall ELSE currentPid
       /\ Goto(c, tell)
  ELSE Goto(c, "returned") /\ UNCHANGED <<state, currentPid>>

Tell(c, at, what, next) ==
  /\ pc[c] = at
  /\ heard' = what
  /\ Goto(c, next)
  /\ UNCHANGED <<state, currentPid, generation, gen, target, proc, waiter, dropped,
                 squatter, calm>>

Invoke(c) ==
  /\ pc[c] = "idle"
  /\ ~dropped
  /\ Cardinality(InFlight) < MaxInFlight
  /\ calm' = (calm /\ InFlight = {})

\* tcp_http_ready(port): whoever serves the port answers; a process that got
\* TERM may still answer for a while.
PortAnswers == squatter \/ \E d \in Calls : proc[d] \in {"ready", "closing"}
PortSilent  == ~squatter /\ \A d \in Calls : proc[d] # "ready"
PortTaken   == squatter \/ \E d \in Calls : proc[d] \in {"ready", "closing"}

Term(d) ==
  proc' = [proc EXCEPT ![d] = CASE @ = "booting" -> "termed"
                                [] @ = "ready"   -> "closing"
                                [] OTHER         -> @]

Kill(d) == proc' = [proc EXCEPT ![d] = IF @ \in Alive THEN "killed" ELSE @]

-------------------------------------------------------------------------------
(* start() *)

StartRefused(c) ==
  /\ Invoke(c)
  /\ state \in {"Running", "Starting", "Stopping"}
  /\ Goto(c, "refused")
  /\ UNCHANGED <<state, currentPid, generation, gen, target, proc, waiter, heard,
                 dropped, squatter>>

StartAccepted(c) ==
  /\ Invoke(c)
  /\ state \in {"Stopped", "Crashed"}
  /\ generation' = generation + 1
  /\ gen' = [gen EXCEPT ![c] = generation + 1]
  /\ state' = "Starting"
  /\ currentPid' = NoCall
  /\ Goto(c, "tellStarting")
  /\ UNCHANGED <<target, proc, waiter, heard, dropped, squatter>>

TellStarting(c) == Tell(c, "tellStarting", "Starting", "portProbe")

\* A port that answers before the spawn is never adopted: PortInUse.
ProbePort(c) ==
  /\ pc[c] = "portProbe"
  /\ \/ PortAnswers /\ Goto(c, "setStopped")
     \/ PortSilent /\ Goto(c, "spawn")
  /\ UNCHANGED <<state, currentPid, generation, gen, target, proc, waiter, heard,
                 dropped, squatter, calm>>

\* cmd.spawn(): nothing asks whether a stop() came in since the lock section.
Spawn(c) ==
  /\ pc[c] = "spawn"
  /\ \/ proc' = [proc EXCEPT ![c] = "booting"] /\ Goto(c, "recordPid")
     \/ "spawn" \in Faults /\ Goto(c, "setStopped") /\ UNCHANGED proc
  /\ UNCHANGED <<state, currentPid, generation, gen, target, waiter, heard,
                 dropped, squatter, calm>>

\* Mutant: the generation is put where the pid belongs.
RecordGeneration(c) ==
  /\ pc[c] = "recordPid"
  /\ currentPid' = IF Current(c) THEN gen[c] ELSE currentPid
  /\ waiter' = [waiter EXCEPT ![c] = "waiting"]
  /\ Goto(c, "poll")
  /\ UNCHANGED <<state, generation, gen, target, proc, heard, dropped, squatter,
                 calm>>

\* The pid is recorded in a lock section of its own; then the wait task starts.
RecordPid(c) ==
  /\ pc[c] = "recordPid"
  /\ currentPid' = IF Current(c) THEN c ELSE currentPid
  /\ waiter' = [waiter EXCEPT ![c] = "waiting"]
  /\ Goto(c, "poll")
  /\ UNCHANGED <<state, generation, gen, target, proc, heard, dropped, squatter,
                 calm>>

\* The lock section of the startup poll: superseded, or crashed, or go on.
Poll(c) ==
  /\ pc[c] = "poll"
  /\ Goto(c, IF ~Current(c) \/ state = "Crashed" THEN "returned" ELSE "httpProbe")
  /\ UNCHANGED <<state, currentPid, generation, gen, target, proc, waiter, heard,
                 dropped, squatter, calm>>

ProbeHttp(c) ==
  /\ pc[c] = "httpProbe"
  /\ \/ PortAnswers /\ Goto(c, "serving")
     \/ PortSilent /\ Goto(c, "poll")
  /\ UNCHANGED <<state, currentPid, generation, gen, target, proc, waiter, heard,
                 dropped, squatter, calm>>

\* Mutant: the poll has no deadline of its own.
StartDeadlineNever(c) ==
  /\ pc[c] = "httpProbe"
  /\ "timeout" \in Faults /\ proc[c] = "booting"
  /\ Goto(c, "startTimedOut")
  /\ UNCHANGED <<state, currentPid, generation, gen, target, proc, waiter, heard,
                 dropped, squatter, calm>>

\* The deadline has passed.  A process that boots may be slow; one that will
\* never serve is not waited for forever.
StartDeadline(c) ==
  /\ pc[c] = "httpProbe"
  /\ PortSilent
  /\ "timeout" \in Faults \/ proc[c] \notin {"booting", "ready"}
  /\ Goto(c, "startTimedOut")
  /\ UNCHANGED <<state, currentPid, generation, gen, target, proc, waiter, heard,
                 dropped, squatter, calm>>

\* Ready: Running, over whatever the state became since the poll looked.
Serving(c) ==
  /\ pc[c] = "serving"
  /\ SetStateIfCurrent(c, "Running", "tellRunning")
  /\ UNCHANGED <<generation, gen, target, proc, waiter, heard, dropped, squatter,
                 calm>>

TellRunning(c) == Tell(c, "tellRunning", "Running", "returned")

\* Mutant: a start() that gives up leaves its process alone.
StartTimedOutMildly(c) ==
  /\ pc[c] = "startTimedOut"
  /\ Goto(c, "setStopped")
  /\ UNCHANGED <<state, currentPid, generation, gen, target, proc, waiter, heard,
                 dropped, squatter, calm>>

StartTimedOut(c) ==
  /\ pc[c] = "startTimedOut"
  /\ Kill(c)
  /\ Goto(c, "setStopped")
  /\ UNCHANGED <<state, currentPid, generation, gen, target, waiter, heard,
                 dropped, squatter, calm>>

\* The end of a failed start(), and of a stop() that found no pid to signal.
SetStopped(c) ==
  /\ pc[c] = "setStopped"
  /\ SetStateIfCurrent(c, "Stopped", "tellStopped")
  /\ UNCHANGED <<generation, gen, target, proc, waiter, heard, dropped, squatter,
                 calm>>

TellStopped(c) == Tell(c, "tellStopped", "Stopped", "returned")

-------------------------------------------------------------------------------
(* stop() *)

StopNoop(c) ==
  /\ Invoke(c)
  /\ state \in {"Stopped", "Stopping"}
  /\ Goto(c, "returned")
  /\ UNCHANGED <<state, currentPid, generation, gen, target, proc, waiter, heard,
                 dropped, squatter>>

StopCrashed(c) ==
  /\ Invoke(c)
  /\ state = "Crashed"
  /\ state' = "Stopped"
  /\ generation' = generation + 1
  /\ gen' = [gen EXCEPT ![c] = generation + 1]
  /\ currentPid' = NoCall
  /\ Goto(c, "tellStopped")
  /\ UNCHANGED <<target, proc, waiter, heard, dropped, squatter>>

\* Mutant: stop() takes a new generation, as that of postgres.rs does.
StopAcceptedNewGeneration(c) ==
  /\ Invoke(c)
  /\ state \in {"Starting", "Running"}
  /\ state' = "Stopping"
  /\ generation' = generation + 1
  /\ gen' = [gen EXCEPT ![c] = generation + 1]
  /\ target' = [target EXCEPT ![c] = currentPid]
  /\ Goto(c, "tellStopping")
  /\ UNCHANGED <<currentPid, proc, waiter, heard, dropped, squatter>>

StopAccepted(c) ==
  /\ Invoke(c)
  /\ state \in {"Starting", "Running"}
  /\ state' = "Stopping"
  /\ gen' = [gen EXCEPT ![c] = generation]
  /\ target' = [target EXCEPT ![c] = currentPid]
  /\ Goto(c, "tellStopping")
  /\ UNCHANGED <<currentPid, generation, proc, waiter, heard, dropped, squatter>>

TellStopping(c) ==
  Tell(c, "tellStopping", "Stopping", IF target[c] = NoCall THEN "setStopped" ELSE "signal")

SignalTerm(c) ==
  /\ pc[c] = "signal"
  /\ Term(target[c])
  /\ Goto(c, "waitExit")
  /\ UNCHANGED <<state, currentPid, generation, gen, target, waiter, heard,
                 dropped, squatter, calm>>

\* Both waits look at the state alone, not at whose state it is, and have a
\* deadline that a stubborn process misses.
AwaitExit(c) ==
  /\ \/ pc[c] \in {"waitExit", "waitKilled"} /\ state # "Stopping" /\ Goto(c, "returned")
     \/ pc[c] = "waitExit" /\ "stubborn" \in Faults /\ Goto(c, "escalate")
     \/ pc[c] = "waitKilled" /\ "stubborn" \in Faults /\ Goto(c, "returned")
  /\ UNCHANGED <<state, currentPid, generation, gen, target, proc, waiter, heard,
                 dropped, squatter, calm>>

\* Mutant: TERM once more, where KILL is due.
EscalatePolitely(c) ==
  /\ pc[c] = "escalate"
  /\ Term(target[c])
  /\ Goto(c, "waitKilled")
  /\ UNCHANGED <<state, currentPid, generation, gen, target, waiter, heard,
                 dropped, squatter, calm>>

Escalate(c) ==
  /\ pc[c] = "escalate"
  /\ Kill(target[c])
  /\ Goto(c, "waitKilled")
  /\ UNCHANGED <<state, currentPid, generation, gen, target, waiter, heard,
                 dropped, squatter, calm>>

Abandon(c) ==
  /\ "abandon" \in Faults
  /\ pc[c] \in AwaitLocs
  /\ Goto(c, "abandoned")
  /\ calm' = FALSE
  /\ UNCHANGED <<state, currentPid, generation, gen, target, proc, waiter, heard,
                 dropped, squatter>>

-------------------------------------------------------------------------------
(* The wait task of a process, the guard of the last handle, the process *)

Reap(c) ==
  /\ waiter[c] = "waiting"
  /\ proc[c] = "exited"
  /\ IF Current(c)
     THEN /\ state' = IF state = "Stopping" THEN "Stopped" ELSE "Crashed"
          /\ currentPid' = NoCall
          /\ waiter' = [waiter EXCEPT ![c] = IF state = "Stopping" THEN "tellStopped"
                                                                   ELSE "tellCrashed"]
     ELSE waiter' = [waiter EXCEPT ![c] = "gone"] /\ UNCHANGED <<state, currentPid>>
  /\ UNCHANGED <<generation, pc, gen, target, proc, heard, dropped, squatter, calm>>

ReapTells(c) ==
  /\ waiter[c] \in {"tellStopped", "tellCrashed"}
  /\ heard' = IF waiter[c] = "tellStopped" THEN "Stopped" ELSE "Crashed"
  /\ waiter' = [waiter EXCEPT ![c] = "gone"]
  /\ UNCHANGED <<state, currentPid, generation, pc, gen, target, proc, dropped,
                 squatter, calm>>

\* StopOnDrop::drop: TERM, two seconds, KILL, to the recorded pid alone.
Drop ==
  /\ ~dropped
  /\ InFlight = {}
  /\ dropped' = TRUE
  /\ IF state \in {"Running", "Starting", "Stopping"} /\ currentPid # NoCall
     THEN proc' = [proc EXCEPT ![currentPid] = "exited"]
     ELSE UNCHANGED proc
  /\ UNCHANGED <<state, currentPid, generation, pc, gen, target, waiter, heard,
                 squatter, calm>>

\* Only one process can bind the port; a second one fails and exits.
ProcReady(c) ==
  /\ proc[c] = "booting"
  /\ IF PortTaken
     THEN proc' = [proc EXCEPT ![c] = "exited"]
     ELSE proc' = [proc EXCEPT ![c] = "ready"]
  /\ UNCHANGED <<state, currentPid, generation, pc, gen, target, waiter, heard,
                 dropped, squatter, calm>>

ProcObeys(c) ==
  /\ \/ proc[c] = "killed"
     \/ proc[c] \in {"termed", "closing"} /\ "stubborn" \notin Faults
  /\ proc' = [proc EXCEPT ![c] = "exited"]
  /\ UNCHANGED <<state, currentPid, generation, pc, gen, target, waiter, heard,
                 dropped, squatter, calm>>

\* It ends by itself: a traceback, or a TERM a stubborn one obeys after all.
ProcExits(c) ==
  /\ \/ proc[c] \in {"booting", "ready"} /\ "exit" \in Faults
     \/ proc[c] \in {"termed", "closing"} /\ "stubborn" \in Faults
  /\ proc' = [proc EXCEPT ![c] = "exited"]
  /\ calm' = (calm /\ c \notin InFlight)
  /\ UNCHANGED <<state, currentPid, generation, pc, gen, target, waiter, heard, dropped,
                 squatter>>

Squat ==
  /\ "squatter" \in Faults
  /\ squatter \/ ~PortTaken
  /\ squatter' = ~squatter
  /\ calm' = (calm /\ InFlight = {})
  /\ UNCHANGED <<state, currentPid, generation, pc, gen, target, proc, waiter, heard,
                 dropped>>

Proceed(c) ==
  \/ TellStarting(c)
  \/ ProbePort(c)
  \/ Spawn(c)
  \/ RecordPid(c)
  \/ Poll(c)
  \/ ProbeHttp(c)
  \/ StartDeadline(c)
  \/ Serving(c)
  \/ TellRunning(c)
  \/ StartTimedOut(c)
  \/ SetStopped(c)
  \/ TellStopped(c)
  \/ TellStopping(c)
  \/ SignalTerm(c)
  \/ AwaitExit(c)
  \/ Escalate(c)

WaitTask(c) == Reap(c) \/ ReapTells(c)

Process(c) == ProcReady(c) \/ ProcObeys(c)

Client(c) ==
  \/ StartRefused(c)
  \/ StartAccepted(c)
  \/ StopNoop(c)
  \/ StopCrashed(c)
  \/ StopAccepted(c)
  \/ Abandon(c)

Next ==
  \/ \E c \in Calls : Client(c) \/ Proceed(c) \/ WaitTask(c) \/ Process(c) \/ ProcExits(c)
  \/ Drop
  \/ Squat

Spec == Init /\ [][Next]_vars

\* Tokio polls tasks and calls that can go on; a process boots and obeys; and
\* a poll that never finds the port answering meets its deadline.
FairSpec ==
  /\ Spec
  /\ \A c \in Calls : /\ WF_vars(Proceed(c)) /\ SF_vars(StartDeadline(c))
                      /\ WF_vars(WaitTask(c)) /\ WF_vars(Process(c))

-------------------------------------------------------------------------------
(* Properties *)

\* stop() leaves the generation alone so that "the wait-task that observes this
\* process's real exit" can end Stopping.  Stopping is never without that: a
\* stop() of this generation is still about to act on it, or the process it
\* signals has a wait task that will match the generation.
StoppingIsOwned ==
  state = "Stopping" =>
    \E c \in Calls :
      /\ Current(c)
      /\ \/ pc[c] \in {"tellStopping", "setStopped"}
         \/ /\ target[c] # NoCall
            /\ Current(target[c])
            /\ waiter[target[c]] = "waiting"

\* Nothing is left to happen by itself: no call in flight, no process on its way
\* up or down, no exit that its wait task has not reported.
AtRest ==
  /\ InFlight = {}
  /\ \A c \in Calls : /\ proc[c] \in {"none", "ready", "exited"}
                      /\ waiter[c] \in {"none", "gone"} \/ proc[c] = "ready"

\* As long as clients take turns and nothing disturbs a call in flight (odoo-bin
\* may crash later, ignore TERM, or never get ready), a supervisor at rest tells
\* the truth: Running is the one live process and stop() knows its pid, any
\* other state, or the end of the last handle, means no process; and the row
\* the listener writes may be out of date, but not say Running when it is not.
RestIsTruthful ==
  calm /\ AtRest =>
    /\ state \in {"Stopped", "Running", "Crashed"} \/ dropped
    /\ {c \in Calls : proc[c] \in Alive} =
         IF state = "Running" /\ ~dropped THEN {currentPid} ELSE {}
    /\ heard \in {"Running", "Starting"} => heard = state

\* A stop that was accepted ends, by TERM or by KILL, whatever other calls do:
\* Stopping is left, and every call returns.
StopEnds == (state = "Stopping") ~> (state # "Stopping")
CallsEnd == \A c \in Calls : (c \in InFlight) ~> (pc[c] \in EndLocs)

-------------------------------------------------------------------------------
(* What a comment of odoo.rs says, and the code does not do *)

\* Of an exit during Stopping: "We asked it to stop and it did -- expected, not
\* a crash"; Crashed is for a process that "exited on its own".  So a process
\* that was sent a signal is not reported as crashed.
CrashIsUnasked ==
  [][\A c \in Calls : Reap(c) /\ state' = "Crashed" =>
       \A d \in Calls : target[d] = c => pc[d] \in {"idle", "tellStopping", "signal"}]_vars
=============================================================================
