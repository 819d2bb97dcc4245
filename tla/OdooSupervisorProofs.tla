------------------------- MODULE OdooSupervisorProofs -------------------------
(***************************************************************************)
(* What holds of OdooSupervisor for any set of Calls, any Faults and any   *)
(* number of overlapping calls: its types, StoppingIsOwned, RestIsTruthful *)
(* and that its state moves as OdooLifecycle tells Fleet.                  *)
(*                                                                         *)
(* A generation is a token here too, but a weaker one than that of         *)
(* PgSupervisor: stop() shares that of the start() it ends.  What holds    *)
(* always is that at most one start() of a generation spawns (Generations- *)
(* AreSpawnedOnce), so that the pid Inner keeps has a wait task that will  *)
(* match the generation (PidIsWaitedFor), which is what ends Stopping      *)
(* (StoppingEnds).  While calls take turns, much more can be told from     *)
(* where the one call in flight is; the parts named Calm... say what.      *)
(***************************************************************************)
EXTENDS OdooSupervisor, OdooLifecycle, TLAPS

StartLocs == {"tellStarting", "portProbe", "spawn", "recordPid", "poll", "httpProbe",
              "serving", "startTimedOut", "tellRunning"}
StopLocs  == {"tellStopping", "signal", "waitExit", "escalate", "waitKilled"}

\* A call that spawns a process, or has spawned one.
Spawns(c) == pc[c] \in StartLocs \/ proc[c] # "none"

\* One start() per generation, and what a call has before it is made.
GenerationsAreSpawnedOnce ==
  /\ \A c \in Calls : gen[c] <= generation
  /\ \A c \in Calls : pc[c] = "idle" => gen[c] = 0 /\ target[c] = NoCall /\ proc[c] = "none"
  /\ \A c \in Calls : Spawns(c) => gen[c] # 0
  /\ \A c, d \in Calls : Spawns(c) /\ Spawns(d) /\ gen[c] = gen[d] => c = d

\* A wait task is of a process, and reports when that has exited.
WaitTasksHaveProcesses ==
  \A c \in Calls :
    /\ pc[c] \in {"tellStarting", "portProbe", "spawn"} => proc[c] = "none"
    /\ pc[c] = "recordPid" => proc[c] # "none" /\ waiter[c] = "none"
    /\ waiter[c] # "none" => proc[c] # "none"
    /\ waiter[c] \in {"tellStopped", "tellCrashed", "gone"} => proc[c] = "exited"

\* The pid that stop() would signal has a wait task of the current generation.
PidIsWaitedFor ==
  currentPid # NoCall => Current(currentPid) /\ waiter[currentPid] = "waiting"

\* StoppingIsOwned, told apart by whether the stop() found a pid.
StoppingEnds ==
  state = "Stopping" =>
    \E c \in Calls :
      /\ Current(c)
      /\ \/ pc[c] \in {"tellStopping", "setStopped"} /\ target[c] = NoCall
         \/ target[c] # NoCall /\ Current(target[c]) /\ waiter[target[c]] = "waiting"

Duties ==
  /\ GenerationsAreSpawnedOnce
  /\ WaitTasksHaveProcesses
  /\ PidIsWaitedFor
  /\ StoppingEnds

-------------------------------------------------------------------------------
Serves(c) == proc[c] \in {"booting", "ready", "closing", "termed"}

\* One call at a time, and none after the last handle.
CalmCalls ==
  /\ \A c, d \in InFlight : c = d
  /\ dropped => InFlight = {} /\ \A c \in Calls : ~Serves(c)

\* A process that was not killed is the one whose pid is recorded, or about to be.
CalmProcesses ==
  \A c \in Calls : Serves(c) => Current(c) /\ (pc[c] = "recordPid" \/ currentPid = c)

\* The start() in flight, by where it is.
CalmStarts ==
  \A c \in Calls :
    /\ pc[c] \in StartLocs \cup {"setStopped"} => Current(c)
    /\ pc[c] \in StartLocs \ {"tellRunning"} => state = "Starting"
    /\ pc[c] = "tellRunning" => state = "Running"
    /\ pc[c] = "setStopped" => state \in {"Starting", "Crashed"}
    /\ pc[c] \in {"tellStarting", "portProbe", "spawn", "setStopped"} => \A d \in Calls : ~Serves(d)
    /\ pc[c] \in {"recordPid", "poll", "httpProbe", "startTimedOut"} => proc[c] \in {"booting", "ready"}
    /\ pc[c] \in {"serving", "tellRunning"} => proc[c] = "ready"
    /\ pc[c] \in {"poll", "httpProbe", "serving", "startTimedOut", "tellRunning"} => currentPid = c
    /\ pc[c] \in {"spawn", "recordPid", "poll", "httpProbe", "serving", "startTimedOut"} => ~squatter

\* The stop() in flight: it found a pid, and Stopping is about that pid.
CalmStops ==
  \A c \in Calls : pc[c] \in StopLocs =>
    /\ target[c] # NoCall
    /\ state \in {"Stopping", "Stopped", "Crashed"}
    /\ state = "Stopping" => currentPid = target[c]

\* What each state says of the process and of the call that is at work.
CalmStates ==
  /\ state \in {"Stopped", "Crashed"} => currentPid = NoCall
  /\ state = "Starting" =>
       \E c \in Calls : pc[c] \in (StartLocs \ {"tellRunning"}) \cup {"setStopped"}
  /\ state = "Running" => currentPid # NoCall /\ proc[currentPid] \in {"ready", "exited"}
  /\ state = "Stopping" =>
       /\ currentPid # NoCall
       /\ \/ proc[currentPid] \notin {"booting", "ready"}
          \/ \E c \in Calls : pc[c] \in {"tellStopping", "signal"}

\* A listener that heard of a start that is over is about to hear more.
CalmListener ==
  LET reporting == \E c \in Calls : waiter[c] \in {"tellStopped", "tellCrashed"} IN
  /\ heard = "Starting" =>
       state = "Starting" \/ reporting \/ \E c \in Calls : pc[c] \in {"tellRunning", "tellStopping", "tellStopped"}
  /\ heard = "Running" =>
       state = "Running" \/ reporting \/ \E c \in Calls : pc[c] \in {"tellStarting", "tellStopping", "tellStopped"}

\* What holds while calls take turns and nothing disturbs one in flight.
Turns ==
  /\ CalmCalls
  /\ CalmProcesses
  /\ CalmStarts
  /\ CalmStops
  /\ CalmStates
  /\ CalmListener

\* The inductive invariant.
Supervision ==
  /\ TypeOK
  /\ Duties
  /\ calm => Turns

-------------------------------------------------------------------------------
USE DEF States, Alive, EndLocs, WorkLocs, AwaitLocs, StartLocs, StopLocs, Current

\* The initial state has the declared types.
LEMMA InitTypeOK == Init => TypeOK
<1> SUFFICES ASSUME Init PROVE TypeOK
  OBVIOUS
<1>1. dropped \in BOOLEAN /\ squatter \in BOOLEAN /\ calm \in BOOLEAN
  BY DEF Init
<1> QED
  BY <1>1 DEF Init, TypeOK

\* Every step keeps the declared types.
LEMMA NextTypeOK == TypeOK /\ [Next]_vars => TypeOK'
<1> SUFFICES ASSUME TypeOK, [Next]_vars PROVE TypeOK'
  OBVIOUS
<1> USE DEF TypeOK
<1>1. ASSUME NEW c \in Calls, StartRefused(c) PROVE TypeOK'
  BY <1>1 DEF StartRefused, Invoke, Goto
<1>2. ASSUME NEW c \in Calls, StartAccepted(c) PROVE TypeOK'
  BY <1>2 DEF StartAccepted, Invoke, Goto
<1>3. ASSUME NEW c \in Calls, StopNoop(c) PROVE TypeOK'
  BY <1>3 DEF StopNoop, Invoke, Goto
<1>4. ASSUME NEW c \in Calls, StopCrashed(c) PROVE TypeOK'
  BY <1>4 DEF StopCrashed, Invoke, Goto
<1>5. ASSUME NEW c \in Calls, StopAccepted(c) PROVE TypeOK'
  BY <1>5 DEF StopAccepted, Invoke, Goto
<1>6. ASSUME NEW c \in Calls, Abandon(c) PROVE TypeOK'
  BY <1>6 DEF Abandon, Goto
<1>7. ASSUME NEW c \in Calls, TellStarting(c) PROVE TypeOK'
  BY <1>7 DEF TellStarting, Tell, Goto
<1>8. ASSUME NEW c \in Calls, ProbePort(c) PROVE TypeOK'
  BY <1>8 DEF ProbePort, PortAnswers, PortSilent, Goto
<1>9. ASSUME NEW c \in Calls, Spawn(c) PROVE TypeOK'
  BY <1>9 DEF Spawn, Goto
<1>10. ASSUME NEW c \in Calls, RecordPid(c) PROVE TypeOK'
  BY <1>10 DEF RecordPid, Goto
<1>11. ASSUME NEW c \in Calls, Poll(c) PROVE TypeOK'
  BY <1>11 DEF Poll, Goto
<1>12. ASSUME NEW c \in Calls, ProbeHttp(c) PROVE TypeOK'
  BY <1>12 DEF ProbeHttp, PortAnswers, Goto
<1>13. ASSUME NEW c \in Calls, StartDeadline(c) PROVE TypeOK'
  BY <1>13 DEF StartDeadline, Goto
<1>14. ASSUME NEW c \in Calls, Serving(c) PROVE TypeOK'
  BY <1>14 DEF Serving, SetStateIfCurrent, Goto
<1>15. ASSUME NEW c \in Calls, TellRunning(c) PROVE TypeOK'
  BY <1>15 DEF TellRunning, Tell, Goto
<1>16. ASSUME NEW c \in Calls, StartTimedOut(c) PROVE TypeOK'
  BY <1>16 DEF StartTimedOut, Kill, Goto
<1>17. ASSUME NEW c \in Calls, SetStopped(c) PROVE TypeOK'
  BY <1>17 DEF SetStopped, SetStateIfCurrent, Goto
<1>18. ASSUME NEW c \in Calls, TellStopped(c) PROVE TypeOK'
  BY <1>18 DEF TellStopped, Tell, Goto
<1>19. ASSUME NEW c \in Calls, TellStopping(c) PROVE TypeOK'
  BY <1>19 DEF TellStopping, Tell, Goto
<1>20. ASSUME NEW c \in Calls, SignalTerm(c) PROVE TypeOK'
  BY <1>20 DEF SignalTerm, Term, Goto
<1>21. ASSUME NEW c \in Calls, AwaitExit(c) PROVE TypeOK'
  BY <1>21 DEF AwaitExit, Goto
<1>22. ASSUME NEW c \in Calls, Escalate(c) PROVE TypeOK'
  BY <1>22 DEF Escalate, Kill, Goto
<1>23. ASSUME NEW c \in Calls, Reap(c) PROVE TypeOK'
  BY <1>23 DEF Reap
<1>24. ASSUME NEW c \in Calls, ReapTells(c) PROVE TypeOK'
  BY <1>24 DEF ReapTells
<1>25. ASSUME NEW c \in Calls, ProcReady(c) PROVE TypeOK'
  BY <1>25 DEF ProcReady, PortTaken
<1>26. ASSUME NEW c \in Calls, ProcObeys(c) PROVE TypeOK'
  BY <1>26 DEF ProcObeys
<1>27. ASSUME NEW c \in Calls, ProcExits(c) PROVE TypeOK'
  BY <1>27 DEF ProcExits
<1>28. CASE Drop
  BY <1>28 DEF Drop
<1>29. CASE Squat
  BY <1>29 DEF Squat
<1>30. CASE UNCHANGED vars
  BY <1>30 DEF vars
<1> QED
  BY <1>1, <1>2, <1>3, <1>4, <1>5, <1>6, <1>7, <1>8, <1>9, <1>10, <1>11,
     <1>12, <1>13, <1>14, <1>15, <1>16, <1>17, <1>18, <1>19, <1>20, <1>21,
     <1>22, <1>23, <1>24, <1>25, <1>26, <1>27, <1>28, <1>29, <1>30
     DEF Next, Client, Proceed, WaitTask, Process

\* Every step keeps what ends a start() and a stop(), whatever other calls do.
LEMMA NextDuties == TypeOK /\ Duties /\ [Next]_vars => Duties'
<1> SUFFICES ASSUME TypeOK, Duties, [Next]_vars PROVE Duties'
  OBVIOUS
<1> USE DEF TypeOK, Duties, GenerationsAreSpawnedOnce, WaitTasksHaveProcesses,
            PidIsWaitedFor, StoppingEnds, Spawns
<1>1. ASSUME NEW c \in Calls, StartRefused(c) PROVE Duties'
  BY <1>1 DEF StartRefused, Invoke, Goto
<1>2. ASSUME NEW c \in Calls, StartAccepted(c) PROVE Duties'
  BY <1>2 DEF StartAccepted, Invoke, Goto
<1>3. ASSUME NEW c \in Calls, StopNoop(c) PROVE Duties'
  BY <1>3 DEF StopNoop, Invoke, Goto
<1>4. ASSUME NEW c \in Calls, StopCrashed(c) PROVE Duties'
  BY <1>4 DEF StopCrashed, Invoke, Goto
<1>5. ASSUME NEW c \in Calls, StopAccepted(c) PROVE Duties'
  BY <1>5 DEF StopAccepted, Invoke, Goto
<1>6. ASSUME NEW c \in Calls, Abandon(c) PROVE Duties'
  BY <1>6 DEF Abandon, Goto
<1>7. ASSUME NEW c \in Calls, TellStarting(c) PROVE Duties'
  BY <1>7 DEF TellStarting, Tell, Goto
<1>8. ASSUME NEW c \in Calls, ProbePort(c) PROVE Duties'
  BY <1>8 DEF ProbePort, PortAnswers, PortSilent, Goto
<1>9. ASSUME NEW c \in Calls, Spawn(c) PROVE Duties'
  BY <1>9 DEF Spawn, Goto
<1>10. ASSUME NEW c \in Calls, RecordPid(c) PROVE Duties'
  BY <1>10 DEF RecordPid, Goto
<1>11. ASSUME NEW c \in Calls, Poll(c) PROVE Duties'
  BY <1>11 DEF Poll, Goto
<1>12. ASSUME NEW c \in Calls, ProbeHttp(c) PROVE Duties'
  BY <1>12 DEF ProbeHttp, PortAnswers, Goto
<1>13. ASSUME NEW c \in Calls, StartDeadline(c) PROVE Duties'
  BY <1>13 DEF StartDeadline, Goto
<1>14. ASSUME NEW c \in Calls, Serving(c) PROVE Duties'
  BY <1>14 DEF Serving, SetStateIfCurrent, Goto
<1>15. ASSUME NEW c \in Calls, TellRunning(c) PROVE Duties'
  BY <1>15 DEF TellRunning, Tell, Goto
<1>16. ASSUME NEW c \in Calls, StartTimedOut(c) PROVE Duties'
  BY <1>16 DEF StartTimedOut, Kill, Goto
<1>17. ASSUME NEW c \in Calls, SetStopped(c) PROVE Duties'
  BY <1>17 DEF SetStopped, SetStateIfCurrent, Goto
<1>18. ASSUME NEW c \in Calls, TellStopped(c) PROVE Duties'
  BY <1>18 DEF TellStopped, Tell, Goto
<1>19. ASSUME NEW c \in Calls, TellStopping(c) PROVE Duties'
  BY <1>19 DEF TellStopping, Tell, Goto
<1>20. ASSUME NEW c \in Calls, SignalTerm(c) PROVE Duties'
  BY <1>20 DEF SignalTerm, Term, Goto
<1>21. ASSUME NEW c \in Calls, AwaitExit(c) PROVE Duties'
  BY <1>21 DEF AwaitExit, Goto
<1>22. ASSUME NEW c \in Calls, Escalate(c) PROVE Duties'
  BY <1>22 DEF Escalate, Kill, Goto
<1>23. ASSUME NEW c \in Calls, Reap(c) PROVE Duties'
  BY <1>23 DEF Reap
<1>24. ASSUME NEW c \in Calls, ReapTells(c) PROVE Duties'
  BY <1>24 DEF ReapTells
<1>25. ASSUME NEW c \in Calls, ProcReady(c) PROVE Duties'
  BY <1>25 DEF ProcReady, PortTaken
<1>26. ASSUME NEW c \in Calls, ProcObeys(c) PROVE Duties'
  BY <1>26 DEF ProcObeys
<1>27. ASSUME NEW c \in Calls, ProcExits(c) PROVE Duties'
  BY <1>27 DEF ProcExits
<1>28. CASE Drop
  BY <1>28 DEF Drop
<1>29. CASE Squat
  BY <1>29 DEF Squat
<1>30. CASE UNCHANGED vars
  BY <1>30 DEF vars
<1> QED
  BY <1>1, <1>2, <1>3, <1>4, <1>5, <1>6, <1>7, <1>8, <1>9, <1>10, <1>11,
     <1>12, <1>13, <1>14, <1>15, <1>16, <1>17, <1>18, <1>19, <1>20, <1>21,
     <1>22, <1>23, <1>24, <1>25, <1>26, <1>27, <1>28, <1>29, <1>30
     DEF Next, Client, Proceed, WaitTask, Process

\* A step that leaves the calls calm keeps what holds while they take turns.
LEMMA NextTurns == TypeOK /\ Duties /\ Turns /\ [Next]_vars /\ calm' => Turns'
<1> SUFFICES ASSUME TypeOK, Duties, Turns, [Next]_vars, calm' PROVE Turns'
  OBVIOUS
<1> USE ConstantsAssumption
        DEF TypeOK, Duties, GenerationsAreSpawnedOnce, WaitTasksHaveProcesses, PidIsWaitedFor,
            Spawns, Turns, CalmCalls, CalmProcesses, CalmStarts, CalmStops, CalmStates,
            CalmListener, Serves, InFlight
<1>1. ASSUME NEW c \in Calls, StartRefused(c) PROVE Turns'
  BY <1>1 DEF StartRefused, Invoke, Goto
<1>2. ASSUME NEW c \in Calls, StartAccepted(c) PROVE Turns'
  BY <1>2 DEF StartAccepted, Invoke, Goto
<1>3. ASSUME NEW c \in Calls, StopNoop(c) PROVE Turns'
  BY <1>3 DEF StopNoop, Invoke, Goto
<1>4. ASSUME NEW c \in Calls, StopCrashed(c) PROVE Turns'
  BY <1>4 DEF StopCrashed, Invoke, Goto
<1>5. ASSUME NEW c \in Calls, StopAccepted(c) PROVE Turns'
  BY <1>5 DEF StopAccepted, Invoke, Goto
<1>6. ASSUME NEW c \in Calls, Abandon(c) PROVE Turns'
  BY <1>6 DEF Abandon, Goto
<1>7. ASSUME NEW c \in Calls, TellStarting(c) PROVE Turns'
  BY <1>7 DEF TellStarting, Tell, Goto
<1>8. ASSUME NEW c \in Calls, ProbePort(c) PROVE Turns'
  BY <1>8 DEF ProbePort, PortAnswers, PortSilent, Goto
<1>9. ASSUME NEW c \in Calls, Spawn(c) PROVE Turns'
  BY <1>9 DEF Spawn, Goto
<1>10. ASSUME NEW c \in Calls, RecordPid(c) PROVE Turns'
  BY <1>10 DEF RecordPid, Goto
<1>11. ASSUME NEW c \in Calls, Poll(c) PROVE Turns'
  BY <1>11 DEF Poll, Goto
<1>12. ASSUME NEW c \in Calls, ProbeHttp(c) PROVE Turns'
  BY <1>12 DEF ProbeHttp, PortAnswers, Goto
<1>13. ASSUME NEW c \in Calls, StartDeadline(c) PROVE Turns'
  BY <1>13 DEF StartDeadline, Goto
<1>14. ASSUME NEW c \in Calls, Serving(c) PROVE Turns'
  BY <1>14 DEF Serving, SetStateIfCurrent, Goto
<1>15. ASSUME NEW c \in Calls, TellRunning(c) PROVE Turns'
  BY <1>15 DEF TellRunning, Tell, Goto
<1>16. ASSUME NEW c \in Calls, StartTimedOut(c) PROVE Turns'
  BY <1>16 DEF StartTimedOut, Kill, Goto
<1>17. ASSUME NEW c \in Calls, SetStopped(c) PROVE Turns'
  BY <1>17 DEF SetStopped, SetStateIfCurrent, Goto
<1>18. ASSUME NEW c \in Calls, TellStopped(c) PROVE Turns'
  BY <1>18 DEF TellStopped, Tell, Goto
<1>19. ASSUME NEW c \in Calls, TellStopping(c) PROVE Turns'
  BY <1>19 DEF TellStopping, Tell, Goto
<1>20. ASSUME NEW c \in Calls, SignalTerm(c) PROVE Turns'
  BY <1>20 DEF SignalTerm, Term, Goto
<1>21. ASSUME NEW c \in Calls, AwaitExit(c) PROVE Turns'
  BY <1>21 DEF AwaitExit, Goto
<1>22. ASSUME NEW c \in Calls, Escalate(c) PROVE Turns'
  BY <1>22 DEF Escalate, Kill, Goto
<1>23. ASSUME NEW c \in Calls, Reap(c) PROVE Turns'
  BY <1>23 DEF Reap
<1>24. ASSUME NEW c \in Calls, ReapTells(c) PROVE Turns'
  BY <1>24 DEF ReapTells
<1>25. ASSUME NEW c \in Calls, ProcReady(c) PROVE Turns'
  BY <1>25 DEF ProcReady, PortTaken
<1>26. ASSUME NEW c \in Calls, ProcObeys(c) PROVE Turns'
  BY <1>26 DEF ProcObeys
<1>27. ASSUME NEW c \in Calls, ProcExits(c) PROVE Turns'
  BY <1>27 DEF ProcExits
<1>28. CASE Drop
  BY <1>28 DEF Drop
<1>29. CASE Squat
  BY <1>29 DEF Squat
<1>30. CASE UNCHANGED vars
  BY <1>30 DEF vars
<1> QED
  BY <1>1, <1>2, <1>3, <1>4, <1>5, <1>6, <1>7, <1>8, <1>9, <1>10, <1>11,
     <1>12, <1>13, <1>14, <1>15, <1>16, <1>17, <1>18, <1>19, <1>20, <1>21,
     <1>22, <1>23, <1>24, <1>25, <1>26, <1>27, <1>28, <1>29, <1>30
     DEF Next, Client, Proceed, WaitTask, Process

\* Once lost, calm is lost for good.
LEMMA CalmIsLost == [Next]_vars /\ calm' => calm
<1> SUFFICES ASSUME [Next]_vars, calm' PROVE calm
  OBVIOUS
<1>1. ASSUME NEW c \in Calls, StartRefused(c) PROVE calm
  BY <1>1 DEF StartRefused, Invoke, Goto
<1>2. ASSUME NEW c \in Calls, StartAccepted(c) PROVE calm
  BY <1>2 DEF StartAccepted, Invoke, Goto
<1>3. ASSUME NEW c \in Calls, StopNoop(c) PROVE calm
  BY <1>3 DEF StopNoop, Invoke, Goto
<1>4. ASSUME NEW c \in Calls, StopCrashed(c) PROVE calm
  BY <1>4 DEF StopCrashed, Invoke, Goto
<1>5. ASSUME NEW c \in Calls, StopAccepted(c) PROVE calm
  BY <1>5 DEF StopAccepted, Invoke, Goto
<1>6. ASSUME NEW c \in Calls, Abandon(c) PROVE calm
  BY <1>6 DEF Abandon, Goto
<1>7. ASSUME NEW c \in Calls, TellStarting(c) PROVE calm
  BY <1>7 DEF TellStarting, Tell, Goto
<1>8. ASSUME NEW c \in Calls, ProbePort(c) PROVE calm
  BY <1>8 DEF ProbePort, PortAnswers, PortSilent, Goto
<1>9. ASSUME NEW c \in Calls, Spawn(c) PROVE calm
  BY <1>9 DEF Spawn, Goto
<1>10. ASSUME NEW c \in Calls, RecordPid(c) PROVE calm
  BY <1>10 DEF RecordPid, Goto
<1>11. ASSUME NEW c \in Calls, Poll(c) PROVE calm
  BY <1>11 DEF Poll, Goto
<1>12. ASSUME NEW c \in Calls, ProbeHttp(c) PROVE calm
  BY <1>12 DEF ProbeHttp, PortAnswers, Goto
<1>13. ASSUME NEW c \in Calls, StartDeadline(c) PROVE calm
  BY <1>13 DEF StartDeadline, Goto
<1>14. ASSUME NEW c \in Calls, Serving(c) PROVE calm
  BY <1>14 DEF Serving, SetStateIfCurrent, Goto
<1>15. ASSUME NEW c \in Calls, TellRunning(c) PROVE calm
  BY <1>15 DEF TellRunning, Tell, Goto
<1>16. ASSUME NEW c \in Calls, StartTimedOut(c) PROVE calm
  BY <1>16 DEF StartTimedOut, Kill, Goto
<1>17. ASSUME NEW c \in Calls, SetStopped(c) PROVE calm
  BY <1>17 DEF SetStopped, SetStateIfCurrent, Goto
<1>18. ASSUME NEW c \in Calls, TellStopped(c) PROVE calm
  BY <1>18 DEF TellStopped, Tell, Goto
<1>19. ASSUME NEW c \in Calls, TellStopping(c) PROVE calm
  BY <1>19 DEF TellStopping, Tell, Goto
<1>20. ASSUME NEW c \in Calls, SignalTerm(c) PROVE calm
  BY <1>20 DEF SignalTerm, Term, Goto
<1>21. ASSUME NEW c \in Calls, AwaitExit(c) PROVE calm
  BY <1>21 DEF AwaitExit, Goto
<1>22. ASSUME NEW c \in Calls, Escalate(c) PROVE calm
  BY <1>22 DEF Escalate, Kill, Goto
<1>23. ASSUME NEW c \in Calls, Reap(c) PROVE calm
  BY <1>23 DEF Reap
<1>24. ASSUME NEW c \in Calls, ReapTells(c) PROVE calm
  BY <1>24 DEF ReapTells
<1>25. ASSUME NEW c \in Calls, ProcReady(c) PROVE calm
  BY <1>25 DEF ProcReady, PortTaken
<1>26. ASSUME NEW c \in Calls, ProcObeys(c) PROVE calm
  BY <1>26 DEF ProcObeys
<1>27. ASSUME NEW c \in Calls, ProcExits(c) PROVE calm
  BY <1>27 DEF ProcExits
<1>28. CASE Drop
  BY <1>28 DEF Drop
<1>29. CASE Squat
  BY <1>29 DEF Squat
<1>30. CASE UNCHANGED vars
  BY <1>30 DEF vars
<1> QED
  BY <1>1, <1>2, <1>3, <1>4, <1>5, <1>6, <1>7, <1>8, <1>9, <1>10, <1>11,
     <1>12, <1>13, <1>14, <1>15, <1>16, <1>17, <1>18, <1>19, <1>20, <1>21,
     <1>22, <1>23, <1>24, <1>25, <1>26, <1>27, <1>28, <1>29, <1>30
     DEF Next, Client, Proceed, WaitTask, Process

\* In the initial state nothing was called or spawned.
LEMMA InitSupervision == Init => Supervision
<1> SUFFICES ASSUME Init PROVE Supervision
  OBVIOUS
<1>1. TypeOK
  BY InitTypeOK
<1>2. Duties
  BY ConstantsAssumption
     DEF Init, Duties, GenerationsAreSpawnedOnce, WaitTasksHaveProcesses, PidIsWaitedFor,
         StoppingEnds, Spawns
<1>3. Turns
  BY ConstantsAssumption
     DEF Init, Turns, CalmCalls, CalmProcesses, CalmStarts, CalmStops, CalmStates,
         CalmListener, Serves, InFlight
<1> QED
  BY <1>1, <1>2, <1>3 DEF Supervision

\* The types of the variables, for every number of calls: in particular the pid
\* Inner keeps is always that of a call, or none.
THEOREM TypeCorrect == Spec => []TypeOK
<1>1. Init => TypeOK
  BY InitTypeOK
<1>2. TypeOK /\ [Next]_vars => TypeOK'
  BY NextTypeOK
<1> QED
  BY <1>1, <1>2, PTL DEF Spec

\* The inductive invariant holds of every behaviour.
THEOREM SupervisionHolds == Spec => []Supervision
<1>1. Init => Supervision
  BY InitSupervision
<1>2. Supervision /\ [Next]_vars => Supervision'
  <2> SUFFICES ASSUME Supervision, [Next]_vars PROVE Supervision'
    OBVIOUS
  <2>1. TypeOK' /\ Duties'
    BY NextTypeOK, NextDuties DEF Supervision
  <2>2. ASSUME calm' PROVE Turns'
    BY <2>2, CalmIsLost, NextTurns DEF Supervision
  <2> QED
    BY <2>1, <2>2 DEF Supervision
<1> QED
  BY <1>1, <1>2, PTL DEF Spec

\* odoo.rs's stop() leaves the generation alone so that the wait task can end
\* Stopping: there always is a stop() that will, or a wait task that will match.
THEOREM Owned == Spec => []StoppingIsOwned
<1>1. Supervision => StoppingIsOwned
  BY DEF Supervision, Duties, StoppingEnds, StoppingIsOwned
<1> QED
  BY <1>1, SupervisionHolds, PTL

\* A supervisor at rest, whose calls took turns, tells the truth about its process
\* and told it to its listener, for every number of calls and every set of faults.
THEOREM Truthful == Spec => []RestIsTruthful
<1>1. Supervision => RestIsTruthful
  <2> SUFFICES ASSUME TypeOK, Duties, Turns, AtRest
               PROVE /\ state \in {"Stopped", "Running", "Crashed"} \/ dropped
                     /\ {c \in Calls : proc[c] \in Alive} =
                          IF state = "Running" /\ ~dropped THEN {currentPid} ELSE {}
                     /\ heard \in {"Running", "Starting"} => heard = state
    BY DEF Supervision, RestIsTruthful
  <2>1. \A c \in Calls : pc[c] \in {"idle"} \cup EndLocs
    BY DEF AtRest, TypeOK, InFlight
  <2> USE DEF TypeOK, Duties, WaitTasksHaveProcesses, PidIsWaitedFor, Turns, CalmCalls,
              CalmProcesses, CalmStates, CalmListener, Serves, AtRest
  <2>2. state \in {"Stopped", "Running", "Crashed"} \/ dropped
    BY <2>1, ConstantsAssumption
  <2>3. \A c \in Calls : proc[c] \in Alive => state = "Running" /\ ~dropped /\ c = currentPid
    BY <2>1, ConstantsAssumption
  <2>4. state = "Running" /\ ~dropped => currentPid \in Calls /\ proc[currentPid] \in Alive
    BY <2>1, ConstantsAssumption
  <2>5. heard \in {"Running", "Starting"} => heard = state
    BY <2>1, ConstantsAssumption
  <2> QED
    BY <2>2, <2>3, <2>4, <2>5
<1> QED
  BY <1>1, SupervisionHolds, PTL

\* What Fleet takes for granted of a supervisor: nobody sees the state move but
\* along OdooLifecycle.
THEOREM MovesAsTold == Spec => [][Follows(state, state')]_state
<1>1. TypeOK /\ [Next]_vars => Follows(state, state') \/ UNCHANGED state
  <2> SUFFICES ASSUME TypeOK, [Next]_vars PROVE Follows(state, state') \/ UNCHANGED state
    OBVIOUS
  <2> USE DEF TypeOK, Follows, MayStart, MayBecome
  <2>1. ASSUME NEW c \in Calls, StartRefused(c) PROVE Follows(state, state') \/ UNCHANGED state
    BY <2>1 DEF StartRefused, Invoke, Goto
  <2>2. ASSUME NEW c \in Calls, StartAccepted(c) PROVE Follows(state, state') \/ UNCHANGED state
    BY <2>2 DEF StartAccepted, Invoke, Goto
  <2>3. ASSUME NEW c \in Calls, StopNoop(c) PROVE Follows(state, state') \/ UNCHANGED state
    BY <2>3 DEF StopNoop, Invoke, Goto
  <2>4. ASSUME NEW c \in Calls, StopCrashed(c) PROVE Follows(state, state') \/ UNCHANGED state
    BY <2>4 DEF StopCrashed, Invoke, Goto
  <2>5. ASSUME NEW c \in Calls, StopAccepted(c) PROVE Follows(state, state') \/ UNCHANGED state
    BY <2>5 DEF StopAccepted, Invoke, Goto
  <2>6. ASSUME NEW c \in Calls, Abandon(c) PROVE Follows(state, state') \/ UNCHANGED state
    BY <2>6 DEF Abandon, Goto
  <2>7. ASSUME NEW c \in Calls, TellStarting(c) PROVE Follows(state, state') \/ UNCHANGED state
    BY <2>7 DEF TellStarting, Tell, Goto
  <2>8. ASSUME NEW c \in Calls, ProbePort(c) PROVE Follows(state, state') \/ UNCHANGED state
    BY <2>8 DEF ProbePort, PortAnswers, PortSilent, Goto
  <2>9. ASSUME NEW c \in Calls, Spawn(c) PROVE Follows(state, state') \/ UNCHANGED state
    BY <2>9 DEF Spawn, Goto
  <2>10. ASSUME NEW c \in Calls, RecordPid(c) PROVE Follows(state, state') \/ UNCHANGED state
    BY <2>10 DEF RecordPid, Goto
  <2>11. ASSUME NEW c \in Calls, Poll(c) PROVE Follows(state, state') \/ UNCHANGED state
    BY <2>11 DEF Poll, Goto
  <2>12. ASSUME NEW c \in Calls, ProbeHttp(c) PROVE Follows(state, state') \/ UNCHANGED state
    BY <2>12 DEF ProbeHttp, PortAnswers, Goto
  <2>13. ASSUME NEW c \in Calls, StartDeadline(c) PROVE Follows(state, state') \/ UNCHANGED state
    BY <2>13 DEF StartDeadline, Goto
  <2>14. ASSUME NEW c \in Calls, Serving(c) PROVE Follows(state, state') \/ UNCHANGED state
    BY <2>14 DEF Serving, SetStateIfCurrent, Goto
  <2>15. ASSUME NEW c \in Calls, TellRunning(c) PROVE Follows(state, state') \/ UNCHANGED state
    BY <2>15 DEF TellRunning, Tell, Goto
  <2>16. ASSUME NEW c \in Calls, StartTimedOut(c) PROVE Follows(state, state') \/ UNCHANGED state
    BY <2>16 DEF StartTimedOut, Kill, Goto
  <2>17. ASSUME NEW c \in Calls, SetStopped(c) PROVE Follows(state, state') \/ UNCHANGED state
    BY <2>17 DEF SetStopped, SetStateIfCurrent, Goto
  <2>18. ASSUME NEW c \in Calls, TellStopped(c) PROVE Follows(state, state') \/ UNCHANGED state
    BY <2>18 DEF TellStopped, Tell, Goto
  <2>19. ASSUME NEW c \in Calls, TellStopping(c) PROVE Follows(state, state') \/ UNCHANGED state
    BY <2>19 DEF TellStopping, Tell, Goto
  <2>20. ASSUME NEW c \in Calls, SignalTerm(c) PROVE Follows(state, state') \/ UNCHANGED state
    BY <2>20 DEF SignalTerm, Term, Goto
  <2>21. ASSUME NEW c \in Calls, AwaitExit(c) PROVE Follows(state, state') \/ UNCHANGED state
    BY <2>21 DEF AwaitExit, Goto
  <2>22. ASSUME NEW c \in Calls, Escalate(c) PROVE Follows(state, state') \/ UNCHANGED state
    BY <2>22 DEF Escalate, Kill, Goto
  <2>23. ASSUME NEW c \in Calls, Reap(c) PROVE Follows(state, state') \/ UNCHANGED state
    BY <2>23 DEF Reap
  <2>24. ASSUME NEW c \in Calls, ReapTells(c) PROVE Follows(state, state') \/ UNCHANGED state
    BY <2>24 DEF ReapTells
  <2>25. ASSUME NEW c \in Calls, ProcReady(c) PROVE Follows(state, state') \/ UNCHANGED state
    BY <2>25 DEF ProcReady, PortTaken
  <2>26. ASSUME NEW c \in Calls, ProcObeys(c) PROVE Follows(state, state') \/ UNCHANGED state
    BY <2>26 DEF ProcObeys
  <2>27. ASSUME NEW c \in Calls, ProcExits(c) PROVE Follows(state, state') \/ UNCHANGED state
    BY <2>27 DEF ProcExits
  <2>28. CASE Drop
    BY <2>28 DEF Drop
  <2>29. CASE Squat
    BY <2>29 DEF Squat
  <2>30. CASE UNCHANGED vars
    BY <2>30 DEF vars
  <2> QED
    BY <2>1, <2>2, <2>3, <2>4, <2>5, <2>6, <2>7, <2>8, <2>9, <2>10, <2>11,
       <2>12, <2>13, <2>14, <2>15, <2>16, <2>17, <2>18, <2>19, <2>20, <2>21,
       <2>22, <2>23, <2>24, <2>25, <2>26, <2>27, <2>28, <2>29, <2>30
       DEF Next, Client, Proceed, WaitTask, Process
<1> QED
  BY <1>1, TypeCorrect, PTL DEF Spec
===============================================================================
