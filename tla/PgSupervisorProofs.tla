-------------------------- MODULE PgSupervisorProofs --------------------------
(***************************************************************************)
(* What holds of PgSupervisor for any set of Calls and any Faults: its     *)
(* types, RunningIsWatched, StoppingIsOwned, RestIsTruthful, and that it   *)
(* implements Lifecycle.                                                   *)
(*                                                                         *)
(* None of these is inductive.  What makes them so is the ownership of the *)
(* current generation: it is issued to one call only (GenerationsAre-      *)
(* Unique), and that call, or its watcher, can tell from its own program   *)
(* counter what the state is (OwnerKnowsState).  Ownership is the          *)
(* conjunction, and every step is shown to keep it, action by action.      *)
(* RestIsTruthful needs more: while calls take turns, the place of the one *)
(* in flight also tells what its postmaster is up to (Turns).              *)
(***************************************************************************)
EXTENDS PgSupervisor, TLAPS

USE DEF States, Phases, StartLocs, StopLocs, TellLocs, EndLocs, Locs, AwaitLocs,
        LiveWatch, WatchLocs, Current

\* The initial states have the declared types.
LEMMA InitTypeOK == Init => TypeOK
<1> SUFFICES ASSUME Init PROVE TypeOK
  OBVIOUS
<1>1. postmaster \in [phase : Phases, by : Calls \cup {NoCall}]
  BY DEF Init
<1>2. dataDir \in {"empty", "initialising", "ready"}
  BY DEF Init
<1>3. calm \in BOOLEAN /\ dropped \in BOOLEAN
  BY DEF Init
<1> QED
  BY <1>1, <1>2, <1>3 DEF Init, TypeOK

\* Every step of the supervisor keeps the declared types.
LEMMA NextTypeOK == TypeOK /\ [Next]_vars => TypeOK'
<1> SUFFICES ASSUME TypeOK, [Next]_vars PROVE TypeOK'
  OBVIOUS
<1> USE DEF TypeOK
<1>1. ASSUME NEW c \in Calls, StartRefused(c) PROVE TypeOK'
  BY <1>1 DEF StartRefused, Invoke, Goto
<1>2. ASSUME NEW c \in Calls, StartAccepted(c) PROVE TypeOK'
  BY <1>2 DEF StartAccepted, Invoke, Goto, NewGeneration
<1>3. ASSUME NEW c \in Calls, StopNoop(c) PROVE TypeOK'
  BY <1>3 DEF StopNoop, Invoke, Goto
<1>4. ASSUME NEW c \in Calls, StopCrashed(c) PROVE TypeOK'
  BY <1>4 DEF StopCrashed, Invoke, Goto, NewGeneration
<1>5. ASSUME NEW c \in Calls, StopAccepted(c) PROVE TypeOK'
  BY <1>5 DEF StopAccepted, Invoke, Goto, NewGeneration
<1>6. ASSUME NEW c \in Calls, Abandon(c) PROVE TypeOK'
  BY <1>6, ZenonT(40) DEF Abandon
<1>7. ASSUME NEW c \in Calls, TellStarting(c) PROVE TypeOK'
  BY <1>7 DEF TellStarting, Tell, Goto
<1>8. ASSUME NEW c \in Calls, Probe(c) PROVE TypeOK'
  BY <1>8 DEF Probe, Resume, Goto
<1>9. ASSUME NEW c \in Calls, EnsureInitdb(c) PROVE TypeOK'
  BY <1>9 DEF EnsureInitdb, Goto
<1>10. ASSUME NEW c \in Calls, InitdbEnds(c) PROVE TypeOK'
  <2>1. calm' \in BOOLEAN
    BY <1>10 DEF InitdbEnds
  <2>2. pc' \in [Calls -> Locs]
    BY <1>10 DEF InitdbEnds, Resume, Goto
  <2> QED
    BY <1>10, <2>1, <2>2 DEF InitdbEnds
<1>11. ASSUME NEW c \in Calls, Launch(c) PROVE TypeOK'
  BY <1>11 DEF Launch, Resume, Goto
<1>12. ASSUME NEW c \in Calls, WaitReady(c) PROVE TypeOK'
  <2>1. calm' \in BOOLEAN
    BY <1>12 DEF WaitReady
  <2>2. pc' \in [Calls -> Locs]
    BY <1>12 DEF WaitReady, Resume, Goto
  <2> QED
    BY <1>12, <2>1, <2>2 DEF WaitReady
<1>13. ASSUME NEW c \in Calls, StartFailed(c) PROVE TypeOK'
  BY <1>13 DEF StartFailed, SetStateIfCurrent, Goto
<1>14. ASSUME NEW c \in Calls, TellFailed(c) PROVE TypeOK'
  BY <1>14 DEF TellFailed, Tell, Goto
<1>15. ASSUME NEW c \in Calls, Serving(c) PROVE TypeOK'
  BY <1>15 DEF Serving, Goto
<1>16. ASSUME NEW c \in Calls, TellRunning(c) PROVE TypeOK'
  BY <1>16 DEF TellRunning, Tell, Goto
<1>17. ASSUME NEW c \in Calls, TellStopping(c) PROVE TypeOK'
  BY <1>17 DEF TellStopping, Tell, Goto
<1>18. ASSUME NEW c \in Calls, PgCtlStop(c) PROVE TypeOK'
  BY <1>18 DEF PgCtlStop, Resume, Goto
<1>19. ASSUME NEW c \in Calls, WaitDown(c) PROVE TypeOK'
  BY <1>19 DEF WaitDown, Resume, Goto
<1>20. ASSUME NEW c \in Calls, StopReturned(c) PROVE TypeOK'
  BY <1>20 DEF StopReturned, SetStateIfCurrent, Goto
<1>21. ASSUME NEW c \in Calls, TellStopped(c) PROVE TypeOK'
  BY <1>21 DEF TellStopped, Tell, Goto
<1>22. ASSUME NEW c \in Calls, WatcherWakes(c) PROVE TypeOK'
  BY <1>22 DEF WatcherWakes, Watch
<1>23. ASSUME NEW c \in Calls, WatcherProbes(c) PROVE TypeOK'
  <2>1. calm' \in BOOLEAN
    BY <1>23 DEF WatcherProbes
  <2>2. watcher' \in [Calls -> WatchLocs]
    BY <1>23 DEF WatcherProbes, Watch
  <2> QED
    BY <1>23, <2>1, <2>2 DEF WatcherProbes
<1>24. ASSUME NEW c \in Calls, WatcherDecides(c) PROVE TypeOK'
  BY <1>24 DEF WatcherDecides, Watch
<1>25. ASSUME NEW c \in Calls, WatcherApplies(c) PROVE TypeOK'
  BY <1>25 DEF WatcherApplies, Watch
<1>26. ASSUME NEW c \in Calls, WatcherTells(c) PROVE TypeOK'
  BY <1>26 DEF WatcherTells, Watch
<1>27. ASSUME Drop PROVE TypeOK'
  BY <1>27 DEF Drop
<1>28. ASSUME PostmasterUp PROVE TypeOK'
  BY <1>28 DEF PostmasterUp, PhaseChange
<1>29. ASSUME PostmasterExits PROVE TypeOK'
  BY <1>29 DEF PostmasterExits, PhaseChange
<1>30. ASSUME PostmasterDies PROVE TypeOK'
  BY <1>30 DEF PostmasterDies, PhaseChange
<1>31. CASE UNCHANGED vars
  BY <1>31 DEF vars
<1> QED
  BY <1>1, <1>2, <1>3, <1>4, <1>5, <1>6, <1>7, <1>8, <1>9, <1>10, <1>11,
     <1>12, <1>13, <1>14, <1>15, <1>16, <1>17, <1>18, <1>19, <1>20,
     <1>21, <1>22, <1>23, <1>24, <1>25, <1>26, <1>27, <1>28, <1>29,
     <1>30, <1>31
     DEF Next, Client, Proceed, WatcherSteps

\* Type correctness of the supervisor: a state of the five of PgState, a
\* generation that is a number, program counters at places the code has.
THEOREM TypeCorrect == Spec => []TypeOK
<1> QED
  BY InitTypeOK, NextTypeOK, PTL DEF Spec

-------------------------------------------------------------------------------
\* Before any call is made nobody owns anything.
LEMMA InitOwnership == Init => Ownership
<1> SUFFICES ASSUME Init PROVE Ownership
  OBVIOUS
<1>1. GenerationsAreUnique
  BY DEF Init, GenerationsAreUnique
<1>2. OwnerKnowsState
  BY DEF Init, OwnerKnowsState
<1>3. RunningIsWatched /\ StoppingIsOwned
  BY DEF Init, RunningIsWatched, StoppingIsOwned
<1> QED
  BY InitTypeOK, <1>1, <1>2, <1>3 DEF Ownership

Owners == /\ GenerationsAreUnique
          /\ OwnerKnowsState
          /\ RunningIsWatched
          /\ StoppingIsOwned

\* Every step keeps ownership.  The four parts need each other: a start() or
\* stop() takes a fresh generation, so nobody else can be current; what the
\* owner then knows of the state is what its later steps, which compare the
\* generation, rely on; and the owner is the witness of the last two parts.
LEMMA NextOwners == TypeOK /\ Owners /\ [Next]_vars => Owners'
<1> SUFFICES ASSUME TypeOK, Owners, [Next]_vars PROVE Owners'
  OBVIOUS
<1> USE DEF TypeOK, Owners, GenerationsAreUnique, OwnerKnowsState,
            RunningIsWatched, StoppingIsOwned
<1>1. ASSUME NEW c \in Calls, StartRefused(c) PROVE Owners'
  BY <1>1 DEF StartRefused, Invoke, Goto
<1>2. ASSUME NEW c \in Calls, StartAccepted(c) PROVE Owners'
  BY <1>2 DEF StartAccepted, Invoke, Goto, NewGeneration
<1>3. ASSUME NEW c \in Calls, StopNoop(c) PROVE Owners'
  BY <1>3 DEF StopNoop, Invoke, Goto
<1>4. ASSUME NEW c \in Calls, StopCrashed(c) PROVE Owners'
  BY <1>4 DEF StopCrashed, Invoke, Goto, NewGeneration
<1>5. ASSUME NEW c \in Calls, StopAccepted(c) PROVE Owners'
  BY <1>5 DEF StopAccepted, Invoke, Goto, NewGeneration
<1>6. ASSUME NEW c \in Calls, Abandon(c) PROVE Owners'
  BY <1>6 DEF Abandon
<1>7. ASSUME NEW c \in Calls, TellStarting(c) PROVE Owners'
  BY <1>7 DEF TellStarting, Tell, Goto
<1>8. ASSUME NEW c \in Calls, Probe(c) PROVE Owners'
  BY <1>8 DEF Probe, Resume, Goto
<1>9. ASSUME NEW c \in Calls, EnsureInitdb(c) PROVE Owners'
  BY <1>9 DEF EnsureInitdb, Goto
<1>10. ASSUME NEW c \in Calls, InitdbEnds(c) PROVE Owners'
  BY <1>10 DEF InitdbEnds, Resume, Goto
<1>11. ASSUME NEW c \in Calls, Launch(c) PROVE Owners'
  BY <1>11 DEF Launch, Resume, Goto
<1>12. ASSUME NEW c \in Calls, WaitReady(c) PROVE Owners'
  BY <1>12 DEF WaitReady, Resume, Goto
<1>13. ASSUME NEW c \in Calls, StartFailed(c) PROVE Owners'
  BY <1>13 DEF StartFailed, SetStateIfCurrent, Goto
<1>14. ASSUME NEW c \in Calls, TellFailed(c) PROVE Owners'
  BY <1>14 DEF TellFailed, Tell, Goto
<1>15. ASSUME NEW c \in Calls, Serving(c) PROVE Owners'
  BY <1>15 DEF Serving, Goto
<1>16. ASSUME NEW c \in Calls, TellRunning(c) PROVE Owners'
  BY <1>16 DEF TellRunning, Tell, Goto
<1>17. ASSUME NEW c \in Calls, TellStopping(c) PROVE Owners'
  BY <1>17 DEF TellStopping, Tell, Goto
<1>18. ASSUME NEW c \in Calls, PgCtlStop(c) PROVE Owners'
  BY <1>18 DEF PgCtlStop, Resume, Goto
<1>19. ASSUME NEW c \in Calls, WaitDown(c) PROVE Owners'
  BY <1>19 DEF WaitDown, Resume, Goto
<1>20. ASSUME NEW c \in Calls, StopReturned(c) PROVE Owners'
  BY <1>20 DEF StopReturned, SetStateIfCurrent, Goto
<1>21. ASSUME NEW c \in Calls, TellStopped(c) PROVE Owners'
  BY <1>21 DEF TellStopped, Tell, Goto
<1>22. ASSUME NEW c \in Calls, WatcherWakes(c) PROVE Owners'
  BY <1>22 DEF WatcherWakes, Watch
<1>23. ASSUME NEW c \in Calls, WatcherProbes(c) PROVE Owners'
  BY <1>23 DEF WatcherProbes, Watch
<1>24. ASSUME NEW c \in Calls, WatcherDecides(c) PROVE Owners'
  BY <1>24 DEF WatcherDecides, Watch
<1>25. ASSUME NEW c \in Calls, WatcherApplies(c) PROVE Owners'
  BY <1>25 DEF WatcherApplies, Watch
<1>26. ASSUME NEW c \in Calls, WatcherTells(c) PROVE Owners'
  BY <1>26 DEF WatcherTells, Watch
<1>27. ASSUME Drop PROVE Owners'
  BY <1>27 DEF Drop
<1>28. ASSUME PostmasterUp PROVE Owners'
  BY <1>28 DEF PostmasterUp, PhaseChange
<1>29. ASSUME PostmasterExits PROVE Owners'
  BY <1>29 DEF PostmasterExits, PhaseChange
<1>30. ASSUME PostmasterDies PROVE Owners'
  BY <1>30 DEF PostmasterDies, PhaseChange
<1>31. CASE UNCHANGED vars
  BY <1>31 DEF vars
<1> QED
  BY <1>1, <1>2, <1>3, <1>4, <1>5, <1>6, <1>7, <1>8, <1>9, <1>10, <1>11,
     <1>12, <1>13, <1>14, <1>15, <1>16, <1>17, <1>18, <1>19, <1>20,
     <1>21, <1>22, <1>23, <1>24, <1>25, <1>26, <1>27, <1>28, <1>29,
     <1>30, <1>31
     DEF Next, Client, Proceed, WatcherSteps

\* Ownership is an invariant: the generation counter of Inner does what its
\* comment claims, a superseded call or watcher never acts for a newer one.
THEOREM OwnershipHolds == Spec => []Ownership
<1>1. Ownership /\ [Next]_vars => Ownership'
  BY NextTypeOK, NextOwners DEF Ownership, Owners
<1> QED
  BY InitOwnership, <1>1, PTL DEF Spec

\* Running is never left without a live watcher of the current generation, or
\* the start() that is about to spawn one, while a handle exists.
THEOREM Watched == Spec => []RunningIsWatched
<1>1. Ownership => RunningIsWatched
  BY DEF Ownership
<1> QED
  BY OwnershipHolds, <1>1, PTL

\* Stopping is never left without the stop() that ends it, unless the client
\* of that call went away.
THEOREM Owned == Spec => []StoppingIsOwned
<1>1. Ownership => StoppingIsOwned
  BY DEF Ownership
<1> QED
  BY OwnershipHolds, <1>1, PTL

-------------------------------------------------------------------------------
\* Every step of the supervisor moves the state as Lifecycle allows, or leaves
\* it alone.  The steps that compare the generation use OwnerKnowsState.
LEMMA NextLifecycle == Ownership /\ [Next]_vars => [Promise!Next]_state
<1> SUFFICES ASSUME Ownership, [Next]_vars PROVE [Promise!Next]_state
  OBVIOUS
<1> USE DEF Ownership, TypeOK, Promise!Next, Promise!BeginStart, Promise!ComeUp,
            Promise!GiveUp, Promise!AskStop, Promise!FindDead, Promise!EndStop,
            Promise!Clear
<1>1. ASSUME NEW c \in Calls, Client(c) PROVE [Promise!Next]_state
  BY <1>1 DEF Client, StartRefused, StartAccepted, StopNoop, StopCrashed,
              StopAccepted, Abandon, NewGeneration
<1>2. ASSUME NEW c \in Calls, StartFailed(c) PROVE [Promise!Next]_state
  <2>1. CASE Current(c)
    <3>1. state = "Starting"
      BY <1>2, <2>1 DEF StartFailed, GenerationsAreUnique, OwnerKnowsState
    <3> QED
      BY <1>2, <2>1, <3>1 DEF StartFailed, SetStateIfCurrent
  <2>2. CASE ~Current(c)
    BY <1>2, <2>2 DEF StartFailed, SetStateIfCurrent
  <2> QED
    BY <2>1, <2>2
<1>3. ASSUME NEW c \in Calls, Serving(c) PROVE [Promise!Next]_state
  <2>1. CASE Current(c)
    <3>1. state = "Starting"
      BY <1>3, <2>1 DEF Serving, GenerationsAreUnique, OwnerKnowsState
    <3> QED
      BY <1>3, <2>1, <3>1 DEF Serving
  <2>2. CASE ~Current(c)
    BY <1>3, <2>2 DEF Serving
  <2> QED
    BY <2>1, <2>2
<1>4. ASSUME NEW c \in Calls, StopReturned(c) PROVE [Promise!Next]_state
  <2>1. CASE Current(c)
    <3>1. state \in {"Starting", "Stopping"}
      BY <1>4, <2>1 DEF StopReturned, GenerationsAreUnique, OwnerKnowsState
    <3> QED
      BY <1>4, <2>1, <3>1 DEF StopReturned, SetStateIfCurrent
  <2>2. CASE ~Current(c)
    BY <1>4, <2>2 DEF StopReturned, SetStateIfCurrent
  <2> QED
    BY <2>1, <2>2
<1>5. ASSUME NEW c \in Calls, WatcherApplies(c) PROVE [Promise!Next]_state
  <2>1. CASE Current(c)
    <3>1. state = "Running"
      BY <1>5, <2>1 DEF WatcherApplies, Watch, GenerationsAreUnique, OwnerKnowsState
    <3> QED
      BY <1>5, <2>1, <3>1 DEF WatcherApplies
  <2>2. CASE ~Current(c)
    BY <1>5, <2>2 DEF WatcherApplies
  <2> QED
    BY <2>1, <2>2
<1>6. ASSUME NEW c \in Calls, Proceed(c),
             ~StartFailed(c), ~Serving(c), ~StopReturned(c)
      PROVE  UNCHANGED state
  BY <1>6 DEF Proceed, TellStarting, Probe, EnsureInitdb, InitdbEnds, Launch,
              WaitReady, TellFailed, TellRunning, TellStopping, PgCtlStop,
              WaitDown, TellStopped
<1>7. ASSUME NEW c \in Calls, WatcherSteps(c), ~WatcherApplies(c)
      PROVE  UNCHANGED state
  BY <1>7 DEF WatcherSteps, WatcherWakes, WatcherProbes, WatcherDecides, WatcherTells
<1>8. CASE Drop \/ PostmasterUp \/ PostmasterExits \/ PostmasterDies \/ UNCHANGED vars
  BY <1>8 DEF Drop, PostmasterUp, PostmasterExits, PostmasterDies, PhaseChange, vars
<1> QED
  BY <1>1, <1>2, <1>3, <1>4, <1>5, <1>6, <1>7, <1>8 DEF Next

\* The supervisor implements Lifecycle: whatever start() and stop() calls,
\* watchers and failures overlap, the state moves as in one lone life cycle.
THEOREM Implements == Spec => ImplementsLifecycle
<1>1. Init => Promise!Init
  BY DEF Init, Promise!Init
<1> QED
  BY OwnershipHolds, NextLifecycle, <1>1, PTL DEF Spec, ImplementsLifecycle, Promise!Spec

-------------------------------------------------------------------------------
(* While clients take turns and no command fails, the place of the one call in *)
(* flight tells what the postmaster and the data directory are up to.          *)

\* One call at a time, whose generation is current, and none after the last handle.
CalmCalls ==
  /\ abandoned = {}
  /\ \A c, d \in InFlight : c = d
  /\ \A c \in InFlight : Current(c)
  /\ dropped => InFlight = {}

\* What the call in flight found, or brought about.
CalmPlaces ==
  \A c \in Calls :
    /\ pc[c] \in {"tellStarting", "probe", "serving", "tellStopping", "pgCtlStop"} =>
         postmaster.phase \in {"up", "down"}
    /\ pc[c] \in {"initdb", "initdbRun", "launch", "startFailed", "stopReturned"} =>
         postmaster.phase = "down"
    /\ pc[c] = "waitReady" => postmaster.phase # "stopping" /\ postmaster.by = c
    /\ pc[c] = "waitDown" => postmaster.phase \in {"stopping", "down"}
    /\ pc[c] = "launch" => dataDir = "ready"
    /\ pc[c] \in StopLocs => state = "Stopping"

\* A postmaster, or an initdb, on its way has a call that waits for it.
CalmProcesses ==
  /\ postmaster.phase = "booting" => \E c \in Calls : pc[c] = "waitReady"
  /\ postmaster.phase = "stopping" => \E c \in Calls : pc[c] = "waitDown"
  /\ dataDir = "initialising" => \E c \in Calls : pc[c] = "initdbRun"

\* What each state says of the postmaster and of the call at work.
CalmStates ==
  /\ state = "Starting" => \E c \in Calls : pc[c] \in StartLocs
  /\ state = "Running" => postmaster.phase = "down" \/ pid = postmaster.by
  /\ state = "Crashed" => postmaster.phase = "down"
  /\ (state = "Stopped" \/ dropped) /\ generation > 0 => postmaster.phase = "down"
  /\ \A c \in Calls :
       Current(c) /\ watcher[c] \in {"confirm", "decide", "apply"} => postmaster.phase = "down"

\* A listener that is behind is about to hear more.
CalmListener ==
  \/ heard \in {state, "Crashed"}
  \/ \E c \in Calls : watcher[c] = "tellCrashed"
  \/ \E c \in Calls : pc[c] \in TellLocs \cup {"tellStarting", "tellStopping"}

Turns ==
  /\ CalmCalls
  /\ CalmPlaces
  /\ CalmProcesses
  /\ CalmStates
  /\ CalmListener

\* A step that leaves the calls calm keeps what holds while they take turns.
LEMMA NextTurns == TypeOK /\ Owners /\ Turns /\ [Next]_vars /\ calm' => Turns'
<1> SUFFICES ASSUME TypeOK, Owners, Turns, [Next]_vars, calm' PROVE Turns'
  OBVIOUS
<1> USE ConstantsAssumption
        DEF TypeOK, Owners, GenerationsAreUnique, OwnerKnowsState, StoppingIsOwned, Turns,
            CalmCalls, CalmPlaces, CalmProcesses, CalmStates, CalmListener, InFlight
<1>1. ASSUME NEW c \in Calls, StartRefused(c) PROVE Turns'
  BY <1>1 DEF StartRefused, Invoke, Goto
<1>2. ASSUME NEW c \in Calls, StartAccepted(c) PROVE Turns'
  BY <1>2 DEF StartAccepted, Invoke, Goto, NewGeneration
<1>3. ASSUME NEW c \in Calls, StopNoop(c) PROVE Turns'
  BY <1>3 DEF StopNoop, Invoke, Goto
<1>4. ASSUME NEW c \in Calls, StopCrashed(c) PROVE Turns'
  BY <1>4 DEF StopCrashed, Invoke, Goto, NewGeneration
<1>5. ASSUME NEW c \in Calls, StopAccepted(c) PROVE Turns'
  BY <1>5 DEF StopAccepted, Invoke, Goto, NewGeneration
<1>6. ASSUME NEW c \in Calls, Abandon(c) PROVE Turns'
  BY <1>6 DEF Abandon
<1>7. ASSUME NEW c \in Calls, TellStarting(c) PROVE Turns'
  BY <1>7 DEF TellStarting, Tell, Goto
<1>8. ASSUME NEW c \in Calls, Probe(c) PROVE Turns'
  BY <1>8 DEF Probe, Resume, Goto
<1>9. ASSUME NEW c \in Calls, EnsureInitdb(c) PROVE Turns'
  BY <1>9 DEF EnsureInitdb, Goto
<1>10. ASSUME NEW c \in Calls, InitdbEnds(c) PROVE Turns'
  BY <1>10 DEF InitdbEnds, Resume, Goto
<1>11. ASSUME NEW c \in Calls, Launch(c) PROVE Turns'
  BY <1>11 DEF Launch, Resume, Goto
<1>12. ASSUME NEW c \in Calls, WaitReady(c) PROVE Turns'
  <2>1. CASE postmaster.phase = "up" /\ Goto(c, "serving") /\ UNCHANGED postmaster
    BY <1>12, <2>1 DEF WaitReady, Goto
  <2>2. CASE postmaster.phase = "down" /\ Goto(c, "startFailed") /\ UNCHANGED postmaster
    BY <1>12, <2>2 DEF WaitReady, Goto
  <2>3. abandoned = {} /\ postmaster.by = c /\ UNCHANGED postmaster
    BY <1>12 DEF WaitReady
  <2>4. postmaster = [phase |-> "up", by |-> c] => postmaster.phase = "up"
    OBVIOUS
  <2> QED
    BY <1>12, <2>1, <2>2, <2>3, <2>4 DEF WaitReady, Resume
<1>13. ASSUME NEW c \in Calls, StartFailed(c) PROVE Turns'
  BY <1>13 DEF StartFailed, SetStateIfCurrent, Goto
<1>14. ASSUME NEW c \in Calls, TellFailed(c) PROVE Turns'
  BY <1>14 DEF TellFailed, Tell, Goto
<1>15. ASSUME NEW c \in Calls, Serving(c) PROVE Turns'
  BY <1>15 DEF Serving, Goto
<1>16. ASSUME NEW c \in Calls, TellRunning(c) PROVE Turns'
  BY <1>16 DEF TellRunning, Tell, Goto
<1>17. ASSUME NEW c \in Calls, TellStopping(c) PROVE Turns'
  BY <1>17 DEF TellStopping, Tell, Goto
<1>18. ASSUME NEW c \in Calls, PgCtlStop(c) PROVE Turns'
  BY <1>18 DEF PgCtlStop, Resume, Goto
<1>19. ASSUME NEW c \in Calls, WaitDown(c) PROVE Turns'
  BY <1>19 DEF WaitDown, Resume, Goto
<1>20. ASSUME NEW c \in Calls, StopReturned(c) PROVE Turns'
  BY <1>20 DEF StopReturned, SetStateIfCurrent, Goto
<1>21. ASSUME NEW c \in Calls, TellStopped(c) PROVE Turns'
  BY <1>21 DEF TellStopped, Tell, Goto
<1>22. ASSUME NEW c \in Calls, WatcherWakes(c) PROVE Turns'
  BY <1>22 DEF WatcherWakes, Watch
<1>23. ASSUME NEW c \in Calls, WatcherProbes(c) PROVE Turns'
  <2>1. postmaster.phase # "up" /\ Current(c) => postmaster.phase = "down"
    <3> SUFFICES ASSUME postmaster.phase # "up", postmaster.phase # "down", Current(c)
                 PROVE FALSE
      OBVIOUS
    <3>1. gen[c] # 0 /\ pc[c] = "returned"
      BY <1>23 DEF WatcherProbes, Watch
    <3>2. PICK d \in Calls : pc[d] \in {"waitReady", "waitDown"}
      OBVIOUS
    <3> QED
      BY <3>1, <3>2
  <2>2. UNCHANGED <<state, generation, pid, pc, gen, abandoned, heard, dropped, postmaster, dataDir>>
    BY <1>23 DEF WatcherProbes
  <2>3. watcher[c] \in {"probe", "confirm"} /\ \E l \in {"sleep", "confirm", "decide"} :
          watcher' = [watcher EXCEPT ![c] = l] /\ (l # "sleep" => postmaster.phase # "up")
    BY <1>23 DEF WatcherProbes, Watch
  <2>4. \A d \in Calls : watcher'[d] = "tellCrashed" <=> watcher[d] = "tellCrashed"
    BY <2>3
  <2>5. \A d \in Calls : watcher'[d] \in {"confirm", "decide", "apply"} =>
          watcher[d] \in {"confirm", "decide", "apply"} \/ (d = c /\ postmaster.phase # "up")
    BY <2>3
  <2> QED
    BY <2>1, <2>2, <2>4, <2>5
<1>24. ASSUME NEW c \in Calls, WatcherDecides(c) PROVE Turns'
  BY <1>24 DEF WatcherDecides, Watch
<1>25. ASSUME NEW c \in Calls, WatcherApplies(c) PROVE Turns'
  BY <1>25 DEF WatcherApplies, Watch
<1>26. ASSUME NEW c \in Calls, WatcherTells(c) PROVE Turns'
  BY <1>26 DEF WatcherTells, Watch
<1>27. CASE Drop
  BY <1>27 DEF Drop
<1>28. CASE PostmasterUp
  BY <1>28 DEF PostmasterUp, PhaseChange
<1>29. CASE PostmasterExits
  BY <1>29 DEF PostmasterExits, PhaseChange
<1>30. CASE PostmasterDies
  BY <1>30 DEF PostmasterDies, PhaseChange
<1>31. CASE UNCHANGED vars
  BY <1>31 DEF vars
<1> QED
  BY <1>1, <1>2, <1>3, <1>4, <1>5, <1>6, <1>7, <1>8, <1>9, <1>10, <1>11,
     <1>12, <1>13, <1>14, <1>15, <1>16, <1>17, <1>18, <1>19, <1>20, <1>21,
     <1>22, <1>23, <1>24, <1>25, <1>26, <1>27, <1>28, <1>29, <1>30, <1>31
     DEF Next, Client, Proceed, WatcherSteps

\* Once lost, calm is lost for good.
LEMMA CalmIsLost == [Next]_vars /\ calm' => calm
<1> SUFFICES ASSUME [Next]_vars, calm' PROVE calm
  OBVIOUS
<1>1. ASSUME NEW c \in Calls, StartRefused(c) PROVE calm
  BY <1>1 DEF StartRefused, Invoke, Goto
<1>2. ASSUME NEW c \in Calls, StartAccepted(c) PROVE calm
  BY <1>2 DEF StartAccepted, Invoke, Goto, NewGeneration
<1>3. ASSUME NEW c \in Calls, StopNoop(c) PROVE calm
  BY <1>3 DEF StopNoop, Invoke, Goto
<1>4. ASSUME NEW c \in Calls, StopCrashed(c) PROVE calm
  BY <1>4 DEF StopCrashed, Invoke, Goto, NewGeneration
<1>5. ASSUME NEW c \in Calls, StopAccepted(c) PROVE calm
  BY <1>5 DEF StopAccepted, Invoke, Goto, NewGeneration
<1>6. ASSUME NEW c \in Calls, Abandon(c) PROVE calm
  BY <1>6 DEF Abandon
<1>7. ASSUME NEW c \in Calls, TellStarting(c) PROVE calm
  BY <1>7 DEF TellStarting, Tell, Goto
<1>8. ASSUME NEW c \in Calls, Probe(c) PROVE calm
  BY <1>8 DEF Probe, Resume, Goto
<1>9. ASSUME NEW c \in Calls, EnsureInitdb(c) PROVE calm
  BY <1>9 DEF EnsureInitdb, Goto
<1>10. ASSUME NEW c \in Calls, InitdbEnds(c) PROVE calm
  BY <1>10 DEF InitdbEnds, Resume, Goto
<1>11. ASSUME NEW c \in Calls, Launch(c) PROVE calm
  BY <1>11 DEF Launch, Resume, Goto
<1>12. ASSUME NEW c \in Calls, WaitReady(c) PROVE calm
  BY <1>12 DEF WaitReady, Resume, Goto
<1>13. ASSUME NEW c \in Calls, StartFailed(c) PROVE calm
  BY <1>13 DEF StartFailed, SetStateIfCurrent, Goto
<1>14. ASSUME NEW c \in Calls, TellFailed(c) PROVE calm
  BY <1>14 DEF TellFailed, Tell, Goto
<1>15. ASSUME NEW c \in Calls, Serving(c) PROVE calm
  BY <1>15 DEF Serving, Goto
<1>16. ASSUME NEW c \in Calls, TellRunning(c) PROVE calm
  BY <1>16 DEF TellRunning, Tell, Goto
<1>17. ASSUME NEW c \in Calls, TellStopping(c) PROVE calm
  BY <1>17 DEF TellStopping, Tell, Goto
<1>18. ASSUME NEW c \in Calls, PgCtlStop(c) PROVE calm
  BY <1>18 DEF PgCtlStop, Resume, Goto
<1>19. ASSUME NEW c \in Calls, WaitDown(c) PROVE calm
  BY <1>19 DEF WaitDown, Resume, Goto
<1>20. ASSUME NEW c \in Calls, StopReturned(c) PROVE calm
  BY <1>20 DEF StopReturned, SetStateIfCurrent, Goto
<1>21. ASSUME NEW c \in Calls, TellStopped(c) PROVE calm
  BY <1>21 DEF TellStopped, Tell, Goto
<1>22. ASSUME NEW c \in Calls, WatcherWakes(c) PROVE calm
  BY <1>22 DEF WatcherWakes, Watch
<1>23. ASSUME NEW c \in Calls, WatcherProbes(c) PROVE calm
  BY <1>23 DEF WatcherProbes, Watch
<1>24. ASSUME NEW c \in Calls, WatcherDecides(c) PROVE calm
  BY <1>24 DEF WatcherDecides, Watch
<1>25. ASSUME NEW c \in Calls, WatcherApplies(c) PROVE calm
  BY <1>25 DEF WatcherApplies, Watch
<1>26. ASSUME NEW c \in Calls, WatcherTells(c) PROVE calm
  BY <1>26 DEF WatcherTells, Watch
<1>27. CASE Drop
  BY <1>27 DEF Drop
<1>28. CASE PostmasterUp
  BY <1>28 DEF PostmasterUp, PhaseChange
<1>29. CASE PostmasterExits
  BY <1>29 DEF PostmasterExits, PhaseChange
<1>30. CASE PostmasterDies
  BY <1>30 DEF PostmasterDies, PhaseChange
<1>31. CASE UNCHANGED vars
  BY <1>31 DEF vars
<1> QED
  BY <1>1, <1>2, <1>3, <1>4, <1>5, <1>6, <1>7, <1>8, <1>9, <1>10, <1>11,
     <1>12, <1>13, <1>14, <1>15, <1>16, <1>17, <1>18, <1>19, <1>20, <1>21,
     <1>22, <1>23, <1>24, <1>25, <1>26, <1>27, <1>28, <1>29, <1>30, <1>31
     DEF Next, Client, Proceed, WatcherSteps

\* Before any call is made a leftover postmaster may serve, and nothing is on its way.
LEMMA InitTurns == Init => Turns
<1> SUFFICES ASSUME Init PROVE Turns
  OBVIOUS
<1>1. postmaster.phase \in {"down", "up"} /\ dataDir # "initialising"
  BY DEF Init
<1> QED
  BY <1>1 DEF Init, Turns, CalmCalls, CalmPlaces, CalmProcesses, CalmStates, CalmListener,
              InFlight

\* A supervisor at rest whose calls took turns, and whose commands did not fail,
\* tells the truth about its postmaster, and told it to its listener.
THEOREM Truthful == Spec => []RestIsTruthful
<1> DEFINE Inv == Ownership /\ (calm => Turns)
<1>1. Init => Inv
  BY InitOwnership, InitTurns
<1>2. Inv /\ [Next]_vars => Inv'
  <2> SUFFICES ASSUME Inv, [Next]_vars PROVE Inv'
    OBVIOUS
  <2>1. Ownership'
    BY NextTypeOK, NextOwners DEF Ownership, Owners
  <2>2. ASSUME calm' PROVE Turns'
    BY <2>2, CalmIsLost, NextTurns DEF Ownership, Owners
  <2> QED
    BY <2>1, <2>2
<1>3. Inv => RestIsTruthful
  <2> SUFFICES ASSUME Ownership, Turns, InFlight = {}, generation > 0
               PROVE /\ state \notin {"Starting", "Stopping"}
                     /\ state = "Stopped" \/ dropped => postmaster.phase \notin {"booting", "up"}
                     /\ heard \in {state, "Crashed"} \/ \E c \in Calls : watcher[c] = "tellCrashed"
    BY DEF RestIsTruthful
  <2>1. \A c \in Calls : pc[c] \in {"idle"} \cup EndLocs
    BY DEF InFlight, Turns, CalmCalls
  <2> QED
    BY <2>1 DEF Ownership, StoppingIsOwned, Turns, CalmCalls, CalmStates, CalmListener
<1> QED
  BY <1>1, <1>2, <1>3, PTL DEF Spec
===============================================================================
