----------------------------- MODULE OdooLifecycle -----------------------------
(***************************************************************************)
(* In which order the state of an Odoo supervisor may move, as everyone    *)
(* else sees it.  Fleet takes this for granted of each supervisor, and     *)
(* OdooSupervisorProofs shows that OdooSupervisor keeps to it.  It is more *)
(* than the life cycle that odoo.rs means to have (Lifecycle, which        *)
(* PostgreSQL's supervisor does keep to): stop() leaves the generation     *)
(* alone, so the end of a startup poll writes Running over whatever became *)
(* of the process meanwhile, a start() that gives up and a stop() that     *)
(* found no pid write Stopped, and the exit of a process that a start()    *)
(* gave up on is reported as a crash.                                      *)
(***************************************************************************)

\* start() is refused unless the last run is over.
MayStart(state) == state \in {"Stopped", "Crashed"}

\* What becomes of a supervisor that was started, without another start().
MayBecome(state) ==
  CASE state = "Starting" -> {"Running", "Stopped", "Crashed", "Stopping"}
    [] state = "Running"  -> {"Stopped", "Crashed", "Stopping"}
    [] state = "Stopping" -> {"Stopped", "Running"}
    [] state = "Crashed"  -> {"Stopped", "Running"}
    [] state = "Stopped"  -> {"Crashed", "Running"}

\* One transition: a start() that is accepted, or any other.
Follows(old, new) ==
  \/ MayStart(old) /\ new = "Starting"
  \/ new \in MayBecome(old)
================================================================================
