------------------------------ MODULE Lifecycle ------------------------------
(***************************************************************************)
(* What a process supervisor of this project promises about the one value  *)
(* everyone reads, its state: "the started/stopped/crashed state machine"  *)
(* of postgres.rs, which odoo.rs says it mirrors.  Only the order of the   *)
(* states is promised here, not who moves them; PgSupervisor is shown to   *)
(* implement it.                                                           *)
(***************************************************************************)

VARIABLE state

States == {"Stopped", "Starting", "Running", "Stopping", "Crashed"}

Init == state = "Stopped"

\* A start is accepted from every state in which nothing runs or comes up.
BeginStart == state \in {"Stopped", "Stopping", "Crashed"} /\ state' = "Starting"

\* Only a start in progress makes the process Running, or gives up.
ComeUp   == state = "Starting" /\ state' = "Running"
GiveUp   == state = "Starting" /\ state' = "Stopped"

\* Only a running process is asked to stop, or found dead.
AskStop  == state = "Running" /\ state' = "Stopping"
FindDead == state = "Running" /\ state' = "Crashed"

\* A stop ends, or clears a crash that was already noticed.
EndStop  == state = "Stopping" /\ state' = "Stopped"
Clear    == state = "Crashed" /\ state' = "Stopped"

Next ==
  \/ BeginStart
  \/ ComeUp
  \/ GiveUp
  \/ AskStop
  \/ FindDead
  \/ EndStop
  \/ Clear

Spec == Init /\ [][Next]_state
=============================================================================
