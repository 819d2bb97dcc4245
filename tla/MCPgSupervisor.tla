--------------------------- MODULE MCPgSupervisor ---------------------------
(* Instances of PgSupervisor for TLC. *)
EXTENDS PgSupervisor, TLC

CONSTANTS c1, c2, c3, c4

TwoCalls   == {c1, c2}
ThreeCalls == {c1, c2, c3}
FourCalls  == {c1, c2, c3, c4}
AnyOrder   == Permutations(Calls)

NoFaults   == {}
AllFaults  == FaultKinds
LiveFaults == {"stopTimeout", "crash", "flaky"}
=============================================================================
