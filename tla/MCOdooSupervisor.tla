-------------------------- MODULE MCOdooSupervisor --------------------------
(* Instances of OdooSupervisor for TLC. *)
EXTENDS OdooSupervisor, TLC

CONSTANTS c1, c2, c3, c4

TwoCalls   == {c1, c2}
ThreeCalls == {c1, c2, c3}
FourCalls  == {c1, c2, c3, c4}
AnyOrder   == Permutations(Calls)

NoFaults    == {}
AllFaults   == FaultKinds
LiveFaults  == {"stubborn", "exit"}
=============================================================================
