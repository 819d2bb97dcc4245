----------------------------- MODULE MCDatabases -----------------------------
(* The instance of Databases for TLC. *)
EXTENDS Databases, TLC

CONSTANTS c1, c2, c3, home, copy, a1

TwoCalls   == {c1, c2}
ThreeCalls == {c1, c2, c3}
BothNames  == {home, copy}
IntoCopy   == [n \in Places \ {copy} |-> copy]
OneFile    == {a1}
AllFaults  == FaultKinds
AnyOrder   == Permutations(Calls)
=============================================================================
