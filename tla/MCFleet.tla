------------------------------- MODULE MCFleet -------------------------------
(* Instances of Fleet for TLC. *)
EXTENDS Fleet

CONSTANTS c1, c2, s1, s2

OneClient  == {c1}
TwoClients == {c1, c2}
OneServer  == {s1}
TwoServers == {s1, s2}
AllOrNothing == {[python |-> b, data |-> b] : b \in BOOLEAN}
AllFaults  == FaultKinds
NoFaults   == {}
AnyOrder   == Permutations(Clients) \cup Permutations(Servers)
===============================================================================
