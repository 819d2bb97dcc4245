------------------------------ MODULE MCRuntimes ------------------------------
(* Instances of Runtimes for TLC. *)
EXTENDS Runtimes, TLC

CONSTANTS c1, c2, v1, v2

TwoClients  == {c1, c2}
TwoVersions == {v1, v2}
\* v1 has to be downloaded; the user has v2, which the cache may link to.
OwnV2       == [v \in TwoVersions |-> IF v = v2 THEN "bare" ELSE "none"]
All         == {"odoo", "openupgrade", "modules", "delete"}
AnyOrder    == Permutations(Clients)
===============================================================================
