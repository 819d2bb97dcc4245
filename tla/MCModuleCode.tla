----------------------------- MODULE MCModuleCode -----------------------------
(* The instance of ModuleCode for TLC. *)
EXTENDS ModuleCode

CONSTANTS c1, c2, base, app, n1, n2, v1, v2

TwoClients   == {c1, c2}
BothModules == {base, app}
BothTexts   == {v1, v2}
TwoNames    == {n1, n2}

\* app needs base, as every module does.
AppOnBase == (base :> {}) @@ (app :> {base})

JustApp   == {{app}}
AppAlone  == {{app}, {base, app}}
AnyOrder  == Permutations(Clients) \cup Permutations(Versions) \cup Permutations(Names)
NoCut     == {"fail", "query"}
===============================================================================
