-------------------------------- MODULE Addons --------------------------------
(***************************************************************************)
(* Which copy of a module an Odoo loads, and in which order its modules    *)
(* install (modules.rs): finding addons folders in a directory tree and    *)
(* proposing their load order, scanning the registered sources, shadowing, *)
(* unresolved dependencies and the topological order.  Workspace keeps the *)
(* sources and applies these operators to them.                            *)
(***************************************************************************)
EXTENDS Naturals, Sequences, FiniteSets, SequencesExt

CONSTANTS
  Folders,  \* the directory tree, numbered in the order of the paths; 0 is above it
  Above,    \* Above[f]: the folder that f is in
  Marks,    \* Marks[f]: what tells folders apart: "checkout" (odoo-bin is in it),
            \* "package" (it is named odoo and has a folder addons), "oca" (its name),
            \* "setup" (OCA's layout), "hidden" (never walked)
  Disk,     \* Disk[f]: the modules in f, numbered by their names, with the depends of
            \* their manifests
  Broken,   \* the depends of a manifest that cannot be parsed
  MaxDepth  \* how deep a walk goes (4)

ASSUME AddonsAssumption ==
  /\ Folders \subseteq Nat \ {0} /\ IsFiniteSet(Folders) /\ MaxDepth \in Nat
  /\ Above \in [Folders \cup {0} -> Folders \cup {0}] /\ Above[0] = 0
  /\ Marks \in [Folders \cup {0} -> SUBSET {"checkout", "package", "oca", "setup", "hidden"}]
  /\ DOMAIN Disk = Folders
  /\ \A f \in Folders : IsFiniteSet(Disk[f]) /\ \A m \in Disk[f] : m.name \in Nat

Kinds == {"Private", "Oca", "Core"}

\* The members of S, each after those that are before it: the i-th has i - 1 of them.
\* (Provers know nothing of SortSeq and SelectSeq.)
InOrder(S, before) ==
  [i \in 1 .. Cardinality(S) |-> CHOOSE x \in S : Cardinality({y \in S : <<y, x>> \in before}) = i - 1]

Ascending(S) == InOrder(S, {p \in S \X S : p[1] < p[2]})

\* What seq has at the places of order, and at those that are in I.
Along(seq, order) == [n \in DOMAIN order |-> seq[order[n]]]
Picked(seq, I)    == Along(seq, Ascending(I))

-------------------------------------------------------------------------------
(* discover_addons_roots *)

\* Mutant: Odoo's own folders come first.
OdooFirst(kind) == CASE kind = "Core" -> 0 [] kind = "Private" -> 1 [] kind = "Oca" -> 2
KindRank(kind) == CASE kind = "Private" -> 0 [] kind = "Oca" -> 1 [] kind = "Core" -> 2

Walked(root) ==
  LET level[k \in 0 .. MaxDepth] ==
        IF k = 0 THEN {root}
        ELSE LET last == level[k - 1]
             IN {f \in Folders : Above[f] \in last /\ "hidden" \notin Marks[f]}
  IN UNION {level[k] : k \in 0 .. MaxDepth}

\* The folders from f up to root, root excluded: the segments of the relative path.
Segments(root, f) ==
  LET up[g \in Folders \cup {0}] == IF g \in {root, 0} THEN {} ELSE {g} \cup up[Above[g]]
  IN up[f]

\* A checkout counts from two levels up, root or not; what is neither Odoo's nor OCA's
\* is yours.
Classify(root, f) ==
  IF \E g \in {f, Above[f], Above[Above[f]]} : Marks[g] \cap {"checkout", "package"} # {} THEN "Core"
  ELSE IF "setup" \in Marks[f] \/ \E g \in Segments(root, f) : "oca" \in Marks[g] THEN "Oca"
  ELSE "Private"

Discovered(root) ==
  LET found == {[path |-> f, kind |-> Classify(root, f)] :
                  f \in {g \in Folders : g \in Walked(root) /\ Disk[g] # {}}}
  IN InOrder(found, {p \in found \X found :
       \/ KindRank(p[1].kind) < KindRank(p[2].kind)
       \/ p[1].kind = p[2].kind /\ p[1].path < p[2].path})

-------------------------------------------------------------------------------
(* scan: sources is what list_addons_sources answers, in the order of the ranks *)

Unreadable(sources) == {i \in DOMAIN sources : sources[i].path \notin Folders}

\* Every module of every source that can be read and parsed.
Listings(sources) ==
  UNION {{[name |-> m.name, depends |-> m.depends, source |-> i, rank |-> sources[i].rank] :
            m \in {n \in Disk[sources[i].path] : n.depends # Broken}} :
         i \in DOMAIN sources \ Unreadable(sources)}

BestRank(listings, name) ==
  CHOOSE r \in {l.rank : l \in listings} :
    /\ \E l \in listings : l.name = name /\ l.rank = r
    /\ \A l \in listings : l.name = name => r <= l.rank

\* Two sources of one rank shadow neither of the copies.
Winners(listings) == {l \in listings : l.rank = BestRank(listings, l.name)}

NamesOf(listings) == {l.name : l \in listings}

Unresolved(winners) ==
  UNION {{[name |-> w.name, missing |-> d] : d \in w.depends \ NamesOf(winners)} : w \in winners}

(* topological_order: Kahn's algorithm *)

\* Mutant: a dependency outside the scan counts, and is never satisfied.
EdgesToAll(winners, name) == {e \in winners \X UNION {w.depends : w \in winners} :
                                e[1].name = name /\ e[2] \in e[1].depends}
\* What the in-degree of a module counts: dependencies that are in the scan themselves.
EdgesTo(winners, name) == {e \in winners \X NamesOf(winners) :
                             e[1].name = name /\ e[2] \in e[1].depends}

\* One turn of the loop: the first module of the queue is done, and what waited
\* for nothing else joins the queue, in the order of the names.
Turn(winners, k) ==
  LET n        == Head(k.queue)
      satisfied(m) == Cardinality({e \in EdgesTo(winners, m) : e[2] = n})
      left     == [m \in DOMAIN k.degree |-> k.degree[m] - satisfied(m)]
      ready    == {m \in DOMAIN k.degree : k.degree[m] > 0 /\ left[m] = 0}
  IN [queue |-> Tail(k.queue) \o Ascending(ready), degree |-> left, order |-> Append(k.order, n)]

\* The loop ends when nothing is queued.
After(winners, k) == IF k.queue = <<>> THEN k ELSE Turn(winners, k)

\* Before the first turn, what waits for nothing is queued.
Started(winners) ==
  LET degree == [m \in NamesOf(winners) |-> Cardinality(EdgesTo(winners, m))]
  IN [queue |-> Ascending({m \in DOMAIN degree : degree[m] = 0}), degree |-> degree, order |-> <<>>]

Kahn(winners) ==
  LET turns == Cardinality(NamesOf(winners))
      run[i \in 0 .. turns] == IF i = 0 THEN Started(winners) ELSE After(winners, run[i - 1])
  IN run[turns].order

Scan(sources) ==
  LET listings == Listings(sources)
      winners  == Winners(listings)
      order    == Kahn(winners)
      stuck    == NamesOf(winners) \ ToSet(order)
  IN [winners    |-> winners,
      collisions |-> {n \in NamesOf(listings) : Cardinality({l \in listings : l.name = n}) > 1},
      unresolved |-> Unresolved(winners),
      ordered    |-> stuck = {},
      order      |-> order,
      stuck      |-> stuck]

-------------------------------------------------------------------------------
(* What an answer of scan must be *)

\* Just the modules that are in no cycle and depend on none are in its order, each
\* once and after what it depends on; the others are what is stuck.
IsOrdered(sources) ==
  LET scan  == Scan(sources)
      names == NamesOf(scan.winners)
      needs == [m \in names |-> (UNION {w.depends : w \in {v \in scan.winners : v.name = m}}) \cap names]
      at(m) == CHOOSE i \in DOMAIN scan.order : scan.order[i] = m
      \* the largest set whose members each need a member: cycles and what depends on them
      bound == UNION {S \in SUBSET names : \A m \in S : needs[m] \cap S # {}}
  IN /\ scan.stuck = bound
     /\ ToSet(scan.order) = names \ bound /\ Len(scan.order) = Cardinality(names \ bound)
     /\ \A m \in names \ bound : \A d \in needs[m] : at(d) < at(m)

\* No source of a lower rank has a module that is loaded from another.
FirstWins(sources) ==
  \A w \in Scan(sources).winners, i \in DOMAIN sources :
    sources[i].rank < w.rank /\ sources[i].path \in Folders =>
      ~\E m \in Disk[sources[i].path] : m.name = w.name /\ m.depends # Broken
===============================================================================
