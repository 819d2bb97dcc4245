----------------------------- MODULE AddonsProofs -----------------------------
(***************************************************************************)
(* What the operators of Addons give, for every tree of folders: sorted    *)
(* sequences, the proposed load order, which copy of a module wins, and    *)
(* what topological_order puts in order.                                   *)
(* The induction theorems of the library take an operator, which no prover *)
(* can instantiate; here they are stated of a set, and proved by counting. *)
(***************************************************************************)
EXTENDS Addons, FiniteSetTheorems, FunctionTheorems, SequenceTheorems, TLAPS

-------------------------------------------------------------------------------
(* Induction *)

\* A set with 0 that has the successor of each of its numbers has all numbers: if
\* m were missing, the successors of those up to m would be as many as they are.
LEMMA NatSetInduction ==
  ASSUME NEW S, 0 \in S, \A n \in Nat : n \in S => n + 1 \in S
  PROVE  Nat \subseteq S
<1> SUFFICES ASSUME NEW m \in Nat, m \notin S PROVE FALSE
  OBVIOUS
<1> DEFINE L == {n \in 0 .. m : n \in S}
           f == [n \in L |-> n + 1]
<1>1. IsFiniteSet(0 .. m)
  BY FS_Interval
<1>2. IsFiniteSet(L) /\ L \in SUBSET (0 .. m)
  BY <1>1, FS_Subset
<1>3. 0 \in L
  OBVIOUS
<1>4. \A n \in L : n + 1 \in L \ {0}
  OBVIOUS
<1>5. f \in Injection(L, L \ {0})
  BY <1>4 DEF Injection, IsInjective
<1>6. IsFiniteSet(L \ {0}) /\ Cardinality(L \ {0}) = Cardinality(L) - 1
  BY <1>2, <1>3, FS_RemoveElement
<1>7. Cardinality(L) <= Cardinality(L \ {0})
  BY <1>5, <1>6, FS_Injection
<1>8. Cardinality(L) \in Nat
  BY <1>2, FS_CardinalityType
<1> QED
  BY <1>6, <1>7, <1>8

\* Some number of a set of naturals is the least.
LEMMA Least ==
  ASSUME NEW T \in SUBSET Nat, T # {}
  PROVE  \E n \in T : \A m \in T : n <= m
<1> SUFFICES ASSUME \A n \in T : \E m \in T : ~(n <= m) PROVE FALSE
  OBVIOUS
<1> DEFINE S == {n \in Nat : \A m \in T : n <= m}
<1>1. 0 \in S
  OBVIOUS
<1>2. \A n \in Nat : n \in S => n + 1 \in S
  <2> SUFFICES ASSUME NEW n \in Nat, n \in S, NEW m \in T PROVE n + 1 <= m
    OBVIOUS
  <2>1. n \notin T
    OBVIOUS
  <2> QED
    BY <2>1
<1>3. Nat \subseteq S
  <2> HIDE DEF S
  <2> QED
    BY <1>1, <1>2, NatSetInduction
<1>4. PICK t \in T : TRUE
  OBVIOUS
<1>5. t + 1 \in S
  BY <1>3
<1> QED
  BY <1>4, <1>5

-------------------------------------------------------------------------------
(* Sequences in order *)

StrictOrder(S, before) ==
  /\ \A x \in S : <<x, x>> \notin before
  /\ \A x, y, z \in S : <<x, y>> \in before /\ <<y, z>> \in before => <<x, z>> \in before
  /\ \A x, y \in S : x = y \/ <<x, y>> \in before \/ <<y, x>> \in before

\* seq has the members of S, each once, in order.
Enumerates(seq, S, before) ==
  /\ seq \in Seq(S) /\ Len(seq) = Cardinality(S)
  /\ \A x \in S : \E i \in 1 .. Len(seq) : seq[i] = x
  /\ \A i, j \in 1 .. Len(seq) : i < j => <<seq[i], seq[j]>> \in before

\* InOrder is that sequence: how many members are before one tells them apart, so that
\* each of the numbers below Cardinality(S) is the number of one.
LEMMA InOrderIs ==
  ASSUME NEW S, IsFiniteSet(S), NEW before, StrictOrder(S, before)
  PROVE  Enumerates(InOrder(S, before), S, before)
<1> DEFINE n        == Cardinality(S)
           below(x) == {y \in S : <<y, x>> \in before}
           r        == [x \in S |-> Cardinality(below(x)) + 1]
           q        == InOrder(S, before)
<1>1. n \in Nat
  BY FS_CardinalityType
<1>2. \A x \in S : IsFiniteSet(below(x)) /\ Cardinality(below(x)) \in 0 .. n - 1
  <2> SUFFICES ASSUME NEW x \in S PROVE IsFiniteSet(below(x)) /\ Cardinality(below(x)) \in 0 .. n - 1
    OBVIOUS
  <2>1. IsFiniteSet(S \ {x}) /\ Cardinality(S \ {x}) = n - 1
    BY FS_RemoveElement
  <2>2. below(x) \in SUBSET (S \ {x})
    BY DEF StrictOrder
  <2>3. IsFiniteSet(below(x)) /\ Cardinality(below(x)) <= Cardinality(S \ {x})
    BY <2>1, <2>2, FS_Subset
  <2>4. Cardinality(below(x)) \in Nat
    BY <2>3, FS_CardinalityType
  <2> HIDE DEF below
  <2> QED
    BY <1>1, <2>1, <2>3, <2>4
<1>3. \A x, z \in S : <<x, z>> \in before => r[x] < r[z]
  <2> SUFFICES ASSUME NEW x \in S, NEW z \in S, <<x, z>> \in before PROVE r[x] < r[z]
    OBVIOUS
  <2>1. below(x) \in SUBSET below(z) /\ x \in below(z) /\ x \notin below(x)
    BY DEF StrictOrder
  <2>2. Cardinality(below(x)) <= Cardinality(below(z))
    BY <1>2, <2>1, FS_Subset
  <2>3. Cardinality(below(x)) # Cardinality(below(z))
    BY <1>2, <2>1, FS_Subset
  <2>4. r[x] = Cardinality(below(x)) + 1 /\ r[z] = Cardinality(below(z)) + 1
    OBVIOUS
  <2> HIDE DEF below, r, n
  <2>5. Cardinality(below(x)) \in Nat /\ Cardinality(below(z)) \in Nat
    BY <1>1, <1>2
  <2> QED
    BY <2>2, <2>3, <2>4, <2>5
<1>4. r \in [S -> 1 .. n]
  <2>1. \A x \in S : Cardinality(below(x)) + 1 \in 1 .. n
    <3> HIDE DEF below, n
    <3> QED
      BY <1>1, <1>2
  <2> HIDE DEF below, n
  <2> QED
    BY <2>1
<1>5. \A x, z \in S : r[x] = r[z] => x = z
  <2> HIDE DEF r, n
  <2>1. SUFFICES ASSUME NEW x \in S, NEW z \in S, r[x] = r[z], x # z PROVE FALSE
    OBVIOUS
  <2>2. r[x] \in Int /\ r[z] \in Int
    BY <1>1, <1>4
  <2>3. r[x] < r[z] \/ r[z] < r[x]
    BY <1>3, <2>1 DEF StrictOrder
  <2> QED
    BY <2>1, <2>2, <2>3
<1>6. r \in Surjection(S, 1 .. n)
  <2> HIDE DEF r
  <2>1. r \in Injection(S, 1 .. n)
    BY <1>4, <1>5 DEF Injection, IsInjective
  <2>2. IsFiniteSet(1 .. n) /\ Cardinality(1 .. n) = n
    BY <1>1, FS_Interval
  <2> QED
    BY <2>1, <2>2, FS_Injection
<1>7. \A i \in 1 .. n : q[i] \in S /\ r[q[i]] = i
  <2> SUFFICES ASSUME NEW i \in 1 .. n PROVE q[i] \in S /\ r[q[i]] = i
    OBVIOUS
  <2>1. PICK x \in S : r[x] = i
    BY <1>6 DEF Surjection
  <2>2. Cardinality(below(x)) = i - 1
    BY <1>1, <1>2, <2>1, SMTT(30)
  <2>3. q[i] = CHOOSE y \in S : Cardinality(below(y)) = i - 1
    BY DEF InOrder
  <2>4. q[i] \in S /\ Cardinality(below(q[i])) = i - 1
    BY <2>2, <2>3
  <2> QED
    BY <1>1, <2>4
<1>8. q \in Seq(S) /\ Len(q) = n
  <2> DEFINE e(i) == CHOOSE x \in S : Cardinality(below(x)) = i - 1
  <2>1. q = [i \in 1 .. n |-> e(i)]
    BY DEF InOrder
  <2> HIDE DEF q, r, n, e
  <2>2. \A i \in 1 .. n : q[i] \in S
    BY <1>7
  <2>3. q \in [1 .. n -> S]
    BY <2>1, <2>2
  <2> QED
    BY <1>1, <2>3
<1> HIDE DEF q, r, n
<1>9. \A x \in S : \E i \in 1 .. n : q[i] = x
  <2> SUFFICES ASSUME NEW x \in S PROVE q[r[x]] = x
    BY <1>4
  <2>1. r[x] \in 1 .. n
    BY <1>4
  <2> QED
    BY <1>5, <1>7, <2>1
<1>10. \A i, j \in 1 .. n : i < j => <<q[i], q[j]>> \in before
  <2> SUFFICES ASSUME NEW i \in 1 .. n, NEW j \in 1 .. n, i < j PROVE <<q[i], q[j]>> \in before
    OBVIOUS
  <2>1. q[i] \in S /\ q[j] \in S /\ r[q[i]] = i /\ r[q[j]] = j
    BY <1>7
  <2>2. q[i] # q[j]
    BY <2>1
  <2>3. <<q[j], q[i]>> \notin before
    BY <1>1, <1>3, <2>1
  <2> QED
    BY <2>1, <2>2, <2>3 DEF StrictOrder
<1> QED
  BY <1>8, <1>9, <1>10 DEF Enumerates, q, n

\* A finite set of numbers in ascending order.
LEMMA AscendingIs ==
  ASSUME NEW S \in SUBSET Nat, IsFiniteSet(S)
  PROVE  /\ Ascending(S) \in Seq(S) /\ Len(Ascending(S)) = Cardinality(S)
         /\ \A x \in S : \E i \in 1 .. Len(Ascending(S)) : Ascending(S)[i] = x
         /\ \A i, j \in 1 .. Len(Ascending(S)) : i < j => Ascending(S)[i] < Ascending(S)[j]
<1> DEFINE before == {p \in S \X S : p[1] < p[2]}
           q      == Ascending(S)
<1>1. StrictOrder(S, before)
  BY DEF StrictOrder
<1>2. q = InOrder(S, before)
  BY DEF Ascending
<1>3. Enumerates(q, S, before)
  BY <1>1, <1>2, InOrderIs
<1>4. \A a, b : <<a, b>> \in before => a < b
  OBVIOUS
<1> HIDE DEF before, q
<1> QED
  BY <1>3, <1>4 DEF Enumerates, q

\* What Picked takes of a sequence is what is at the places of I, in the order it had.
LEMMA PickedIs ==
  ASSUME NEW T, NEW seq \in Seq(T), NEW I \in SUBSET (DOMAIN seq)
  PROVE  /\ Picked(seq, I) \in Seq(T)
         /\ \A n \in DOMAIN Picked(seq, I) : \E i \in I : Picked(seq, I)[n] = seq[i]
         /\ \A i \in I : \E n \in DOMAIN Picked(seq, I) : Picked(seq, I)[n] = seq[i]
         /\ \A m, n \in DOMAIN Picked(seq, I) : m < n =>
              \E i, k \in I : i < k /\ Picked(seq, I)[m] = seq[i] /\ Picked(seq, I)[n] = seq[k]
<1> DEFINE order == Ascending(I)
           q     == Picked(seq, I)
<1>1. DOMAIN seq = 1 .. Len(seq) /\ Len(seq) \in Nat
  BY LenProperties
<1>2. IsFiniteSet(I) /\ I \in SUBSET Nat
  <2>1. IsFiniteSet(1 .. Len(seq)) /\ I \in SUBSET (1 .. Len(seq))
    BY <1>1, FS_Interval
  <2> QED
    BY <2>1, FS_Subset
<1>3. /\ order \in Seq(I)
      /\ \A x \in I : \E i \in 1 .. Len(order) : order[i] = x
      /\ \A i, j \in 1 .. Len(order) : i < j => order[i] < order[j]
  BY <1>2, AscendingIs
<1>4. q = [n \in DOMAIN order |-> seq[order[n]]]
  BY DEF Picked, Along
<1> HIDE DEF order, q
<1>5. DOMAIN order = 1 .. Len(order) /\ Len(order) \in Nat /\ \A n \in DOMAIN order : order[n] \in I
  BY <1>3, LenProperties, ElementOfSeq
<1>6. \A i \in I : seq[i] \in T
  BY ElementOfSeq, <1>1
<1>7. q \in [1 .. Len(order) -> T]
  BY <1>4, <1>5, <1>6
<1>8. q \in Seq(T) /\ DOMAIN q = DOMAIN order
  BY <1>5, <1>7
<1>9. \A n \in DOMAIN q : q[n] = seq[order[n]]
  BY <1>4
<1>10. \A n \in DOMAIN q : \E i \in I : q[n] = seq[i]
  BY <1>5, <1>8, <1>9
<1>11. \A i \in I : \E n \in DOMAIN q : q[n] = seq[i]
  <2> SUFFICES ASSUME NEW i \in I PROVE \E n \in DOMAIN q : q[n] = seq[i]
    OBVIOUS
  <2>1. PICK n \in 1 .. Len(order) : order[n] = i
    BY <1>3
  <2> QED
    BY <1>5, <1>8, <1>9, <2>1
<1>12. \A m, n \in DOMAIN q : m < n =>
         \E i, k \in I : i < k /\ q[m] = seq[i] /\ q[n] = seq[k]
  <2> SUFFICES ASSUME NEW m \in DOMAIN q, NEW n \in DOMAIN q, m < n
               PROVE  order[m] < order[n] /\ order[m] \in I /\ order[n] \in I
    BY <1>9
  <2> QED
    BY <1>3, <1>5, <1>8
<1> QED
  BY <1>8, <1>10, <1>11, <1>12 DEF q

-------------------------------------------------------------------------------
(* The proposed load order *)

Roots == [path: Folders, kind: Kinds]

\* What discover_addons_roots proposes has your own folders before OCA's, and those
\* before Odoo's.
LEMMA DiscoveredIs ==
  ASSUME NEW root
  PROVE  /\ Discovered(root) \in Seq(Roots)
         /\ \A i, j \in DOMAIN Discovered(root) : i < j =>
              KindRank(Discovered(root)[i].kind) <= KindRank(Discovered(root)[j].kind)
<1> DEFINE F      == {g \in Folders : g \in Walked(root) /\ Disk[g] # {}}
           e(f)   == [path |-> f, kind |-> Classify(root, f)]
           found  == {e(f) : f \in F}
           before == {p \in found \X found : \/ KindRank(p[1].kind) < KindRank(p[2].kind)
                                             \/ p[1].kind = p[2].kind /\ p[1].path < p[2].path}
           q      == Discovered(root)
<1>1. q = InOrder(found, before)
  BY DEF Discovered
<1>2. found \subseteq Roots
  <2>1. \A f : Classify(root, f) \in Kinds
    BY DEF Classify, Kinds
  <2> QED
    BY <2>1 DEF Roots
<1>3. IsFiniteSet(found)
  <2>1. IsFiniteSet(F)
    BY AddonsAssumption, FS_Subset
  <2> DEFINE g == [f \in F |-> e(f)]
  <2>2. g \in Surjection(F, found)
    <3> HIDE DEF F, e
    <3> QED
      BY DEF Surjection
  <2> HIDE DEF F, found, g
  <2> QED
    BY <2>1, <2>2, FS_Surjection
<1> HIDE DEF F, e
<1>4. \A a, b \in found : <<a, b>> \in before <=>
         \/ KindRank(a.kind) < KindRank(b.kind)
         \/ a.kind = b.kind /\ a.path < b.path
  <2> HIDE DEF found
  <2> QED
    OBVIOUS
<1> HIDE DEF found, before
<1>5. \A a \in found : a.path \in Nat /\ a.kind \in Kinds
  BY <1>2, AddonsAssumption DEF Roots
<1>6. \A k \in Kinds : KindRank(k) \in 0 .. 2
  BY DEF Kinds, KindRank
<1>7. \A k, l \in Kinds : KindRank(k) = KindRank(l) => k = l
  BY DEF Kinds, KindRank
<1>8. StrictOrder(found, before)
  <2>1. \A x \in found : <<x, x>> \notin before
    BY <1>4, <1>5, <1>6
  <2>2. \A x, y, z \in found : <<x, y>> \in before /\ <<y, z>> \in before => <<x, z>> \in before
    <3> SUFFICES ASSUME NEW x \in found, NEW y \in found, NEW z \in found,
                        <<x, y>> \in before, <<y, z>> \in before
                 PROVE  <<x, z>> \in before
      OBVIOUS
    <3>1. KindRank(x.kind) \in Nat /\ KindRank(y.kind) \in Nat /\ KindRank(z.kind) \in Nat
      BY <1>5, <1>6
    <3>2. x.path \in Nat /\ y.path \in Nat /\ z.path \in Nat
      BY <1>5
    <3>3. KindRank(x.kind) < KindRank(y.kind) \/ (x.kind = y.kind /\ x.path < y.path)
      BY <1>4
    <3>4. KindRank(y.kind) < KindRank(z.kind) \/ (y.kind = z.kind /\ y.path < z.path)
      BY <1>4
    <3>5. KindRank(x.kind) < KindRank(z.kind) \/ (x.kind = z.kind /\ x.path < z.path)
      BY <3>1, <3>2, <3>3, <3>4
    <3> QED
      BY <1>4, <3>5
  <2>3. \A x, y \in found : x = y \/ <<x, y>> \in before \/ <<y, x>> \in before
    <3> SUFFICES ASSUME NEW x \in found, NEW y \in found
                 PROVE  x = y \/ <<x, y>> \in before \/ <<y, x>> \in before
      OBVIOUS
    <3>1. KindRank(x.kind) \in Nat /\ KindRank(y.kind) \in Nat /\ x.path \in Nat /\ y.path \in Nat
      BY <1>5, <1>6
    <3>2. CASE x.kind # y.kind
      BY <1>4, <1>5, <1>7, <3>1, <3>2
    <3>3. CASE x.kind = y.kind
      <4>1. x.path = y.path => x = y
        BY <1>2, <3>3 DEF Roots
      <4> QED
        BY <1>4, <3>1, <3>3, <4>1
    <3> QED
      BY <3>2, <3>3
  <2> QED
    BY <2>1, <2>2, <2>3 DEF StrictOrder
<1>9. Enumerates(q, found, before)
  BY <1>1, <1>3, <1>8, InOrderIs
<1> HIDE DEF q
<1>10. q \in Seq(Roots)
  BY <1>2, <1>9, SeqMonotonic DEF Enumerates
<1>11. DOMAIN q = 1 .. Len(q) /\ \A i \in DOMAIN q : q[i] \in found
  BY <1>9, LenProperties, ElementOfSeq DEF Enumerates
<1>12. \A i, j \in DOMAIN q : i < j => KindRank(q[i].kind) <= KindRank(q[j].kind)
  <2> SUFFICES ASSUME NEW i \in DOMAIN q, NEW j \in DOMAIN q, i < j
               PROVE  KindRank(q[i].kind) <= KindRank(q[j].kind)
    OBVIOUS
  <2>1. q[i] \in found /\ q[j] \in found /\ <<q[i], q[j]>> \in before
    BY <1>9, <1>11 DEF Enumerates
  <2>2. KindRank(q[i].kind) \in Nat /\ KindRank(q[j].kind) \in Nat
    BY <1>5, <1>6, <2>1
  <2>3. KindRank(q[i].kind) < KindRank(q[j].kind) \/ q[i].kind = q[j].kind
    BY <1>4, <2>1
  <2> QED
    BY <2>2, <2>3
<1> QED
  BY <1>10, <1>12 DEF q

-------------------------------------------------------------------------------
(* Which copy wins *)

\* A scan of sources whose ranks are numbers loads each module from a source that has it,
\* and no source of a lower rank has that module too.
LEMMA WinnersAreFirst ==
  ASSUME NEW sources, \A i \in DOMAIN sources : sources[i].rank \in Nat,
         NEW w \in Scan(sources).winners
  PROVE  /\ w.source \in DOMAIN sources
         /\ w.rank = sources[w.source].rank
         /\ \A i \in DOMAIN sources : \A m :
              sources[i].path \in Folders /\ m \in Disk[sources[i].path]
                /\ m.depends # Broken /\ m.name = w.name =>
              w.rank <= sources[i].rank
<1> DEFINE listings == Listings(sources)
           at(i)    == {[name |-> m.name, depends |-> m.depends, source |-> i, rank |-> sources[i].rank] :
                          m \in {n \in Disk[sources[i].path] : n.depends # Broken}}
           named    == {l \in listings : l.name = w.name}
           ranks    == {l.rank : l \in named}
<1>1. w \in listings /\ w.rank = BestRank(listings, w.name)
  BY DEF Scan, Winners
<1>2. \A l \in listings : l.source \in DOMAIN sources /\ l.rank = sources[l.source].rank
  BY DEF Listings
<1>3. \A i \in DOMAIN sources : \A m :
         sources[i].path \in Folders /\ m \in Disk[sources[i].path] /\ m.depends # Broken =>
           [name |-> m.name, depends |-> m.depends, source |-> i, rank |-> sources[i].rank] \in listings
  BY DEF Listings, Unreadable
<1> HIDE DEF listings
<1>4. ranks \in SUBSET Nat /\ ranks # {}
  BY <1>1, <1>2
<1>5. PICK r \in ranks : \A s \in ranks : r <= s
  BY <1>4, Least
<1>6. \A l \in listings : l.name = w.name => w.rank <= l.rank
  <2> DEFINE Best(b) == /\ \E l \in listings : l.name = w.name /\ l.rank = b
                        /\ \A l \in listings : l.name = w.name => b <= l.rank
  <2>1. r \in {l.rank : l \in listings} /\ Best(r)
    BY <1>5
  <2>2. BestRank(listings, w.name) = CHOOSE b \in {l.rank : l \in listings} : Best(b)
    BY DEF BestRank
  <2> HIDE DEF Best
  <2>3. Best(w.rank)
    BY <1>1, <2>1, <2>2
  <2> QED
    BY <2>3 DEF Best
<1>7. \A i \in DOMAIN sources : \A m :
         sources[i].path \in Folders /\ m \in Disk[sources[i].path]
           /\ m.depends # Broken /\ m.name = w.name =>
         w.rank <= sources[i].rank
  <2> SUFFICES ASSUME NEW i \in DOMAIN sources, NEW m,
                      sources[i].path \in Folders, m \in Disk[sources[i].path],
                      m.depends # Broken, m.name = w.name
               PROVE  w.rank <= sources[i].rank
    OBVIOUS
  <2> DEFINE l == [name |-> m.name, depends |-> m.depends, source |-> i, rank |-> sources[i].rank]
  <2>1. l \in listings /\ l.name = w.name /\ l.rank = sources[i].rank
    BY <1>3
  <2> HIDE DEF l
  <2> QED
    BY <1>6, <2>1
<1> QED
  BY <1>1, <1>2, <1>7

-------------------------------------------------------------------------------
(* Sequences without repetition *)

Distinct(s) == \A i, j \in 1 .. Len(s) : s[i] = s[j] => i = j

\* What a sequence has, said with its length.
LEMMA HasIs ==
  ASSUME NEW T, NEW s \in Seq(T)
  PROVE  /\ \A x : x \in ToSet(s) <=> \E i \in 1 .. Len(s) : s[i] = x
         /\ ToSet(s) \subseteq T /\ Len(s) \in Nat
<1>1. DOMAIN s = 1 .. Len(s) /\ Len(s) \in Nat /\ \A i \in 1 .. Len(s) : s[i] \in T
  BY LenProperties, ElementOfSeq
<1> QED
  BY <1>1 DEF ToSet

\* One more at the end.
LEMMA AppendDistinct ==
  ASSUME NEW T, NEW s \in Seq(T), NEW x \in T, Distinct(s), x \notin ToSet(s)
  PROVE  /\ Append(s, x) \in Seq(T) /\ Distinct(Append(s, x))
         /\ Len(Append(s, x)) = Len(s) + 1
         /\ Append(s, x)[Len(s) + 1] = x /\ \A i \in 1 .. Len(s) : Append(s, x)[i] = s[i]
         /\ ToSet(Append(s, x)) = ToSet(s) \cup {x}
<1> DEFINE a == Append(s, x)
<1>1. /\ a \in Seq(T) /\ Len(a) = Len(s) + 1 /\ a[Len(s) + 1] = x
      /\ \A i \in 1 .. Len(s) : a[i] = s[i]
  BY AppendProperties
<1>2. Len(s) \in Nat /\ \A y : y \in ToSet(s) <=> \E i \in 1 .. Len(s) : s[i] = y
  BY HasIs
<1>3. \A y : y \in ToSet(a) <=> \E i \in 1 .. Len(a) : a[i] = y
  BY <1>1, HasIs
<1> HIDE DEF a
<1>4. Distinct(a)
  <2> SUFFICES ASSUME NEW i \in 1 .. Len(s) + 1, NEW j \in 1 .. Len(s) + 1, a[i] = a[j] PROVE i = j
    BY <1>1 DEF Distinct
  <2>1. CASE i = Len(s) + 1 /\ j # Len(s) + 1
    BY <1>1, <1>2, <2>1
  <2>2. CASE j = Len(s) + 1 /\ i # Len(s) + 1
    BY <1>1, <1>2, <2>2
  <2>3. CASE i \in 1 .. Len(s) /\ j \in 1 .. Len(s)
    BY <1>1, <2>3 DEF Distinct
  <2> QED
    BY <1>2, <2>1, <2>2, <2>3
<1>5. ToSet(a) = ToSet(s) \cup {x}
  <2>1. ASSUME NEW y \in ToSet(a) PROVE y \in ToSet(s) \cup {x}
    <3>1. PICK i \in 1 .. Len(s) + 1 : a[i] = y
      BY <1>1, <1>3
    <3>2. i = Len(s) + 1 \/ i \in 1 .. Len(s)
      BY <1>2
    <3> QED
      BY <1>1, <1>2, <3>1, <3>2
  <2>2. ASSUME NEW y \in ToSet(s) PROVE y \in ToSet(a)
    <3>1. PICK i \in 1 .. Len(s) : s[i] = y
      BY <1>2
    <3>2. i \in 1 .. Len(a) /\ a[i] = y
      BY <1>1, <1>2, <3>1
    <3> QED
      BY <1>3, <3>2
  <2>3. x \in ToSet(a)
    <3>1. Len(a) \in 1 .. Len(a) /\ a[Len(a)] = x
      BY <1>1, <1>2
    <3> QED
      BY <1>3, <3>1
  <2> QED
    BY <2>1, <2>2, <2>3
<1> QED
  BY <1>1, <1>4, <1>5 DEF a

\* All but the first.
LEMMA TailDistinct ==
  ASSUME NEW T, NEW s \in Seq(T), Distinct(s), s # <<>>
  PROVE  /\ Head(s) \in ToSet(s) /\ Tail(s) \in Seq(T) /\ Distinct(Tail(s))
         /\ ToSet(Tail(s)) = ToSet(s) \ {Head(s)}
<1> DEFINE h == Head(s)
           r == Tail(s)
<1>1. /\ r \in Seq(T) /\ Len(r) = Len(s) - 1 /\ h = s[1]
      /\ \A i \in 1 .. Len(s) - 1 : r[i] = s[i + 1]
  <2>1. r \in Seq(T) /\ Len(r) = Len(s) - 1 /\ \A i \in 1 .. Len(r) : r[i] = s[i + 1]
    BY HeadTailProperties
  <2> QED
    BY <2>1
<1>2. Len(s) \in Nat \ {0} /\ \A y : y \in ToSet(s) <=> \E i \in 1 .. Len(s) : s[i] = y
  BY HasIs, EmptySeq
<1>3. \A y : y \in ToSet(r) <=> \E i \in 1 .. Len(r) : r[i] = y
  BY <1>1, HasIs
<1> HIDE DEF r, h
<1>4. Distinct(r)
  <2> SUFFICES ASSUME NEW i \in 1 .. Len(s) - 1, NEW j \in 1 .. Len(s) - 1, r[i] = r[j] PROVE i = j
    BY <1>1 DEF Distinct
  <2>1. i + 1 \in 1 .. Len(s) /\ j + 1 \in 1 .. Len(s) /\ s[i + 1] = s[j + 1]
    BY <1>1, <1>2
  <2>2. i + 1 = j + 1
    BY <2>1 DEF Distinct
  <2> QED
    BY <2>2
<1>5. h \in ToSet(s)
  BY <1>1, <1>2
<1>6. ASSUME NEW y \in ToSet(r) PROVE y \in ToSet(s) \ {h}
  <2>1. PICK i \in 1 .. Len(s) - 1 : r[i] = y
    BY <1>1, <1>3
  <2>2. i + 1 \in 1 .. Len(s) /\ s[i + 1] = y /\ i + 1 # 1 /\ 1 \in 1 .. Len(s)
    BY <1>1, <1>2, <2>1
  <2>3. s[i + 1] # s[1]
    BY <2>2 DEF Distinct
  <2> QED
    BY <1>1, <1>2, <2>2, <2>3
<1>7. ASSUME NEW y \in ToSet(s) \ {h} PROVE y \in ToSet(r)
  <2>1. PICK i \in 1 .. Len(s) : s[i] = y
    BY <1>2
  <2>2. i - 1 \in 1 .. Len(s) - 1 /\ (i - 1) + 1 = i
    BY <1>1, <1>2, <2>1
  <2>3. r[i - 1] = y
    BY <1>1, <2>1, <2>2
  <2> QED
    BY <1>1, <1>3, <2>2, <2>3
<1> QED
  BY <1>1, <1>4, <1>5, <1>6, <1>7 DEF r, h

\* Two that have nothing in common, one after the other.
LEMMA ConcatDistinct ==
  ASSUME NEW T, NEW s \in Seq(T), NEW u \in Seq(T), Distinct(s), Distinct(u),
         ToSet(s) \cap ToSet(u) = {}
  PROVE  /\ s \o u \in Seq(T) /\ Distinct(s \o u) /\ ToSet(s \o u) = ToSet(s) \cup ToSet(u)
<1> DEFINE q == s \o u
           a == Len(s)
           b == Len(u)
<1>1. /\ q \in Seq(T) /\ Len(q) = a + b
      /\ \A i \in 1 .. a + b : q[i] = IF i <= a THEN s[i] ELSE u[i - a]
  BY ConcatProperties, Zenon
<1>2. a \in Nat /\ \A y : y \in ToSet(s) <=> \E i \in 1 .. a : s[i] = y
  BY HasIs
<1>3. b \in Nat /\ \A y : y \in ToSet(u) <=> \E i \in 1 .. b : u[i] = y
  BY HasIs
<1>4. \A y : y \in ToSet(q) <=> \E i \in 1 .. a + b : q[i] = y
  <2> HIDE DEF q
  <2>1. q \in Seq(T) /\ Len(q) = a + b
    BY <1>1
  <2> HIDE DEF a, b
  <2>2. \A y : y \in ToSet(q) <=> \E i \in 1 .. Len(q) : q[i] = y
    BY <2>1, HasIs
  <2> QED
    BY <2>1, <2>2
<1>5. \A i, j \in 1 .. a : s[i] = s[j] => i = j
  BY DEF Distinct
<1>6. \A i, j \in 1 .. b : u[i] = u[j] => i = j
  BY DEF Distinct
<1> HIDE DEF q, a, b
<1>7. \A i \in 1 .. a : i \in 1 .. a + b /\ q[i] = s[i]
  BY <1>1, <1>2, <1>3
<1>8. \A i \in 1 .. b : i + a \in 1 .. a + b /\ q[i + a] = u[i]
  <2> SUFFICES ASSUME NEW i \in 1 .. b PROVE i + a \in 1 .. a + b /\ q[i + a] = u[i]
    OBVIOUS
  <2>1. i + a \in 1 .. a + b /\ ~(i + a <= a) /\ (i + a) - a = i
    BY <1>2, <1>3
  <2> QED
    BY <1>1, <2>1
<1>9. \A i \in 1 .. a + b : i \in 1 .. a \/ \E k \in 1 .. b : i = k + a
  <2> SUFFICES ASSUME NEW i \in 1 .. a + b, i \notin 1 .. a PROVE i - a \in 1 .. b /\ i = (i - a) + a
    OBVIOUS
  <2> QED
    BY <1>2, <1>3
<1>10. Distinct(q)
  <2> SUFFICES ASSUME NEW i \in 1 .. a + b, NEW j \in 1 .. a + b, q[i] = q[j] PROVE i = j
    BY <1>1 DEF Distinct
  <2>1. CASE i \in 1 .. a /\ j \in 1 .. a
    BY <1>5, <1>7, <2>1
  <2>2. ASSUME NEW k \in 1 .. b, i = k + a, NEW l \in 1 .. b, j = l + a PROVE i = j
    BY <1>6, <1>8, <2>2
  <2>3. ASSUME i \in 1 .. a, NEW l \in 1 .. b, j = l + a PROVE FALSE
    <3>1. s[i] = u[l]
      BY <1>7, <1>8, <2>3
    <3> QED
      BY <1>2, <1>3, <2>3, <3>1
  <2>4. ASSUME j \in 1 .. a, NEW k \in 1 .. b, i = k + a PROVE FALSE
    <3>1. s[j] = u[k]
      BY <1>7, <1>8, <2>4
    <3> QED
      BY <1>2, <1>3, <2>4, <3>1
  <2> QED
    BY <1>9, <2>1, <2>2, <2>3, <2>4
<1>11. ToSet(q) = ToSet(s) \cup ToSet(u)
  <2>1. \A y \in ToSet(q) : y \in ToSet(s) \cup ToSet(u)
    <3> SUFFICES ASSUME NEW i \in 1 .. a + b PROVE q[i] \in ToSet(s) \cup ToSet(u)
      BY <1>4
    <3>1. CASE i \in 1 .. a
      BY <1>2, <1>7, <3>1
    <3>2. ASSUME NEW k \in 1 .. b, i = k + a PROVE q[i] \in ToSet(s) \cup ToSet(u)
      BY <1>3, <1>8, <3>2
    <3> QED
      BY <1>9, <3>1, <3>2
  <2>2. \A y \in ToSet(s) : y \in ToSet(q)
    BY <1>2, <1>4, <1>7
  <2>3. \A y \in ToSet(u) : y \in ToSet(q)
    BY <1>3, <1>4, <1>8
  <2> QED
    BY <2>1, <2>2, <2>3
<1> QED
  BY <1>1, <1>10, <1>11 DEF q

\* A sequence without repetition is as long as what it has.
LEMMA DistinctLen ==
  ASSUME NEW T, NEW s \in Seq(T), Distinct(s)
  PROVE  IsFiniteSet(ToSet(s)) /\ Cardinality(ToSet(s)) = Len(s)
<1>1. Len(s) \in Nat /\ \A x : x \in ToSet(s) <=> \E i \in 1 .. Len(s) : s[i] = x
  BY HasIs
<1>2. s \in [1 .. Len(s) -> ToSet(s)]
  BY <1>1, LenProperties
<1>3. s \in Bijection(1 .. Len(s), ToSet(s))
  BY <1>1, <1>2 DEF Distinct, Bijection, Injection, Surjection, IsInjective
<1>4. IsFiniteSet(1 .. Len(s)) /\ Cardinality(1 .. Len(s)) = Len(s)
  BY <1>1, FS_Interval
<1>5. ExistsBijection(1 .. Len(s), ToSet(s))
  BY <1>3 DEF ExistsBijection
<1> QED
  BY <1>4, <1>5, FS_Bijection

\* A finite set of numbers, once each.
LEMMA AscendingDistinct ==
  ASSUME NEW S \in SUBSET Nat, IsFiniteSet(S)
  PROVE  Ascending(S) \in Seq(S) /\ Distinct(Ascending(S)) /\ ToSet(Ascending(S)) = S
<1> DEFINE q == Ascending(S)
<1>1. /\ q \in Seq(S)
      /\ \A x \in S : \E i \in 1 .. Len(q) : q[i] = x
      /\ \A i, j \in 1 .. Len(q) : i < j => q[i] < q[j]
  BY AscendingIs
<1> HIDE DEF q
<1>2. Len(q) \in Nat /\ \A x : x \in ToSet(q) <=> \E i \in 1 .. Len(q) : q[i] = x
  BY <1>1, HasIs
<1>3. \A i \in 1 .. Len(q) : q[i] \in Nat
  BY <1>1, ElementOfSeq
<1>4. Distinct(q)
  <2> SUFFICES ASSUME NEW i \in 1 .. Len(q), NEW j \in 1 .. Len(q), q[i] = q[j] PROVE i = j
    BY DEF Distinct
  <2>1. ~(i < j) /\ ~(j < i)
    BY <1>1, <1>3
  <2> QED
    BY <1>2, <2>1
<1>5. ToSet(q) = S
  BY <1>1, <1>2, HasIs
<1> QED
  BY <1>1, <1>4, <1>5 DEF q

-------------------------------------------------------------------------------
(* The turns of topological_order *)

\* A function that is defined by what it is one number earlier exists: Kahn's turns.
LEMMA TurnsExist ==
  ASSUME NEW W, NEW t \in Nat
  PROVE  \E r : r = [i \in 0 .. t |-> IF i = 0 THEN Started(W) ELSE After(W, r[i - 1])]
<1> DEFINE Run(n, r) == r = [i \in 0 .. n |-> IF i = 0 THEN Started(W) ELSE After(W, r[i - 1])]
           S == {n \in Nat : \E r : Run(n, r)}
<1>1. 0 \in S
  <2> DEFINE r == [i \in 0 .. 0 |-> Started(W)]
  <2>1. Run(0, r)
    OBVIOUS
  <2> QED
    BY <2>1
<1>2. \A n \in Nat : n \in S => n + 1 \in S
  <2> SUFFICES ASSUME NEW n \in Nat, NEW r, Run(n, r) PROVE \E q : Run(n + 1, q)
    OBVIOUS
  <2> DEFINE q == [i \in 0 .. n + 1 |-> IF i = n + 1 THEN After(W, r[n]) ELSE r[i]]
             p == [i \in 0 .. n + 1 |-> IF i = 0 THEN Started(W) ELSE After(W, q[i - 1])]
  <2>1. \A i \in 0 .. n : r[i] = IF i = 0 THEN Started(W) ELSE After(W, r[i - 1])
    OBVIOUS
  <2>2. \A i \in 0 .. n + 1 : q[i] = p[i]
    <3> SUFFICES ASSUME NEW i \in 0 .. n + 1 PROVE q[i] = p[i]
      OBVIOUS
    <3>1. CASE i = 0
      BY <2>1, <3>1
    <3>2. CASE i = n + 1
      <4>1. q[i] = After(W, r[n]) /\ i # 0
        BY <3>2
      <4>2. p[i] = After(W, q[n])
        BY <3>2
      <4>3. q[n] = r[n]
        OBVIOUS
      <4> QED
        BY <4>1, <4>2, <4>3
    <3>3. CASE i \in 1 .. n
      <4>1. q[i] = r[i] /\ r[i] = After(W, r[i - 1])
        BY <2>1, <3>3
      <4>2. p[i] = After(W, q[i - 1])
        BY <3>3
      <4>3. q[i - 1] = r[i - 1]
        BY <3>3
      <4> QED
        BY <4>1, <4>2, <4>3
    <3> QED
      BY <3>1, <3>2, <3>3
  <2>3. q = p
    <3>1. DOMAIN q = 0 .. n + 1 /\ DOMAIN p = 0 .. n + 1
      OBVIOUS
    <3>2. q = [i \in 0 .. n + 1 |-> q[i]] /\ p = [i \in 0 .. n + 1 |-> p[i]]
      OBVIOUS
    <3> HIDE DEF q, p
    <3> QED
      BY <2>2, <3>2
  <2>4. Run(n + 1, q)
    BY <2>3
  <2> QED
    BY <2>4
<1>3. t \in S
  <2> HIDE DEF S
  <2> QED
    BY <1>1, <1>2, NatSetInduction
<1> QED
  BY <1>3

\* The order is what is done at the last of these turns.
LEMMA KahnTurns ==
  ASSUME NEW W, Cardinality(NamesOf(W)) \in Nat
  PROVE  \E r : /\ r[0] = Started(W)
                /\ \A i \in 0 .. Cardinality(NamesOf(W)) - 1 : r[i + 1] = After(W, r[i])
                /\ Kahn(W) = r[Cardinality(NamesOf(W))].order
<1> DEFINE t == Cardinality(NamesOf(W))
           Run(r) == r = [i \in 0 .. t |-> IF i = 0 THEN Started(W) ELSE After(W, r[i - 1])]
           run == CHOOSE r : Run(r)
<1>1. Kahn(W) = run[t].order
  BY DEF Kahn
<1>2. \E r : Run(r)
  BY TurnsExist
<1>3. Run(run)
  <2> HIDE DEF Run
  <2> QED
    BY <1>2
<1> HIDE DEF run
<1>4. run[0] = Started(W)
  BY <1>3
<1>5. ASSUME NEW i \in 0 .. t - 1 PROVE run[i + 1] = After(W, run[i])
  <2>1. i + 1 \in 0 .. t /\ i + 1 # 0 /\ (i + 1) - 1 = i
    OBVIOUS
  <2> HIDE DEF t
  <2> QED
    BY <1>3, <2>1
<1> QED
  BY <1>1, <1>4, <1>5

\* What a module still waits for when those of P are done.
Waits(W, m, P) == {e \in EdgesTo(W, m) : e[2] \notin P}

\* What holds before and after every turn: a module is queued or done just when it
\* waits for nothing, and what is done came after what it depends on.
Turned(W, k) ==
  /\ k.order \in Seq(NamesOf(W)) /\ Distinct(k.order)
  /\ k.queue \in Seq(NamesOf(W)) /\ Distinct(k.queue)
  /\ ToSet(k.order) \cap ToSet(k.queue) = {}
  /\ DOMAIN k.degree = NamesOf(W)
  /\ \A m \in NamesOf(W) : k.degree[m] = Cardinality(Waits(W, m, ToSet(k.order)))
  /\ \A m \in NamesOf(W) : Waits(W, m, ToSet(k.order)) = {} <=> m \in ToSet(k.order) \cup ToSet(k.queue)
  /\ \A i \in 1 .. Len(k.order) : \A e \in EdgesTo(W, k.order[i]) :
       \E j \in 1 .. i - 1 : k.order[j] = e[2]

\* The edges are finitely many, so that they can be counted.
LEMMA WaitsFinite ==
  ASSUME NEW W, IsFiniteSet(W), NEW m
  PROVE  /\ IsFiniteSet(NamesOf(W)) /\ IsFiniteSet(EdgesTo(W, m))
         /\ \A P : IsFiniteSet(Waits(W, m, P))
<1> DEFINE f == [w \in W |-> w.name]
           N == NamesOf(W)
<1>1. IsFiniteSet(N)
  <2>1. f \in Surjection(W, N)
    BY DEF Surjection, NamesOf
  <2> HIDE DEF f, N
  <2> QED
    BY <2>1, FS_Surjection
<1>2. IsFiniteSet(W \X N)
  BY <1>1, FS_Product
<1>3. IsFiniteSet(EdgesTo(W, m))
  <2>1. EdgesTo(W, m) \in SUBSET (W \X N)
    BY DEF EdgesTo
  <2> QED
    BY <1>2, <2>1, FS_Subset
<1>4. \A P : IsFiniteSet(Waits(W, m, P))
  <2> SUFFICES ASSUME NEW P PROVE IsFiniteSet(Waits(W, m, P))
    OBVIOUS
  <2>1. Waits(W, m, P) \in SUBSET EdgesTo(W, m)
    BY DEF Waits
  <2> QED
    BY <1>3, <2>1, FS_Subset
<1> QED
  BY <1>1, <1>3, <1>4

\* It holds before the first turn.
LEMMA StartedIs ==
  ASSUME NEW W, IsFiniteSet(W), NamesOf(W) \subseteq Nat
  PROVE  Turned(W, Started(W)) /\ Started(W).order = <<>>
<1> DEFINE N      == NamesOf(W)
           degree == [m \in N |-> Cardinality(EdgesTo(W, m))]
           free   == {m \in N : degree[m] = 0}
           k      == Started(W)
<1>1. k.queue = Ascending(free) /\ k.degree = degree /\ k.order = <<>>
  BY DEF Started
<1> HIDE DEF k
<1>2. IsFiniteSet(N) /\ \A m : IsFiniteSet(EdgesTo(W, m))
  BY WaitsFinite
<1>3. free \in SUBSET N /\ IsFiniteSet(free)
  BY <1>2, FS_Subset
<1>4. k.queue \in Seq(free) /\ Distinct(k.queue) /\ ToSet(k.queue) = free
  BY <1>1, <1>3, AscendingDistinct
<1>5. k.queue \in Seq(N)
  BY <1>3, <1>4, SeqMonotonic
<1>6. ToSet(k.order) = {} /\ Len(k.order) = 0 /\ k.order \in Seq(N)
  BY <1>1, EmptySeq DEF ToSet
<1>7. \A m : Waits(W, m, ToSet(k.order)) = EdgesTo(W, m)
  BY <1>6 DEF Waits
<1>8. \A m \in N : EdgesTo(W, m) = {} <=> m \in free
  BY <1>2, FS_EmptySet
<1> HIDE DEF free
<1>9. \A m \in N : k.degree[m] = Cardinality(Waits(W, m, ToSet(k.order)))
  BY <1>1, <1>7
<1>10. Distinct(k.order)
  BY <1>6 DEF Distinct
<1>11. DOMAIN k.degree = N
  BY <1>1
<1>12. \A m \in N : Waits(W, m, ToSet(k.order)) = {} <=> m \in ToSet(k.order) \cup ToSet(k.queue)
  BY <1>4, <1>6, <1>7, <1>8
<1>13. \A i \in 1 .. Len(k.order) : FALSE
  BY <1>6
<1> HIDE DEF degree
<1> QED
  BY <1>1, <1>4, <1>5, <1>6, <1>9, <1>10, <1>11, <1>12, <1>13 DEF Turned, k

\* A turn keeps it, and does one module.
LEMMA TurnIs ==
  ASSUME NEW W, IsFiniteSet(W), NamesOf(W) \subseteq Nat, NEW k, Turned(W, k), k.queue # <<>>
  PROVE  Turned(W, Turn(W, k)) /\ Len(Turn(W, k).order) = Len(k.order) + 1
<1> DEFINE N    == NamesOf(W)
           n    == Head(k.queue)
           P    == ToSet(k.order)
           Q    == ToSet(k.queue)
           by(m)   == {e \in EdgesTo(W, m) : e[2] = n}
           left == [m \in DOMAIN k.degree |-> k.degree[m] - Cardinality(by(m))]
           ready == {m \in DOMAIN k.degree : k.degree[m] > 0 /\ left[m] = 0}
           t    == Turn(W, k)
<1>1. t.queue = Tail(k.queue) \o Ascending(ready) /\ t.degree = left /\ t.order = Append(k.order, n)
  BY DEF Turn
<1>2. /\ k.order \in Seq(N) /\ Distinct(k.order)
      /\ k.queue \in Seq(N) /\ Distinct(k.queue)
      /\ P \cap Q = {}
      /\ DOMAIN k.degree = N
      /\ \A m \in N : k.degree[m] = Cardinality(Waits(W, m, P))
      /\ \A m \in N : Waits(W, m, P) = {} <=> m \in P \cup Q
      /\ \A i \in 1 .. Len(k.order) : \A e \in EdgesTo(W, k.order[i]) :
           \E j \in 1 .. i - 1 : k.order[j] = e[2]
  BY DEF Turned
<1>3. /\ n \in Q /\ Tail(k.queue) \in Seq(N) /\ Distinct(Tail(k.queue))
      /\ ToSet(Tail(k.queue)) = Q \ {n}
  BY <1>2, TailDistinct
<1>4. n \in N /\ n \notin P
  BY <1>2, <1>3, HasIs
<1> HIDE DEF n, P, Q, t
<1>5. /\ t.order \in Seq(N) /\ Distinct(t.order) /\ Len(t.order) = Len(k.order) + 1
      /\ t.order[Len(k.order) + 1] = n /\ \A i \in 1 .. Len(k.order) : t.order[i] = k.order[i]
      /\ ToSet(t.order) = P \cup {n}
  BY <1>1, <1>2, <1>4, AppendDistinct DEF P
<1>6. \A m : /\ IsFiniteSet(Waits(W, m, P)) /\ by(m) \in SUBSET Waits(W, m, P)
             /\ Waits(W, m, P) \ by(m) = Waits(W, m, P \cup {n})
  <2>1. \A m : IsFiniteSet(Waits(W, m, P))
    BY WaitsFinite
  <2>2. \A m : by(m) \in SUBSET Waits(W, m, P) /\ Waits(W, m, P) \ by(m) = Waits(W, m, P \cup {n})
    BY <1>4 DEF Waits
  <2> HIDE DEF by
  <2> QED
    BY <2>1, <2>2
<1> HIDE DEF by
<1>7. \A m \in N : left[m] = Cardinality(Waits(W, m, P \cup {n}))
  <2> SUFFICES ASSUME NEW m \in N PROVE left[m] = Cardinality(Waits(W, m, P \cup {n}))
    OBVIOUS
  <2> DEFINE A == Waits(W, m, P)
             B == by(m)
  <2>1. IsFiniteSet(A) /\ B \in SUBSET A /\ A \ B = Waits(W, m, P \cup {n})
    BY <1>6
  <2>2. left[m] = Cardinality(A) - Cardinality(B)
    BY <1>2
  <2> HIDE DEF A, B, left
  <2>3. Cardinality(A \ B) = Cardinality(A) - Cardinality(A \cap B)
    BY <2>1, FS_Difference
  <2>4. A \cap B = B
    BY <2>1
  <2> QED
    BY <2>1, <2>2, <2>3, <2>4
<1>8. \A m \in N : k.degree[m] \in Nat /\ (k.degree[m] = 0 <=> m \in P \cup Q)
  <2>1. \A m \in N : Cardinality(Waits(W, m, P)) \in Nat
    BY <1>6, FS_CardinalityType
  <2>2. \A m \in N : Cardinality(Waits(W, m, P)) = 0 <=> Waits(W, m, P) = {}
    BY <1>6, FS_EmptySet
  <2> QED
    BY <1>2, <2>1, <2>2
<1>9. \A m \in N : left[m] = 0 <=> Waits(W, m, P \cup {n}) = {}
  <2>1. \A m \in N : IsFiniteSet(Waits(W, m, P \cup {n}))
    BY WaitsFinite
  <2> HIDE DEF left
  <2> QED
    BY <1>7, <2>1, FS_EmptySet
<1>10. DOMAIN left = N
  BY <1>2
<1>11. \A m \in N : m \in ready <=> m \notin P \cup Q /\ Waits(W, m, P \cup {n}) = {}
  <2> HIDE DEF left
  <2>1. \A m \in N : m \in ready <=> k.degree[m] > 0 /\ left[m] = 0
    BY <1>2
  <2> HIDE DEF ready
  <2>2. \A m \in N : k.degree[m] > 0 <=> m \notin P \cup Q
    BY <1>8
  <2> QED
    BY <1>9, <2>1, <2>2
<1>12. ready \in SUBSET N
  BY <1>2
<1> HIDE DEF left, ready
<1>13. Ascending(ready) \in Seq(N) /\ Distinct(Ascending(ready)) /\ ToSet(Ascending(ready)) = ready
  <2>1. IsFiniteSet(ready) /\ ready \in SUBSET Nat
    BY <1>12, WaitsFinite, FS_Subset
  <2>2. Ascending(ready) \in Seq(ready) /\ Distinct(Ascending(ready)) /\ ToSet(Ascending(ready)) = ready
    BY <2>1, AscendingDistinct
  <2> QED
    BY <1>12, <2>2, SeqMonotonic
<1>14. t.queue \in Seq(N) /\ Distinct(t.queue) /\ ToSet(t.queue) = (Q \ {n}) \cup ready
  <2>1. (Q \ {n}) \cap ready = {}
    BY <1>11, <1>12
  <2> DEFINE u == Tail(k.queue)
             v == Ascending(ready)
  <2>2. u \in Seq(N) /\ Distinct(u) /\ ToSet(u) = Q \ {n}
    BY <1>3
  <2>3. v \in Seq(N) /\ Distinct(v) /\ ToSet(v) = ready
    BY <1>13
  <2>4. t.queue = u \o v
    BY <1>1
  <2> HIDE DEF u, v, N
  <2>5. u \o v \in Seq(N) /\ Distinct(u \o v) /\ ToSet(u \o v) = ToSet(u) \cup ToSet(v)
    BY <2>1, <2>2, <2>3, ConcatDistinct
  <2> QED
    BY <2>2, <2>3, <2>4, <2>5
<1>15. ToSet(t.order) \cap ToSet(t.queue) = {}
  BY <1>2, <1>3, <1>5, <1>11, <1>12, <1>14
<1>16. \A m \in N : Waits(W, m, ToSet(t.order)) = {} <=> m \in ToSet(t.order) \cup ToSet(t.queue)
  <2>1. \A m : Waits(W, m, P) = {} => Waits(W, m, P \cup {n}) = {}
    BY DEF Waits
  <2>2. P \cup {n} \cup (Q \ {n}) \cup ready = P \cup Q \cup ready
    BY <1>3
  <2>3. \A m \in N : Waits(W, m, P \cup {n}) = {} <=> m \in P \cup Q \cup ready
    BY <1>2, <1>11, <2>1
  <2> QED
    BY <1>5, <1>14, <2>2, <2>3
<1>17. \A m \in N : t.degree[m] = Cardinality(Waits(W, m, ToSet(t.order)))
  BY <1>1, <1>5, <1>7
<1>18. \A i \in 1 .. Len(t.order) : \A e \in EdgesTo(W, t.order[i]) : \E j \in 1 .. i - 1 : t.order[j] = e[2]
  <2>1. Len(k.order) \in Nat /\ \A x : x \in P <=> \E j \in 1 .. Len(k.order) : k.order[j] = x
    <3>1. k.order \in Seq(N)
      BY <1>2
    <3> DEFINE s == k.order
    <3> HIDE DEF N, s
    <3>2. Len(s) \in Nat /\ \A x : x \in ToSet(s) <=> \E j \in 1 .. Len(s) : s[j] = x
      BY <3>1, HasIs DEF s
    <3> QED
      BY <3>2 DEF P, s
  <2>2. ASSUME NEW i \in 1 .. Len(k.order), NEW e \in EdgesTo(W, t.order[i])
        PROVE  \E j \in 1 .. i - 1 : t.order[j] = e[2]
    <3>1. PICK j \in 1 .. i - 1 : k.order[j] = e[2]
      BY <1>2, <1>5, <2>2
    <3>2. j \in 1 .. Len(k.order)
      BY <2>1, <2>2
    <3> QED
      BY <1>5, <3>1, <3>2
  <2>3. ASSUME NEW e \in EdgesTo(W, n) PROVE \E j \in 1 .. Len(k.order) : t.order[j] = e[2]
    <3>1. e[2] \in P
      BY <1>2, <1>3, <1>4 DEF Waits
    <3>2. PICK j \in 1 .. Len(k.order) : k.order[j] = e[2]
      BY <2>1, <3>1
    <3> QED
      BY <1>5, <3>2
  <2> SUFFICES ASSUME NEW i \in 1 .. Len(t.order), NEW e \in EdgesTo(W, t.order[i])
               PROVE  \E j \in 1 .. i - 1 : t.order[j] = e[2]
    OBVIOUS
  <2>4. i \in 1 .. Len(k.order) \/ (i = Len(k.order) + 1 /\ i - 1 = Len(k.order))
    BY <1>5, <2>1
  <2> QED
    BY <1>5, <2>2, <2>3, <2>4
<1> QED
  BY <1>1, <1>5, <1>10, <1>14, <1>15, <1>16, <1>17, <1>18 DEF Turned, t

\* What topological_order answers: the modules that depend on nothing outside the
\* answer, each once and after what it depends on.
LEMMA KahnIs ==
  ASSUME NEW W, IsFiniteSet(W), NamesOf(W) \subseteq Nat
  PROVE  /\ Kahn(W) \in Seq(NamesOf(W)) /\ Distinct(Kahn(W))
         /\ \A m \in NamesOf(W) : Waits(W, m, ToSet(Kahn(W))) = {} <=> m \in ToSet(Kahn(W))
         /\ \A i \in 1 .. Len(Kahn(W)) : \A e \in EdgesTo(W, Kahn(W)[i]) :
              \E j \in 1 .. i - 1 : Kahn(W)[j] = e[2]
<1> DEFINE N == NamesOf(W)
           c == Cardinality(N)
<1>1. IsFiniteSet(N) /\ c \in Nat
  BY WaitsFinite, FS_CardinalityType
<1>2. PICK r : /\ r[0] = Started(W)
               /\ \A i \in 0 .. c - 1 : r[i + 1] = After(W, r[i])
               /\ Kahn(W) = r[c].order
  BY <1>1, KahnTurns
<1> DEFINE J(i) == Turned(W, r[i]) /\ (r[i].queue = <<>> \/ Len(r[i].order) = i)
           S    == {i \in Nat : i > c \/ J(i)}
<1> HIDE DEF c
<1>3. 0 \in S
  BY <1>2, StartedIs
<1>4. ASSUME NEW i \in Nat, i \in S PROVE i + 1 \in S
  <2> SUFFICES ASSUME i < c PROVE J(i + 1)
    BY <1>1
  <2>1. J(i) /\ r[i + 1] = After(W, r[i])
    BY <1>1, <1>2, <1>4
  <2>2. CASE r[i].queue = <<>>
    <3>1. r[i + 1] = r[i]
      BY <2>1, <2>2 DEF After
    <3> QED
      BY <2>1, <2>2, <3>1
  <2>3. CASE r[i].queue # <<>>
    <3>1. r[i + 1] = Turn(W, r[i]) /\ Len(r[i].order) = i
      BY <2>1, <2>3 DEF After
    <3>2. Turned(W, Turn(W, r[i])) /\ Len(Turn(W, r[i]).order) = Len(r[i].order) + 1
      BY <2>1, <2>3, TurnIs
    <3> QED
      BY <3>1, <3>2
  <2> QED
    BY <2>2, <2>3
<1>5. J(c)
  <2>1. Nat \subseteq S
    <3> HIDE DEF S
    <3> QED
      BY <1>3, <1>4, NatSetInduction
  <2>2. c \in S
    BY <1>1, <2>1
  <2> QED
    BY <1>1, <2>2
<1> DEFINE k == r[c]
<1>6. Turned(W, k) /\ (k.queue = <<>> \/ Len(k.order) = c)
  BY <1>5
<1> HIDE DEF k, J, S
<1>7. Kahn(W) = k.order
  BY <1>2 DEF k
<1>8. /\ k.order \in Seq(N) /\ Distinct(k.order)
      /\ k.queue \in Seq(N) /\ Distinct(k.queue)
      /\ ToSet(k.order) \cap ToSet(k.queue) = {}
      /\ \A m \in N : Waits(W, m, ToSet(k.order)) = {} <=> m \in ToSet(k.order) \cup ToSet(k.queue)
      /\ \A i \in 1 .. Len(k.order) : \A e \in EdgesTo(W, k.order[i]) :
           \E j \in 1 .. i - 1 : k.order[j] = e[2]
  BY <1>6 DEF Turned
<1>9. ToSet(k.queue) = {}
  <2>1. CASE k.queue = <<>>
    BY <2>1 DEF ToSet
  <2>2. CASE k.queue # <<>>
    <3>1. ToSet(k.order) \in SUBSET N /\ Cardinality(ToSet(k.order)) = Cardinality(N)
      BY <1>6, <1>8, <2>2, HasIs, DistinctLen DEF c
    <3>2. ToSet(k.order) = N
      BY <1>1, <3>1, FS_Subset
    <3>3. ToSet(k.queue) \subseteq N
      BY <1>8, HasIs
    <3> QED
      BY <1>8, <3>2, <3>3
  <2> QED
    BY <2>1, <2>2
<1> QED
  BY <1>7, <1>8, <1>9

-------------------------------------------------------------------------------
(* What scan_modules answers *)

\* The modules that are read and parsed are finitely many, and their names are numbers.
LEMMA ListingsFinite ==
  ASSUME NEW sources, IsFiniteSet(DOMAIN sources)
  PROVE  /\ IsFiniteSet(Listings(sources)) /\ IsFiniteSet(Winners(Listings(sources)))
         /\ NamesOf(Winners(Listings(sources))) \subseteq Nat
<1> DEFINE I     == DOMAIN sources \ Unreadable(sources)
           M(i)  == {n \in Disk[sources[i].path] : n.depends # Broken}
           e(i, m) == [name |-> m.name, depends |-> m.depends, source |-> i, rank |-> sources[i].rank]
           at(i) == {e(i, m) : m \in M(i)}
           all   == {at(i) : i \in I}
           L     == Listings(sources)
<1>1. L = UNION all
  BY DEF Listings
<1>2. \A i \in I : sources[i].path \in Folders
  BY DEF Unreadable
<1>3. ASSUME NEW i \in I PROVE IsFiniteSet(at(i))
  <2>1. M(i) \in SUBSET Disk[sources[i].path] /\ IsFiniteSet(Disk[sources[i].path])
    BY <1>2, <1>3, AddonsAssumption
  <2>2. IsFiniteSet(M(i))
    BY <2>1, FS_Subset
  <2> DEFINE f == [m \in M(i) |-> e(i, m)]
  <2>3. f \in Surjection(M(i), at(i))
    <3> HIDE DEF M, e
    <3> QED
      BY DEF Surjection
  <2> HIDE DEF M, e, f
  <2> QED
    BY <2>2, <2>3, FS_Surjection
<1>4. IsFiniteSet(all)
  <2>1. IsFiniteSet(I)
    BY FS_Subset
  <2> DEFINE f == [i \in I |-> at(i)]
  <2> HIDE DEF at, I
  <2>2. f \in Surjection(I, all)
    BY DEF Surjection
  <2> HIDE DEF f, all
  <2> QED
    BY <2>1, <2>2, FS_Surjection
<1>5. \A l \in L : l.name \in Nat
  <2> SUFFICES ASSUME NEW i \in I, NEW m \in M(i) PROVE e(i, m).name \in Nat
    BY <1>1
  <2>1. m \in Disk[sources[i].path] /\ e(i, m).name = m.name
    OBVIOUS
  <2> QED
    BY <1>2, <2>1, AddonsAssumption
<1> HIDE DEF I, M, e, L
<1>6. IsFiniteSet(L)
  <2> HIDE DEF at
  <2>1. \A s \in all : IsFiniteSet(s)
    BY <1>3
  <2> HIDE DEF all
  <2> QED
    BY <1>1, <1>4, <2>1, FS_UNION
<1>7. Winners(L) \in SUBSET L
  BY DEF Winners
<1>8. IsFiniteSet(Winners(L))
  BY <1>6, <1>7, FS_Subset
<1>9. NamesOf(Winners(L)) \subseteq Nat
  BY <1>5, <1>7 DEF NamesOf
<1> QED
  BY <1>6, <1>8, <1>9 DEF L

\* What a module needs: what any copy that wins depends on and the scan has.
Depends(W, m) == {w.depends : w \in {v \in W : v.name = m}}
Needs(W, m)   == (UNION Depends(W, m)) \cap NamesOf(W)

\* The edges to a module are from what it needs.
LEMMA EdgesAre ==
  ASSUME NEW W, NEW m
  PROVE  /\ Needs(W, m) \subseteq NamesOf(W)
         /\ \A e \in EdgesTo(W, m) : e[2] \in Needs(W, m)
         /\ \A d \in Needs(W, m) : \E e \in EdgesTo(W, m) : e[2] = d
<1>1. \A d : d \in Needs(W, m) <=> d \in NamesOf(W) /\ \E w \in W : w.name = m /\ d \in w.depends
  <2>1. \A D : D \in Depends(W, m) <=> \E w \in W : w.name = m /\ D = w.depends
    BY DEF Depends
  <2>2. \A d : d \in Needs(W, m) <=> d \in NamesOf(W) /\ \E D \in Depends(W, m) : d \in D
    BY DEF Needs
  <2> QED
    BY <2>1, <2>2
<1>2. ASSUME NEW d \in NamesOf(W), NEW w \in W, w.name = m, d \in w.depends
      PROVE  \E e \in EdgesTo(W, m) : e[2] = d
  <2>1. <<w, d>> \in EdgesTo(W, m) /\ <<w, d>>[2] = d
    BY <1>2 DEF EdgesTo
  <2> QED
    BY <2>1
<1>3. ASSUME NEW e \in EdgesTo(W, m) PROVE e[2] \in Needs(W, m)
  <2>1. e \in W \X NamesOf(W) /\ e[1].name = m /\ e[2] \in e[1].depends
    BY DEF EdgesTo
  <2>2. e[1] \in W /\ e[2] \in NamesOf(W)
    BY <2>1
  <2> QED
    BY <1>1, <2>1, <2>2
<1> QED
  BY <1>1, <1>2, <1>3

\* The answer of scan has an order of just the modules that are in no cycle and depend on
\* none, each once and after what it needs; the others are what it reports.
LEMMA ScanIs ==
  ASSUME NEW sources, IsFiniteSet(DOMAIN sources)
  PROVE  IsOrdered(sources)
<1> DEFINE scan  == Scan(sources)
           W     == scan.winners
           N     == NamesOf(W)
           q     == scan.order
           P     == ToSet(q)
           needs == [m \in N |-> Needs(W, m)]
           at(m) == CHOOSE i \in DOMAIN q : q[i] = m
           loops == {S \in SUBSET N : \A m \in S : needs[m] \cap S # {}}
<1>1. W = Winners(Listings(sources)) /\ q = Kahn(W) /\ scan.stuck = N \ P
  BY DEF Scan
<1>2. IsFiniteSet(W) /\ N \subseteq Nat
  BY <1>1, ListingsFinite
<1> HIDE DEF scan, W
<1>3. /\ q \in Seq(N) /\ Distinct(q)
      /\ \A m \in N : Waits(W, m, P) = {} <=> m \in P
      /\ \A i \in 1 .. Len(q) : \A e \in EdgesTo(W, q[i]) : \E j \in 1 .. i - 1 : q[j] = e[2]
  <2> HIDE DEF N, q, P
  <2>1. /\ Kahn(W) \in Seq(NamesOf(W)) /\ Distinct(Kahn(W))
        /\ \A m \in NamesOf(W) : Waits(W, m, ToSet(Kahn(W))) = {} <=> m \in ToSet(Kahn(W))
        /\ \A i \in 1 .. Len(Kahn(W)) : \A e \in EdgesTo(W, Kahn(W)[i]) :
             \E j \in 1 .. i - 1 : Kahn(W)[j] = e[2]
    BY <1>2, KahnIs DEF N
  <2>2. P = ToSet(Kahn(W)) /\ N = NamesOf(W)
    BY <1>1 DEF P, N
  <2> QED
    BY <1>1, <2>1, <2>2
<1>4. \A m \in N : /\ needs[m] \subseteq N
                   /\ \A e \in EdgesTo(W, m) : e[2] \in needs[m]
                   /\ \A d \in needs[m] : \E e \in EdgesTo(W, m) : e[2] = d
  BY EdgesAre
<1> HIDE DEF q, P, needs
<1>5. /\ P \subseteq N /\ Len(q) \in Nat /\ DOMAIN q = 1 .. Len(q)
      /\ \A x : x \in P <=> \E i \in 1 .. Len(q) : q[i] = x
  BY <1>3, HasIs, LenProperties DEF P
<1>6. \A i \in 1 .. Len(q) : \A d \in needs[q[i]] : \E j \in 1 .. i - 1 : q[j] = d
  <2> SUFFICES ASSUME NEW i \in 1 .. Len(q), NEW d \in needs[q[i]] PROVE \E j \in 1 .. i - 1 : q[j] = d
    OBVIOUS
  <2>1. q[i] \in N
    BY <1>5
  <2>2. PICK e \in EdgesTo(W, q[i]) : e[2] = d
    BY <1>4, <2>1
  <2> QED
    BY <1>3, <2>2
\* What is not in the order is in a set whose members each need a member.
<1>7. N \ P \in loops
  <2> SUFFICES ASSUME NEW m \in N \ P PROVE needs[m] \cap (N \ P) # {}
    OBVIOUS
  <2>1. PICK e \in EdgesTo(W, m) : e[2] \notin P
    BY <1>3 DEF Waits
  <2>2. e[2] \in needs[m] /\ needs[m] \subseteq N
    BY <1>4, <2>1
  <2> QED
    BY <2>1, <2>2
\* In such a set, the first of the order needs one that is done earlier still.
<1>8. ASSUME NEW S \in loops PROVE S \subseteq N \ P
  <2> SUFFICES ASSUME NEW x \in S, x \in P PROVE FALSE
    OBVIOUS
  <2> DEFINE T == {i \in 1 .. Len(q) : q[i] \in S}
  <2>1. T \in SUBSET Nat /\ T # {}
    BY <1>5
  <2>2. PICK i \in T : \A j \in T : i <= j
    BY <2>1, Least
  <2>3. PICK d \in needs[q[i]] : d \in S
    BY <2>2
  <2>4. PICK j \in 1 .. i - 1 : q[j] = d
    BY <1>6, <2>2
  <2>5. j \in T /\ j < i
    BY <1>5, <2>2, <2>3, <2>4
  <2> QED
    BY <2>2, <2>5
<1>9. UNION loops = N \ P
  <2> HIDE DEF loops
  <2> QED
    BY <1>7, <1>8
<1>10. N \ (N \ P) = P
  BY <1>5
<1>11. Len(q) = Cardinality(P)
  BY <1>3, DistinctLen DEF P
<1>12. ASSUME NEW m \in P, NEW d \in needs[m] PROVE at(d) < at(m)
  <2>1. PICK i \in 1 .. Len(q) : q[i] = m
    BY <1>5
  <2>2. PICK j \in 1 .. i - 1 : q[j] = d
    BY <1>6, <1>12, <2>1
  <2>3. j \in 1 .. Len(q)
    BY <1>5, <2>1, <2>2
  <2>4. \A k \in 1 .. Len(q) : at(q[k]) = k
    BY <1>3, <1>5 DEF Distinct
  <2>5. at(m) = i /\ at(d) = j
    BY <2>1, <2>2, <2>3, <2>4
  <2> HIDE DEF at
  <2> QED
    BY <2>1, <2>2, <2>5
<1> HIDE DEF loops, at, N
<1>13. /\ scan.stuck = UNION loops
       /\ P = N \ UNION loops /\ Len(q) = Cardinality(N \ UNION loops)
       /\ \A m \in N \ UNION loops : \A d \in needs[m] : at(d) < at(m)
  BY <1>1, <1>9, <1>10, <1>11, <1>12
<1> QED
  BY <1>13 DEF IsOrdered, scan, W, N, q, P, needs, at, loops, Needs, Depends

===============================================================================
