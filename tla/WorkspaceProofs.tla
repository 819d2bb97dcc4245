---------------------------- MODULE WorkspaceProofs ----------------------------
(***************************************************************************)
(* Workspace, for any clients, folders, names and workspaces: rows refer to *)
(* what is there, Odoos are filed, copies get free ports, a request never   *)
(* reaches the wrong database, and a proposed load order holds.             *)
(***************************************************************************)
EXTENDS Workspace, AddonsProofs

-------------------------------------------------------------------------------
(* The inductive invariant *)

ServerRow   == [project: Ids \cup {None}, port: 1 .. MaxPort, cluster: Nat]
SourceRow   == [server: Nat, path: Folders \cup Offered, kind: Kinds, rank: Nat, by: Nat]
DatabaseRow == [id: Ids, name: Names, server: Nat, domain: Hostnames]
Wanted      == [path: Offered, kind: Kinds, rank: Nat]

Locs == {"idle", "insertProject", "count", "delete", "move", "storage", "register", "insertServer",
         "copyProject", "usedPorts", "listed", "copyServer", "listSources", "copySource",
         "insertSource", "taken", "adoptSource", "insertDatabase", "adoptDatabase", "drop",
         "routeServers", "clash", "writeDomain", "clearDomain",
         "requestServers", "resolve", "forward"}
Requests == {"requestServers", "resolve", "forward"}
Copies   == {"listed", "copyServer", "listSources", "copySource"}

Job == [id: Nat, project: Nat, server: Nat, port: Nat, cluster: Nat,
        database: Nat, host: Hostnames, route: Nat, seen: Nat, used: SUBSET Nat,
        todo: Seq(Nat \cup Roots), rows: Seq(SourceRow \cup Wanted \cup Names), mixed: BOOLEAN]

\* Where every variable lives.
Tables ==
  /\ projects \subseteq Ids
  /\ clusters \in Nat
  /\ servers \in Seq(ServerRow)
  /\ sources \in Seq(SourceRow)
  /\ databases \in Seq(DatabaseRow)

Calling ==
  /\ pc \in [Clients -> Locs]
  /\ job \in [Clients -> Job]
  /\ asked \in 0 .. MaxAsked /\ restarts \in 0 .. MaxRestarts
  /\ boot \in {"count", "adopt", "up"}
  /\ boot # "up" => \A c \in Clients : pc[c] = "idle"
  /\ \A c \in Clients : pc[c] = "idle" => job[c] = NoJob

\* What rows refer to is there.
References ==
  /\ \A s \in DOMAIN servers : servers[s].cluster \in 1 .. clusters
  /\ \A i \in DOMAIN sources : sources[i].server \in DOMAIN servers
  /\ \A d \in DOMAIN databases : databases[d].server \in DOMAIN servers

\* What an operation has kept by the time it is at l, with n servers and k clusters.
KeptBy(l, j, n, k) ==
  /\ l \in {"storage", "register", "insertServer"} => j.port \in 1 .. MaxPort
  /\ l = "insertServer" => j.cluster \in 1 .. k
  /\ l \in {"copyServer", "listSources", "copySource"} => j.todo \in Seq(1 .. n) /\ j.todo # <<>>
  /\ l \in {"listSources", "copySource", "insertSource", "taken", "adoptSource", "insertDatabase", "adoptDatabase"} =>
       j.server \in 1 .. n
  /\ l \in {"listSources", "copySource"} => \A i \in DOMAIN j.todo : j.todo[i] < j.server
  /\ l \in {"copySource", "adoptSource"} => j.rows \in Seq(SourceRow) /\ j.rows # <<>>
  /\ l = "adoptSource" => \A i \in DOMAIN j.rows : j.rows[i].server = j.server /\ j.rows[i].by = j.id
  /\ l = "insertSource" => j.rows \in Seq(Wanted) /\ j.rows # <<>>
  /\ l = "taken" => j.todo \in Seq(Roots)
  /\ l \in {"insertDatabase", "adoptDatabase"} => j.rows \in Seq(Names) /\ j.rows # <<>>
  /\ l \in {"routeServers", "clash", "writeDomain"} => j.host # NoHost
  /\ l \in {"routeServers", "clash", "writeDomain", "clearDomain"} => j.database \in Ids

Keeping == \A c \in Clients : KeptBy(pc[c], job[c], Len(servers), clusters)

\* A call's id is its own, and nothing has it before the call gives it.
Numbering ==
  /\ \A c \in Clients :
       /\ job[c].id <= MaxGiven + asked
       /\ pc[c] \notin Requests \cup {"idle"} => job[c].id > MaxGiven
  /\ \A c, k \in Clients : c # k /\ job[c].id = job[k].id => job[c].id = 0
  /\ \A d \in DOMAIN databases : databases[d].id <= MaxGiven + asked
  /\ \A i \in DOMAIN sources : sources[i].by <= MaxGiven + asked
  /\ \A d, e \in DOMAIN databases : databases[d].id = databases[e].id => d = e
  /\ \A c \in Clients, d \in DOMAIN databases : pc[c] \in {"insertDatabase", "adoptDatabase"} => databases[d].id # job[c].id
  /\ \A c \in Clients, i \in DOMAIN sources : pc[c] \in {"insertSource", "taken"} => sources[i].by # job[c].id

\* Every server there is when the app opens is filed, or about to be.
Filing ==
  /\ ServersAreFiled
  /\ born \in 0 .. Len(servers)
  /\ boot # "up" => born = Len(servers)
  /\ boot = "adopt" => Adopter \in projects

\* A copy that nobody disturbed knows every port there is.
Porting ==
  \A c \in Clients :
    pc[c] \in Copies /\ ~job[c].mixed => \A s \in DOMAIN servers : servers[s].port \in job[c].used

\* Who shares a hostname is on record, and a domain about to be written is nobody else's.
Hosting ==
  /\ unchecked \subseteq SUBSET Ids
  /\ \A d, e \in DOMAIN databases :
       d # e /\ Hostname(databases[d]) = Hostname(databases[e]) =>
         {databases[d].id, databases[e].id} \in unchecked
  /\ \A c \in Clients : ~job[c].mixed =>
       /\ pc[c] = "clash" => job[c].seen = Len(servers)
       /\ pc[c] = "writeDomain" =>
            \A d \in DOMAIN databases : Hostname(databases[d]) = job[c].host => databases[d].id = job[c].database

\* Of two rows of one proposal, the one with the better kind has the lower rank.
Follows(a, b) == KindRank(a.kind) < KindRank(b.kind) => a.rank < b.rank
Mates(a, b)   == a.by = b.by /\ a.by # 0

\* The folders of a proposal, the better kinds first.
Sorted(roots) == \A m, n \in DOMAIN roots : m < n => KindRank(roots[m].kind) <= KindRank(roots[n].kind)

\* j adopts the rest of a proposal, and has put its first rows into src.
Adopts(j, src) ==
  /\ \A m, n \in DOMAIN j.rows : m < n =>
       KindRank(j.rows[m].kind) <= KindRank(j.rows[n].kind) /\ j.rows[m].rank < j.rows[n].rank
  /\ \A i \in DOMAIN src : src[i].by = j.id =>
       /\ src[i].server >= j.server
       /\ \E k \in DOMAIN src : src[k].by = j.id /\ src[k].server = j.server
       /\ src[i].server = j.server =>
            \A n \in DOMAIN j.rows : /\ KindRank(src[i].kind) <= KindRank(j.rows[n].kind)
                                     /\ src[i].rank < j.rows[n].rank

\* j is about to list what its new server's original has: what others put there since
\* has no mates on older servers.
Lists(j, src) ==
  \A i, k \in DOMAIN src : src[i].server = j.server /\ Mates(src[i], src[k]) => src[k].server >= j.server

\* j copies rows of an older server.
CopiesRows(j, src) ==
  /\ \A n \in DOMAIN j.rows : /\ j.rows[n].server < j.server
                              /\ \E k \in DOMAIN src : src[k] = j.rows[n]
  /\ \A m, n \in DOMAIN j.rows : j.rows[m].server = j.rows[n].server
  /\ \A n \in DOMAIN j.rows, i \in DOMAIN src :
       src[i].server = j.server /\ Mates(src[i], j.rows[n]) =>
         Follows(src[i], j.rows[n]) /\ Follows(j.rows[n], src[i])

Adopting(c) ==
  /\ pc[c] = "taken" => Sorted(job[c].todo)
  /\ pc[c] = "adoptSource" => Adopts(job[c], sources)

Copying(c) ==
  /\ pc[c] = "listSources" => Lists(job[c], sources)
  /\ pc[c] = "copySource" => CopiesRows(job[c], sources)

InOrderOfKinds(src) ==
  \A i, k \in DOMAIN src : src[i].server = src[k].server /\ Mates(src[i], src[k]) => Follows(src[i], src[k])

Loading ==
  /\ InOrderOfKinds(sources)
  /\ \A c \in Clients : Adopting(c) /\ Copying(c)
  /\ \A c, k \in Clients :
       c # k /\ pc[c] \in {"listSources", "copySource"} /\ pc[k] \in {"listSources", "copySource"} =>
         job[c].server # job[k].server

Order == Tables /\ Calling /\ References /\ Keeping /\ Numbering /\ Filing /\ Porting /\ Hosting /\ Loading

-------------------------------------------------------------------------------
(* What a step does to the requests *)

\* Others keep their place; what they keep, up to the mark that they were disturbed.
Others(c) ==
  \A k \in Clients : k # c =>
    /\ pc'[k] = pc[k]
    /\ \/ job'[k] = job[k]
       \/ pc[k] # "idle" /\ job'[k] = [job[k] EXCEPT !.mixed = TRUE]

\* What an idle client keeps is a job like any other.
LEMMA NoJobIs ==
  NoJob \in Job
BY DEF NoJob, Job, Hostnames

\* A step of one client moves it to l with job j, and nobody else.
LEMMA StepIs ==
  ASSUME Calling, NEW c \in Clients, NEW l, NEW j, Step(c, l, j)
  PROVE  /\ pc'[c] = l /\ job'[c] = j
         /\ \A k \in Clients : k # c => pc'[k] = pc[k] /\ job'[k] = job[k]
         /\ l \in Locs => pc' \in [Clients -> Locs]
         /\ j \in Job => job' \in [Clients -> Job]
BY DEF Calling, Step

\* Going to a place is a step with the job as it was, or with none when the request is over.
LEMMA GotoIs ==
  ASSUME Calling, NEW c \in Clients, NEW l, Goto(c, l)
  PROVE  Step(c, l, IF l = "idle" THEN NoJob ELSE job[c])
BY DEF Calling, Goto, Step

\* A step that others did not see also marks whoever is under way.
LEMMA DisturbIs ==
  ASSUME Calling, NEW c \in Clients, NEW l, NEW j, Disturb(c, l, j), l = "idle" => j = NoJob
  PROVE  /\ pc'[c] = l /\ job'[c] = j
         /\ Others(c)
         /\ \A k \in Clients : k # c /\ pc[k] # "idle" => job'[k].mixed
         /\ l \in Locs => pc' \in [Clients -> Locs]
         /\ j \in Job => job' \in [Clients -> Job]
<1>1. pc' = [pc EXCEPT ![c] = l]
  BY DEF Disturb
<1>2. job' = [k \in Clients |-> IF k = c THEN j
                               ELSE IF pc[k] = "idle" THEN NoJob ELSE [job[k] EXCEPT !.mixed = TRUE]]
  BY DEF Disturb
<1>3. pc \in [Clients -> Locs] /\ job \in [Clients -> Job] /\ \A k \in Clients : pc[k] = "idle" => job[k] = NoJob
  BY DEF Calling
<1>4. \A k \in Clients : [job[k] EXCEPT !.mixed = TRUE] \in Job /\ [job[k] EXCEPT !.mixed = TRUE].mixed
  BY <1>3 DEF Job
<1>5. Others(c)
  BY <1>1, <1>2, <1>3 DEF Others
<1>6. j \in Job => job' \in [Clients -> Job]
  BY <1>2, <1>4, NoJobIs
<1> QED
  BY <1>1, <1>2, <1>3, <1>4, <1>5, <1>6

\* The steps that begin a request.
LEMMA BeginIs ==
  ASSUME Calling, NEW c \in Clients, NEW call, NEW l, NEW j \in Job, Begin(c, call, l, j)
  PROVE  /\ Step(c, l, [j EXCEPT !.id = MaxGiven + 1 + asked])
         /\ [j EXCEPT !.id = MaxGiven + 1 + asked] \in Job
         /\ boot = "up" /\ pc[c] = "idle" /\ asked' = asked + 1 /\ asked < MaxAsked
         /\ UNCHANGED <<projects, servers, sources, databases, clusters, boot, requested, restarts, born, unchecked>>
<1>1. MaxGiven + 1 + asked \in Nat
  BY WorkspaceAssumption DEF Calling
<1>2. [j EXCEPT !.id = MaxGiven + 1 + asked] \in Job
  BY <1>1 DEF Job
<1> QED
  BY <1>2 DEF Begin, tables, history

\* What the tables answer.
LEMMA SourcesOfIs ==
  ASSUME Tables, NEW s
  PROVE  /\ SourcesOf(s) \in Seq(SourceRow)
         /\ \A n \in DOMAIN SourcesOf(s) : \E i \in DOMAIN sources :
              SourcesOf(s)[n] = sources[i] /\ sources[i].server = s
         /\ \A m, n \in DOMAIN SourcesOf(s) : m <= n => SourcesOf(s)[m].rank <= SourcesOf(s)[n].rank
<1> DEFINE at     == {i \in DOMAIN sources : sources[i].server = s}
           before == {p \in at \X at :
                        \/ sources[p[1]].rank < sources[p[2]].rank
                        \/ sources[p[1]].rank = sources[p[2]].rank /\ p[1] < p[2]}
           order  == InOrder(at, before)
           rows   == SourcesOf(s)
<1>1. DOMAIN sources = 1 .. Len(sources) /\ Len(sources) \in Nat
      /\ \A i \in DOMAIN sources : sources[i] \in SourceRow
  BY LenProperties, ElementOfSeq DEF Tables
<1>2. IsFiniteSet(at) /\ at \in SUBSET Nat
  <2>1. IsFiniteSet(1 .. Len(sources)) /\ at \in SUBSET (1 .. Len(sources))
    BY <1>1, FS_Interval
  <2> QED
    BY <2>1, FS_Subset
<1>3. \A i, k \in at : <<i, k>> \in before <=>
        \/ sources[i].rank < sources[k].rank
        \/ sources[i].rank = sources[k].rank /\ i < k
  <2> HIDE DEF at
  <2> QED
    OBVIOUS
<1>4. rows = Along(sources, order)
  BY DEF SourcesOf
<1>5. \A i \in at : i \in Nat /\ sources[i].rank \in Nat /\ sources[i] \in SourceRow /\ sources[i].server = s
                    /\ i \in DOMAIN sources
  BY <1>1, <1>2 DEF SourceRow
<1> HIDE DEF at, before, rows
<1>6. StrictOrder(at, before)
  <2>1. \A x \in at : <<x, x>> \notin before
    BY <1>3, <1>5
  <2>2. \A x, y, z \in at : <<x, y>> \in before /\ <<y, z>> \in before => <<x, z>> \in before
    <3> SUFFICES ASSUME NEW x \in at, NEW y \in at, NEW z \in at, <<x, y>> \in before, <<y, z>> \in before
                 PROVE  <<x, z>> \in before
      OBVIOUS
    <3> QED
      BY <1>3, <1>5
  <2>3. \A x, y \in at : x = y \/ <<x, y>> \in before \/ <<y, x>> \in before
    <3> SUFFICES ASSUME NEW x \in at, NEW y \in at PROVE x = y \/ <<x, y>> \in before \/ <<y, x>> \in before
      OBVIOUS
    <3> QED
      BY <1>3, <1>5
  <2> QED
    BY <2>1, <2>2, <2>3 DEF StrictOrder
<1>7. Enumerates(order, at, before)
  BY <1>2, <1>6, InOrderIs
<1> HIDE DEF order
<1>8. order \in Seq(at) /\ DOMAIN order = 1 .. Len(order) /\ Len(order) \in Nat
      /\ \A n \in DOMAIN order : order[n] \in at
  BY <1>7, LenProperties, ElementOfSeq DEF Enumerates
<1>9. rows = [n \in DOMAIN order |-> sources[order[n]]]
  BY <1>4 DEF Along
<1>10. rows \in Seq(SourceRow) /\ DOMAIN rows = DOMAIN order
  <2>1. rows \in [1 .. Len(order) -> SourceRow]
    BY <1>5, <1>8, <1>9
  <2> QED
    BY <1>8, <2>1
<1>11. \A n \in DOMAIN rows : \E i \in DOMAIN sources : rows[n] = sources[i] /\ sources[i].server = s
  BY <1>5, <1>8, <1>9, <1>10
<1>12. \A m, n \in DOMAIN rows : m <= n => rows[m].rank <= rows[n].rank
  <2> SUFFICES ASSUME NEW m \in DOMAIN rows, NEW n \in DOMAIN rows, m <= n
               PROVE  sources[order[m]].rank <= sources[order[n]].rank
    BY <1>9, <1>10
  <2>1. order[m] \in at /\ order[n] \in at
    BY <1>8, <1>10
  <2>2. CASE m = n
    BY <1>5, <2>1, <2>2
  <2>3. CASE m < n
    <3>1. <<order[m], order[n]>> \in before
      BY <1>7, <1>8, <1>10, <2>3 DEF Enumerates
    <3> QED
      BY <1>3, <1>5, <2>1, <3>1
  <2> QED
    BY <1>8, <1>10, <2>2, <2>3
<1> QED
  BY <1>10, <1>11, <1>12 DEF rows

\* adopt_addons_roots numbers the new folders in the order it was given them, from
\* above every rank there is.
Proposal(rows, s, by) ==
  /\ rows \in Seq(SourceRow)
  /\ \A n \in DOMAIN rows : rows[n].server = s /\ rows[n].by = by
  /\ \A m, n \in DOMAIN rows : m < n =>
       KindRank(rows[m].kind) <= KindRank(rows[n].kind) /\ rows[m].rank < rows[n].rank

\* What adopt_addons_roots puts in is a proposal: its ranks follow the order it was given.
LEMMA RankedIs ==
  ASSUME Tables, NEW s \in Nat, NEW roots \in Seq(Roots), NEW by \in Nat,
         \A m, n \in DOMAIN roots : m < n => KindRank(roots[m].kind) <= KindRank(roots[n].kind)
  PROVE  Proposal(Ranked(s, roots, by), s, by)
<1> DEFINE rows  == SourcesOf(s)
           taken == {rows[i].path : i \in DOMAIN rows}
           I     == {i \in DOMAIN roots : roots[i].path \notin taken}
           first == IF rows = <<>> THEN 0 ELSE rows[Len(rows)].rank + 1
           new   == Picked(roots, I)
           all   == Ranked(s, roots, by)
<1>1. rows \in Seq(SourceRow)
  BY SourcesOfIs
<1>2. first \in Nat
  <2>1. CASE rows = <<>>
    BY <2>1
  <2>2. CASE rows # <<>>
    <3> HIDE DEF rows
    <3>1. Len(rows) \in DOMAIN rows
      BY <1>1, <2>2, LenProperties, EmptySeq
    <3>2. rows[Len(rows)] \in SourceRow
      BY <1>1, <3>1, ElementOfSeq, LenProperties
    <3> QED
      BY <2>2, <3>2 DEF SourceRow
  <2> QED
    BY <2>1, <2>2
<1>3. all = [i \in DOMAIN new |-> Row(s, new[i], first + i - 1, by)]
  BY DEF Ranked
<1>4. I \in SUBSET (DOMAIN roots)
  OBVIOUS
<1> HIDE DEF I, first
<1>5. /\ new \in Seq(Roots)
      /\ \A m, n \in DOMAIN new : m < n =>
           \E i, k \in I : i < k /\ new[m] = roots[i] /\ new[n] = roots[k]
  BY <1>4, PickedIs
<1> HIDE DEF new, all
<1>6. DOMAIN new = 1 .. Len(new) /\ Len(new) \in Nat /\ \A n \in DOMAIN new : new[n] \in Roots
  BY <1>5, LenProperties, ElementOfSeq
<1>7. \A n \in DOMAIN new : Row(s, new[n], first + n - 1, by) \in SourceRow
  <2> SUFFICES ASSUME NEW n \in DOMAIN new PROVE Row(s, new[n], first + n - 1, by) \in SourceRow
    OBVIOUS
  <2>1. n \in Nat /\ n >= 1
    BY <1>6
  <2>2. first + n - 1 \in Nat
    BY <1>2, <2>1
  <2>3. new[n].path \in Folders /\ new[n].kind \in Kinds
    BY <1>6 DEF Roots
  <2> QED
    BY <2>2, <2>3 DEF Row, SourceRow
<1>8. all \in Seq(SourceRow) /\ DOMAIN all = DOMAIN new
  <2>1. all \in [1 .. Len(new) -> SourceRow]
    BY <1>3, <1>6, <1>7
  <2> QED
    BY <1>6, <2>1
<1>9. \A n \in DOMAIN all : /\ all[n].server = s /\ all[n].by = by
                            /\ all[n].kind = new[n].kind /\ all[n].rank = first + n - 1
  BY <1>3, <1>8 DEF Row
<1>10. \A m, n \in DOMAIN all : m < n =>
         KindRank(all[m].kind) <= KindRank(all[n].kind) /\ all[m].rank < all[n].rank
  <2> SUFFICES ASSUME NEW m \in DOMAIN all, NEW n \in DOMAIN all, m < n
               PROVE  KindRank(all[m].kind) <= KindRank(all[n].kind) /\ all[m].rank < all[n].rank
    OBVIOUS
  <2>1. PICK i \in I, k \in I : i < k /\ new[m] = roots[i] /\ new[n] = roots[k]
    BY <1>5, <1>8
  <2>2. KindRank(new[m].kind) <= KindRank(new[n].kind)
    BY <1>4, <2>1
  <2>3. first + m - 1 < first + n - 1
    BY <1>2, <1>6, <1>8
  <2> QED
    BY <1>9, <2>2, <2>3
<1> QED
  BY <1>8, <1>9, <1>10 DEF all, Proposal

-------------------------------------------------------------------------------
(* The tables *)

\* A suggested port is a port, and a free one unless it is the last there is.
LEMMA NextFreePortIs ==
  ASSUME NEW preferred \in 1 .. MaxPort, NEW used
  PROVE  /\ NextFreePort(preferred, used) \in 1 .. MaxPort
         /\ NextFreePort(preferred, used) = MaxPort \/ NextFreePort(preferred, used) \notin used
<1> DEFINE free == {p \in preferred .. MaxPort : p \notin used} \cup {MaxPort}
<1>1. MaxPort \in Nat /\ preferred \in Nat /\ preferred >= 1 /\ preferred <= MaxPort
  BY WorkspaceAssumption
<1>2. free \in SUBSET Nat /\ free # {} /\ free \subseteq 1 .. MaxPort
  BY <1>1
<1>3. \A p \in free : p = MaxPort \/ p \notin used
  OBVIOUS
<1>4. NextFreePort(preferred, used) = CHOOSE p \in free : \A q \in free : p <= q
  BY DEF NextFreePort
<1> HIDE DEF free
<1>5. NextFreePort(preferred, used) \in free
  BY <1>2, <1>4, Least
<1> QED
  BY <1>2, <1>3, <1>5

\* Rows of servers change their project in place.
LEMMA RefiledIs ==
  ASSUME Tables, NEW new, DOMAIN new = DOMAIN servers,
         \A s \in DOMAIN servers :
           new[s] = servers[s] \/ \E p \in Ids \cup {None} : new[s] = [servers[s] EXCEPT !.project = p],
         new = [s \in DOMAIN servers |-> new[s]]
  PROVE  new \in Seq(ServerRow) /\ Len(new) = Len(servers)
<1>1. DOMAIN servers = 1 .. Len(servers) /\ Len(servers) \in Nat
      /\ \A s \in DOMAIN servers : servers[s] \in ServerRow
  BY LenProperties, ElementOfSeq DEF Tables
<1>2. \A s \in DOMAIN servers : new[s] \in ServerRow
  BY <1>1 DEF ServerRow
<1>3. new \in [1 .. Len(servers) -> ServerRow]
  BY <1>1, <1>2
<1> QED
  BY <1>1, <1>3

\* Moving an Odoo to a project changes nothing else of any row.
LEMMA MoveIs ==
  ASSUME Tables, NEW c \in Clients, Move(c)
  PROVE  /\ servers' \in Seq(ServerRow) /\ Len(servers') = Len(servers)
         /\ \A s \in DOMAIN servers :
              /\ servers'[s].port = servers[s].port /\ servers'[s].cluster = servers[s].cluster
              /\ servers'[s].project = servers[s].project \/ servers'[s].project \in projects
<1>1. DOMAIN servers = 1 .. Len(servers) /\ \A s \in DOMAIN servers : servers[s] \in ServerRow
  BY LenProperties, ElementOfSeq DEF Tables
<1>2. CASE UNCHANGED servers
  BY <1>1, <1>2 DEF Tables
<1>3. CASE job[c].project \in projects /\ servers' = [servers EXCEPT ![job[c].server].project = job[c].project]
  <2> DEFINE new == [servers EXCEPT ![job[c].server].project = job[c].project]
  <2>1. \A s \in DOMAIN servers :
          new[s] = servers[s] \/ new[s] = [servers[s] EXCEPT !.project = job[c].project]
    OBVIOUS
  <2>2. DOMAIN new = DOMAIN servers /\ new = [s \in DOMAIN servers |-> new[s]]
    OBVIOUS
  <2>3. job[c].project \in Ids \cup {None}
    BY <1>3 DEF Tables
  <2> HIDE DEF new
  <2>4. new \in Seq(ServerRow) /\ Len(new) = Len(servers)
    BY <2>1, <2>2, <2>3, RefiledIs
  <2>5. servers' = new
    BY <1>3 DEF new
  <2>6. \A s \in DOMAIN servers : servers'[s].port = servers[s].port /\ servers'[s].cluster = servers[s].cluster
    BY <1>1, <2>1, <2>5 DEF ServerRow
  <2>7. \A s \in DOMAIN servers : servers'[s].project = servers[s].project \/ servers'[s].project \in projects
    BY <1>1, <1>3, <2>1, <2>5 DEF ServerRow
  <2> QED
    BY <2>4, <2>5, <2>6, <2>7
<1> QED
  BY <1>2, <1>3 DEF Move

\* Filing the orphans changes nothing but their project.
LEMMA AdoptOrphansIs ==
  ASSUME Tables, AdoptOrphans, Adopter \in Ids
  PROVE  /\ servers' \in Seq(ServerRow) /\ Len(servers') = Len(servers)
         /\ \A s \in DOMAIN servers :
              /\ servers'[s].port = servers[s].port /\ servers'[s].cluster = servers[s].cluster
              /\ servers'[s].project = IF servers[s].project = None THEN Adopter ELSE servers[s].project
<1>1. DOMAIN servers = 1 .. Len(servers) /\ \A s \in DOMAIN servers : servers[s] \in ServerRow
  BY LenProperties, ElementOfSeq DEF Tables
<1> DEFINE new == [s \in DOMAIN servers |->
                     IF servers[s].project = None
                     THEN [servers[s] EXCEPT !.project = Adopter] ELSE servers[s]]
<1>2. servers' = new
  BY DEF AdoptOrphans
<1>3. \A s \in DOMAIN servers :
        new[s] = IF servers[s].project = None THEN [servers[s] EXCEPT !.project = Adopter] ELSE servers[s]
  OBVIOUS
<1>4. DOMAIN new = DOMAIN servers /\ new = [s \in DOMAIN servers |-> new[s]]
  OBVIOUS
<1> HIDE DEF new
<1>5. new \in Seq(ServerRow) /\ Len(new) = Len(servers)
  BY <1>3, <1>4, RefiledIs
<1> QED
  BY <1>1, <1>2, <1>3, <1>5 DEF ServerRow

\* A new Odoo is one row more, with what the request had kept for it.
LEMMA InsertServerIs ==
  ASSUME Tables, Calling, Keeping, NEW c \in Clients, InsertServer(c), job[c].project \in projects \cup {None}
  PROVE  /\ servers' \in Seq(ServerRow) /\ Len(servers') = Len(servers) + 1
         /\ \A s \in DOMAIN servers : servers'[s] = servers[s]
         /\ servers'[Len(servers) + 1].project = job[c].project
         /\ servers'[Len(servers) + 1].cluster \in 1 .. clusters
<1> DEFINE new == [project |-> job[c].project, port |-> job[c].port, cluster |-> job[c].cluster]
<1>1. job[c].port \in 1 .. MaxPort /\ job[c].cluster \in 1 .. clusters
  BY DEF InsertServer, Keeping, KeptBy
<1>2. clusters \in Nat
  BY DEF Tables
<1>3. new \in ServerRow
  BY <1>1, <1>2 DEF ServerRow, Tables
<1>4. servers' = Append(servers, new)
  BY DEF InsertServer
<1>5. new.project = job[c].project /\ new.cluster = job[c].cluster
  OBVIOUS
<1> HIDE DEF new
<1>6. /\ servers' \in Seq(ServerRow) /\ Len(servers') = Len(servers) + 1
      /\ \A s \in DOMAIN servers : servers'[s] = servers[s]
      /\ servers'[Len(servers) + 1] = new
  BY <1>3, <1>4, AppendProperties, LenProperties DEF Tables
<1> QED
  BY <1>1, <1>5, <1>6

\* A copy of an Odoo is one row more, on the cluster of its original, with a port that was
\* free when the ports were read, unless it is the last.
LEMMA CopyServerIs ==
  ASSUME Tables, Calling, Keeping, NEW c \in Clients, CopyServer(c), job[c].id \in projects
  PROVE  LET port == NextFreePort(servers[Head(job[c].todo)].port, job[c].used) IN
         /\ servers' \in Seq(ServerRow) /\ Len(servers') = Len(servers) + 1
         /\ \A s \in DOMAIN servers : servers'[s] = servers[s]
         /\ servers'[Len(servers) + 1].project = job[c].id
         /\ Head(job[c].todo) \in DOMAIN servers
         /\ servers'[Len(servers) + 1].cluster = servers[Head(job[c].todo)].cluster
         /\ servers'[Len(servers) + 1].port = port
         /\ port \in 1 .. MaxPort
         /\ port = MaxPort \/ port \notin job[c].used
         /\ Disturb(c, "listSources", [job[c] EXCEPT !.used = @ \cup {port}, !.server = Len(servers) + 1])
<1> DEFINE old  == servers[Head(job[c].todo)]
           port == NextFreePort(old.port, job[c].used)
           new  == [project |-> job[c].id, port |-> port, cluster |-> old.cluster]
<1>1. DOMAIN servers = 1 .. Len(servers) /\ \A s \in DOMAIN servers : servers[s] \in ServerRow
  BY LenProperties, ElementOfSeq DEF Tables
<1>2. job[c].todo \in Seq(1 .. Len(servers)) /\ job[c].todo # <<>>
  BY DEF CopyServer, Keeping, KeptBy
<1>3. Head(job[c].todo) \in DOMAIN servers
  BY <1>1, <1>2, HeadTailProperties
<1>4. old.port \in 1 .. MaxPort /\ old.cluster \in Nat
  BY <1>1, <1>3 DEF ServerRow
<1>5. port \in 1 .. MaxPort /\ (port = MaxPort \/ port \notin job[c].used)
  BY <1>4, NextFreePortIs
<1>6. servers' = Append(servers, new)
  BY DEF CopyServer
<1>7. Disturb(c, "listSources", [job[c] EXCEPT !.used = @ \cup {port}, !.server = Len(servers) + 1])
  BY DEF CopyServer, UsedAfter
<1> HIDE DEF old, port
<1>8. new \in ServerRow
  BY <1>4, <1>5 DEF ServerRow, Tables
<1>9. new.project = job[c].id /\ new.cluster = old.cluster /\ new.port = port
  OBVIOUS
<1> HIDE DEF new
<1>10. /\ servers' \in Seq(ServerRow) /\ Len(servers') = Len(servers) + 1
       /\ \A s \in DOMAIN servers : servers'[s] = servers[s]
       /\ servers'[Len(servers) + 1] = new
  BY <1>6, <1>8, AppendProperties, LenProperties DEF Tables
<1> QED
  BY <1>3, <1>5, <1>7, <1>9, <1>10 DEF old, port

\* A row more.
More(new, old, x) ==
  /\ Len(new) = Len(old) + 1
  /\ \A i \in DOMAIN old : i \in DOMAIN new /\ new[i] = old[i]
  /\ \A i \in DOMAIN new : i \in DOMAIN old \/ i = Len(old) + 1
  /\ Len(old) + 1 \in DOMAIN new /\ Len(old) + 1 \notin DOMAIN old
  /\ new[Len(old) + 1] = x

\* Appending a row gives a row more.
LEMMA AppendIs ==
  ASSUME NEW T, NEW seq \in Seq(T), NEW x \in T
  PROVE  Append(seq, x) \in Seq(T) /\ More(Append(seq, x), seq, x)
<1>1. Len(seq) \in Nat /\ DOMAIN seq = 1 .. Len(seq)
  BY LenProperties
<1>2. Append(seq, x) \in Seq(T) /\ Len(Append(seq, x)) = Len(seq) + 1
      /\ (\A i \in 1 .. Len(seq) : Append(seq, x)[i] = seq[i]) /\ Append(seq, x)[Len(seq) + 1] = x
  BY AppendProperties
<1>3. DOMAIN Append(seq, x) = 1 .. Len(seq) + 1
  BY <1>2, LenProperties
<1> QED
  BY <1>1, <1>2, <1>3 DEF More

\* The copy of a source differs from it in its server only.
LEMMA MovedRow ==
  ASSUME NEW x \in SourceRow, NEW s \in Nat
  PROVE  LET y == [x EXCEPT !.server = s] IN
         /\ y \in SourceRow /\ y.server = s
         /\ y.path = x.path /\ y.kind = x.kind /\ y.rank = x.rank /\ y.by = x.by
BY DEF SourceRow

\* A step of the copy puts the first of its rows under the new server.
LEMMA CopySourceIs ==
  ASSUME Tables, Calling, Keeping, NEW c \in Clients, CopySource(c)
  PROVE  /\ sources' \in Seq(SourceRow)
         /\ More(sources', sources, [job[c].rows[1] EXCEPT !.server = job[c].server])
         /\ job[c].rows[1] \in SourceRow /\ 1 \in DOMAIN job[c].rows /\ Head(job[c].rows) = job[c].rows[1]
<1> DEFINE j == job[c]
<1>1. j.rows \in Seq(SourceRow) /\ j.rows # <<>> /\ j.server \in 1 .. Len(servers)
  BY DEF CopySource, Keeping, KeptBy
<1>2. Head(j.rows) = j.rows[1] /\ Head(j.rows) \in SourceRow /\ 1 \in DOMAIN j.rows
  BY <1>1, HeadTailProperties, EmptySeq, LenProperties
<1>3. [j.rows[1] EXCEPT !.server = j.server] \in SourceRow
  BY <1>1, <1>2, MovedRow
<1>4. sources' = Append(sources, [j.rows[1] EXCEPT !.server = j.server])
  BY <1>2 DEF CopySource
<1> HIDE DEF j
<1>5. sources' \in Seq(SourceRow) /\ More(sources', sources, [j.rows[1] EXCEPT !.server = j.server])
  BY <1>3, <1>4, AppendIs DEF Tables
<1> QED
  BY <1>2, <1>5 DEF j

\* A source that is registered alone carries the id of its request.
LEMMA InsertSourceIs ==
  ASSUME Tables, Calling, Keeping, NEW c \in Clients, InsertSource(c)
  PROVE  /\ sources' \in Seq(SourceRow)
         /\ \E x \in SourceRow : /\ x.by = job[c].id /\ x.server = job[c].server
                                 /\ More(sources', sources, x)
<1> DEFINE j == job[c]
           x == Row(j.server, Head(j.rows), Head(j.rows).rank, j.id)
<1>1. j.rows \in Seq(Wanted) /\ j.rows # <<>> /\ j.server \in 1 .. Len(servers) /\ j.id \in Nat
  BY DEF InsertSource, Keeping, KeptBy, Calling, Job
<1>2. Head(j.rows) \in Wanted
  BY <1>1, HeadTailProperties
<1>3. x \in SourceRow /\ x.by = j.id /\ x.server = j.server
  BY <1>1, <1>2 DEF SourceRow, Wanted, Row
<1>4. sources' = Append(sources, x)
  BY DEF InsertSource
<1> HIDE DEF x
<1> QED
  BY <1>3, <1>4, AppendIs DEF Tables

\* A step of an adoption puts in the first of its rows.
LEMMA AdoptSourceIs ==
  ASSUME Tables, Calling, Keeping, NEW c \in Clients, AdoptSource(c)
  PROVE  /\ sources' \in Seq(SourceRow)
         /\ More(sources', sources, job[c].rows[1])
         /\ job[c].rows[1] \in SourceRow /\ 1 \in DOMAIN job[c].rows
<1>1. job[c].rows \in Seq(SourceRow) /\ job[c].rows # <<>>
  BY DEF AdoptSource, Keeping, KeptBy
<1>2. Head(job[c].rows) = job[c].rows[1] /\ Head(job[c].rows) \in SourceRow /\ 1 \in DOMAIN job[c].rows
  BY <1>1, HeadTailProperties, EmptySeq, LenProperties
<1>3. sources' = Append(sources, job[c].rows[1])
  BY <1>2 DEF AdoptSource
<1> QED
  BY <1>2, <1>3, AppendIs DEF Tables

\* The row that a new database gets, unless its name is taken on the cluster.
LEMMA InsertDatabaseIs ==
  ASSUME Tables, Calling, Keeping, Numbering, NEW c \in Clients, InsertDatabase(c), ~UNCHANGED databases
  PROVE  /\ databases' \in Seq(DatabaseRow)
         /\ \E x \in DatabaseRow : /\ x.id = job[c].id /\ x.server = job[c].server
                                   /\ More(databases', databases, x)
         /\ unchecked' = unchecked \cup PairsOf(job[c].id)
         /\ Disturb(c, "idle", NoJob)
<1> DEFINE j == job[c]
           x == [id |-> j.id, name |-> Head(j.rows), server |-> j.server, domain |-> NoHost]
<1>1. j.rows \in Seq(Names) /\ j.rows # <<>> /\ j.server \in 1 .. Len(servers)
  BY DEF InsertDatabase, Keeping, KeptBy
<1>2. j.id \in Ids
  <2>1. j.id \in Nat /\ asked \in 0 .. MaxAsked
    BY DEF Calling, Job
  <2>2. j.id <= MaxGiven + asked /\ j.id > MaxGiven
    BY DEF Numbering, InsertDatabase, Requests
  <2> QED
    BY <2>1, <2>2, WorkspaceAssumption DEF Ids
<1>3. x \in DatabaseRow
  <2>1. Head(j.rows) \in Names
    BY <1>1, HeadTailProperties
  <2>2. j.server \in Nat
    BY <1>1
  <2> QED
    BY <1>2, <2>1, <2>2 DEF DatabaseRow, Hostnames
<1>4. x.id = j.id /\ x.server = j.server
  OBVIOUS
<1>5. /\ databases' = Append(databases, x)
      /\ unchecked' = unchecked \cup PairsOf(j.id) /\ Disturb(c, "idle", NoJob)
  BY DEF InsertDatabase
<1> HIDE DEF x
<1> QED
  BY <1>3, <1>4, <1>5, AppendIs DEF Tables

\* Databases that remain are as they were.
LEMMA DropDatabaseIs ==
  ASSUME Tables, NEW c \in Clients, DropDatabase(c)
  PROVE  /\ databases' \in Seq(DatabaseRow)
         /\ \A n \in DOMAIN databases' : \E i \in DOMAIN databases : databases'[n] = databases[i]
         /\ \A m, n \in DOMAIN databases' : m # n =>
              \E i, k \in DOMAIN databases : i # k /\ databases'[m] = databases[i] /\ databases'[n] = databases[k]
<1> DEFINE I == {d \in DOMAIN databases : databases[d].id # job[c].database}
<1>1. I \in SUBSET (DOMAIN databases) /\ databases \in Seq(DatabaseRow)
  BY DEF Tables
<1>2. databases' = Picked(databases, I)
  BY DEF DropDatabase
<1> HIDE DEF I
<1>3. /\ databases' \in Seq(DatabaseRow)
      /\ \A n \in DOMAIN databases' : \E i \in I : databases'[n] = databases[i]
      /\ \A m, n \in DOMAIN databases' : m < n =>
           \E i, k \in I : i < k /\ databases'[m] = databases[i] /\ databases'[n] = databases[k]
  BY <1>1, <1>2, PickedIs
<1>4. \A m, n \in DOMAIN databases' : m # n =>
         \E i, k \in DOMAIN databases : i # k /\ databases'[m] = databases[i] /\ databases'[n] = databases[k]
  <2> SUFFICES ASSUME NEW m \in DOMAIN databases', NEW n \in DOMAIN databases', m # n
               PROVE  \E i, k \in DOMAIN databases :
                        i # k /\ databases'[m] = databases[i] /\ databases'[n] = databases[k]
    OBVIOUS
  <2>1. m \in Int /\ n \in Int
    BY <1>3, LenProperties
  <2>2. \A i \in I : i \in DOMAIN databases /\ i \in Int
    BY <1>1, LenProperties
  <2>3. CASE m < n
    <3>1. PICK i \in I, k \in I : i < k /\ databases'[m] = databases[i] /\ databases'[n] = databases[k]
      BY <1>3, <2>3
    <3> QED
      BY <2>2, <3>1
  <2>4. CASE n < m
    <3>1. PICK i \in I, k \in I : i < k /\ databases'[n] = databases[i] /\ databases'[m] = databases[k]
      BY <1>3, <2>4
    <3> QED
      BY <2>2, <3>1
  <2> QED
    BY <2>1, <2>3, <2>4
<1> QED
  BY <1>1, <1>3, <1>4

\* Setting a domain changes nothing else of any row.
LEMMA SetDomainIs ==
  ASSUME Tables, NEW id, NEW host \in Hostnames, SetDomain(id, host)
  PROVE  /\ databases' \in Seq(DatabaseRow) /\ DOMAIN databases' = DOMAIN databases
         /\ \A d \in DOMAIN databases :
              /\ databases'[d].id = databases[d].id /\ databases'[d].server = databases[d].server
              /\ databases'[d].name = databases[d].name
              /\ databases'[d].domain = IF databases[d].id = id THEN host ELSE databases[d].domain
<1>1. DOMAIN databases = 1 .. Len(databases) /\ Len(databases) \in Nat
      /\ \A d \in DOMAIN databases : databases[d] \in DatabaseRow
  BY LenProperties, ElementOfSeq DEF Tables
<1>2. databases' = [d \in DOMAIN databases |->
                     IF databases[d].id = id THEN [databases[d] EXCEPT !.domain = host] ELSE databases[d]]
  BY DEF SetDomain
<1>3. \A d \in DOMAIN databases : databases'[d] \in DatabaseRow
  BY <1>1, <1>2 DEF DatabaseRow
<1>4. databases' \in [1 .. Len(databases) -> DatabaseRow]
  BY <1>1, <1>2, <1>3
<1>5. databases' \in Seq(DatabaseRow)
  BY <1>1, <1>4
<1>6. \A d \in DOMAIN databases :
         /\ databases'[d].id = databases[d].id /\ databases'[d].server = databases[d].server
         /\ databases'[d].name = databases[d].name
         /\ databases'[d].domain = IF databases[d].id = id THEN host ELSE databases[d].domain
  BY <1>1, <1>2 DEF DatabaseRow
<1> QED
  BY <1>1, <1>4, <1>5, <1>6

-------------------------------------------------------------------------------
(* The steps, by what they touch *)

Begins(c) ==
  \/ BeginCreateProject(c) \/ BeginDeleteProject(c) \/ BeginMove(c) \/ BeginCreateServer(c)
  \/ BeginDuplicate(c) \/ BeginAddSource(c) \/ BeginAdoptRoots(c) \/ BeginInsertDatabase(c)
  \/ BeginDropDatabase(c) \/ BeginSetDomain(c)

\* No table changes.
Reads(c) ==
  \/ CountServers(c) \/ EnsureStorage(c) \/ UsedPorts(c) \/ ListServers(c) \/ ListSources(c)
  \/ TakenPaths(c) \/ RouteServers(c) \/ CheckClash(c) \/ RequestServers(c) \/ Resolve(c) \/ Forward(c)

FilesProjects(c) == InsertProject(c) \/ DeleteProject(c) \/ CopyProject(c)
FilesServers(c)  == Move(c) \/ InsertServer(c) \/ CopyServer(c)
FilesSources(c)  == CopySource(c) \/ InsertSource(c) \/ AdoptSource(c)
FilesDatabases(c) == InsertDatabase(c) \/ DropDatabase(c) \/ WriteDomain(c) \/ ClearDomain(c)

Writes(c) ==
  FilesProjects(c) \/ FilesServers(c) \/ RegisterStorage(c) \/ FilesSources(c) \/ FilesDatabases(c)

\* A step of a request begins it, reads a table or writes one.
LEMMA HandlerCases ==
  ASSUME NEW c, Handler(c)
  PROVE  Begins(c) \/ BeginRequest(c) \/ Reads(c) \/ Writes(c)
BY DEF Handler, Begins, Reads, Writes, FilesProjects, FilesServers, FilesSources, FilesDatabases

\* The beginning of a call touches no table.
LEMMA BeginsLeave ==
  ASSUME NEW c, Begins(c)
  PROVE  UNCHANGED <<projects, servers, sources, databases, clusters, boot, requested, restarts, born, unchecked>>
         /\ boot = "up" /\ pc[c] = "idle" /\ asked < MaxAsked /\ asked' = asked + 1
BY DEF Begins, BeginCreateProject, BeginDeleteProject, BeginMove, BeginCreateServer,
   BeginDuplicate, BeginAddSource, BeginAdoptRoots, BeginInsertDatabase,
   BeginDropDatabase, BeginSetDomain, Begin, tables, history

\* A step that reads leaves the tables and the counters alone.
LEMMA ReadsLeave ==
  ASSUME NEW c, Reads(c)
  PROVE  UNCHANGED <<projects, servers, sources, databases, clusters, asked, boot, requested, restarts, born, unchecked>>
         /\ pc[c] # "idle"
BY DEF Reads, CountServers, EnsureStorage, UsedPorts, ListServers, ListSources,
   TakenPaths, RouteServers, CheckClash, RequestServers, Resolve, Forward, tables, history

\* A step that writes one table leaves the others alone.
LEMMA WritesLeave ==
  ASSUME NEW c, Writes(c)
  PROVE  /\ UNCHANGED <<asked, boot, requested, restarts, born>> /\ pc[c] # "idle"
         /\ FilesProjects(c) => UNCHANGED <<servers, sources, databases, clusters, unchecked>>
         /\ FilesServers(c) => UNCHANGED <<projects, sources, databases, clusters, unchecked>>
         /\ RegisterStorage(c) => UNCHANGED <<projects, servers, sources, databases, unchecked>>
         /\ FilesSources(c) => UNCHANGED <<projects, servers, databases, clusters, unchecked>>
         /\ FilesDatabases(c) => UNCHANGED <<projects, servers, sources, clusters>>
<1>1. FilesProjects(c) => UNCHANGED <<servers, sources, databases, clusters, asked, history>> /\ pc[c] # "idle"
  BY DEF FilesProjects, InsertProject, DeleteProject, CopyProject
<1>2. FilesServers(c) => UNCHANGED <<projects, sources, databases, clusters, asked, history>> /\ pc[c] # "idle"
  BY DEF FilesServers, Move, InsertServer, CopyServer
<1>3. RegisterStorage(c) => UNCHANGED <<projects, servers, sources, databases, asked, history>> /\ pc[c] # "idle"
  BY DEF RegisterStorage
<1>4. FilesSources(c) => UNCHANGED <<projects, servers, databases, clusters, asked, history>> /\ pc[c] # "idle"
  BY DEF FilesSources, CopySource, InsertSource, AdoptSource
<1>5. FilesDatabases(c) => UNCHANGED <<projects, servers, sources, clusters, asked, boot, requested, restarts, born>>
                           /\ pc[c] # "idle"
  BY DEF FilesDatabases, InsertDatabase, DropDatabase, WriteDomain, ClearDomain
<1> QED
  BY <1>1, <1>2, <1>3, <1>4, <1>5 DEF Writes, history

-------------------------------------------------------------------------------
(* The tables keep their types, and nothing that is referred to goes *)

\* The project that is made for the orphans has an id.
LEMMA AdopterIs ==
  ASSUME Calling
  PROVE  Adopter \in Ids /\ Adopter # None
<1>1. restarts \in Nat /\ restarts <= MaxRestarts
  BY WorkspaceAssumption DEF Calling
<1> QED
  BY <1>1, WorkspaceAssumption DEF Adopter, Ids, None

\* A call that is under way has an id above those of the workspace it found.
LEMMA OwnId ==
  ASSUME Calling, Numbering, NEW c \in Clients, pc[c] \notin Requests \cup {"idle"}
  PROVE  job[c].id \in Ids /\ job[c].id > MaxGiven /\ job[c].id # 0 /\ job[c].id \in Nat
<1>1. job[c].id \in Nat /\ asked \in 0 .. MaxAsked
  BY DEF Calling, Job
<1>2. job[c].id <= MaxGiven + asked /\ job[c].id > MaxGiven
  BY DEF Numbering
<1> QED
  BY <1>1, <1>2, WorkspaceAssumption DEF Ids

Grows == Len(servers) <= Len(servers') /\ clusters <= clusters'

\* Rows keep their types, and neither servers nor clusters are ever fewer.
LEMMA NextTables ==
  ASSUME Order, [Next]_vars
  PROVE  Tables' /\ Grows
<1> USE DEF Order
<1>0. clusters \in Nat /\ Len(servers) \in Nat
  BY LenProperties DEF Tables
<1>1. CASE UNCHANGED <<projects, servers, sources, databases, clusters>>
  BY <1>0, <1>1 DEF Tables, Grows
<1>2. CASE CountOrphans
  BY <1>0, <1>2, AdopterIs DEF Tables, Grows, CountOrphans
<1>3. CASE AdoptOrphans
  BY <1>0, <1>3, AdopterIs, AdoptOrphansIs DEF Tables, Grows, AdoptOrphans
<1>4. ASSUME NEW c \in Clients, FilesProjects(c) PROVE Tables' /\ Grows
  <2>1. UNCHANGED <<servers, sources, databases, clusters>>
    BY <1>4, WritesLeave DEF Writes
  <2>2. projects' \subseteq Ids
    <3>1. InsertProject(c) \/ CopyProject(c) => pc[c] \notin Requests \cup {"idle"}
      BY DEF InsertProject, CopyProject, Requests
    <3>2. InsertProject(c) \/ CopyProject(c) => job[c].id \in Ids
      BY <3>1, OwnId
    <3> QED
      BY <1>4, <3>2 DEF FilesProjects, InsertProject, CopyProject, DeleteProject, Tables
  <2> QED
    BY <1>0, <2>1, <2>2 DEF Tables, Grows
<1>5. ASSUME NEW c \in Clients, FilesServers(c) PROVE Tables' /\ Grows
  <2>1. UNCHANGED <<projects, sources, databases, clusters>>
    BY <1>5, WritesLeave DEF Writes
  <2>2. servers' \in Seq(ServerRow) /\ Len(servers) <= Len(servers')
    <3>1. CASE Move(c)
      BY <1>0, <3>1, MoveIs
    <3>2. CASE InsertServer(c)
      <4>1. CASE job[c].project \in projects \cup {None}
        <5>1. servers' \in Seq(ServerRow) /\ Len(servers') = Len(servers) + 1
          BY <3>2, <4>1, InsertServerIs
        <5> QED
          BY <1>0, <5>1
      <4>2. CASE job[c].project \notin projects \cup {None}
        BY <1>0, <3>2, <4>2 DEF InsertServer, Tables
      <4> QED
        BY <4>1, <4>2
    <3>3. CASE CopyServer(c)
      <4>1. CASE job[c].id \in projects
        <5>1. servers' \in Seq(ServerRow) /\ Len(servers') = Len(servers) + 1
          BY <3>3, <4>1, CopyServerIs
        <5> QED
          BY <1>0, <5>1
      <4>2. CASE job[c].id \notin projects
        BY <1>0, <3>3, <4>2 DEF CopyServer, Tables
      <4> QED
        BY <4>1, <4>2
    <3> QED
      BY <1>5, <3>1, <3>2, <3>3 DEF FilesServers
  <2> QED
    BY <1>0, <2>1, <2>2 DEF Tables, Grows
<1>6. ASSUME NEW c \in Clients, RegisterStorage(c) PROVE Tables' /\ Grows
  BY <1>0, <1>6 DEF RegisterStorage, Tables, Grows
<1>7. ASSUME NEW c \in Clients, FilesSources(c) PROVE Tables' /\ Grows
  <2>1. UNCHANGED <<projects, servers, databases, clusters>>
    BY <1>7, WritesLeave DEF Writes
  <2>2. sources' \in Seq(SourceRow)
    BY <1>7, CopySourceIs, InsertSourceIs, AdoptSourceIs DEF FilesSources
  <2> QED
    BY <1>0, <2>1, <2>2 DEF Tables, Grows
<1>8. ASSUME NEW c \in Clients, FilesDatabases(c) PROVE Tables' /\ Grows
  <2>1. UNCHANGED <<projects, servers, sources, clusters>>
    BY <1>8, WritesLeave DEF Writes
  <2>2. databases' \in Seq(DatabaseRow)
    <3>1. CASE InsertDatabase(c)
      BY <3>1, InsertDatabaseIs DEF Tables
    <3>2. CASE DropDatabase(c)
      BY <3>2, DropDatabaseIs
    <3>3. CASE WriteDomain(c)
      <4>1. job[c].host \in Hostnames
        BY DEF Calling, Job
      <4> QED
        BY <3>3, <4>1, SetDomainIs DEF WriteDomain
    <3>4. CASE ClearDomain(c)
      <4>1. NoHost \in Hostnames
        BY DEF Hostnames
      <4> QED
        BY <3>4, <4>1, SetDomainIs DEF ClearDomain
    <3> QED
      BY <1>8, <3>1, <3>2, <3>3, <3>4 DEF FilesDatabases
  <2> QED
    BY <1>0, <2>1, <2>2 DEF Tables, Grows
<1>9. CASE Restart \/ UNCHANGED vars
  BY <1>1, <1>9 DEF Restart, tables, vars
<1>10. ASSUME NEW c \in Clients, Handler(c) PROVE Tables' /\ Grows
  <2>1. CASE Begins(c) \/ Reads(c) \/ BeginRequest(c)
    BY <1>1, <2>1, BeginsLeave, ReadsLeave DEF BeginRequest, tables
  <2> QED
    BY <1>4, <1>5, <1>6, <1>7, <1>8, <1>10, <2>1, HandlerCases DEF Writes
<1> QED
  BY <1>2, <1>3, <1>9, <1>10 DEF Next

-------------------------------------------------------------------------------
(* A request has what it needs wherever it is *)

Entered(c) ==
  /\ pc' \in [Clients -> Locs] /\ job' \in [Clients -> Job]
  /\ Others(c)
  /\ pc'[c] = "idle" => job'[c] = NoJob
  /\ KeptBy(pc'[c], job'[c], Len(servers'), clusters')

\* A step to a place with what that place needs enters it.
LEMMA EnterIs ==
  ASSUME Calling, NEW c \in Clients, NEW l \in Locs, NEW j \in Job, l = "idle" => j = NoJob,
         Step(c, l, j) \/ Disturb(c, l, j), KeptBy(l, j, Len(servers'), clusters')
  PROVE  Entered(c) /\ pc'[c] = l /\ job'[c] = j
<1>1. CASE Step(c, l, j)
  BY <1>1, StepIs DEF Entered, Others
<1>2. CASE Disturb(c, l, j)
  BY <1>2, DisturbIs DEF Entered
<1> QED
  BY <1>1, <1>2

\* A request that is over keeps nothing.
LEMMA LeaveIs ==
  ASSUME Calling, NEW c \in Clients, Goto(c, "idle") \/ Disturb(c, "idle", NoJob)
  PROVE  Entered(c) /\ pc'[c] = "idle" /\ job'[c] = NoJob
<1>1. Step(c, "idle", NoJob) \/ Disturb(c, "idle", NoJob)
  BY GotoIs
<1>2. KeptBy("idle", NoJob, Len(servers'), clusters')
  BY DEF KeptBy
<1>3. "idle" \in Locs
  BY DEF Locs
<1> QED
  BY <1>1, <1>2, <1>3, NoJobIs, EnterIs

\* Going on with the job as it is enters the place, if it has what that needs.
LEMMA GoIs ==
  ASSUME Calling, NEW c \in Clients, NEW l \in Locs \ {"idle"}, Goto(c, l),
         KeptBy(l, job[c], Len(servers'), clusters')
  PROVE  Entered(c) /\ pc'[c] = l /\ job'[c] = job[c]
<1>1. Step(c, l, job[c]) /\ job[c] \in Job
  BY GotoIs DEF Calling
<1> QED
  BY <1>1, EnterIs

\* What a call begins with.
Starts == {"insertProject", "count", "move", "storage", "insertServer", "copyProject", "insertSource",
           "taken", "insertDatabase", "adoptDatabase", "drop", "routeServers", "clearDomain"}

Begun(c) ==
  /\ Entered(c) /\ pc'[c] \in Starts
  /\ job'[c].id = MaxGiven + 1 + asked /\ ~job'[c].mixed
  /\ pc'[c] = "taken" => \E root : job'[c].todo = Discovered(root)

\* Ids are numbers, and None is no id.
LEMMA IdsAre ==
  Ids \subseteq Nat /\ 0 \notin Ids
BY DEF Ids

\* A call that begins has its id, is undisturbed, and has what its first step needs.
LEMMA BeginEnters ==
  ASSUME Calling, NEW c \in Clients, NEW call, NEW l \in Starts, NEW j \in Job, Begin(c, call, l, j), ~j.mixed,
         \A id : KeptBy(l, [j EXCEPT !.id = id], Len(servers), clusters),
         l = "taken" => \E root : j.todo = Discovered(root)
  PROVE  Begun(c)
<1> DEFINE i == [j EXCEPT !.id = MaxGiven + 1 + asked]
<1>1. Step(c, l, i) /\ i \in Job /\ UNCHANGED <<servers, clusters>>
  BY BeginIs
<1>2. i.id = MaxGiven + 1 + asked /\ (i.mixed <=> j.mixed) /\ i.todo = j.todo
  BY DEF Job
<1>3. KeptBy(l, i, Len(servers'), clusters')
  BY <1>1
<1> HIDE DEF i
<1>4. l \in Locs /\ l # "idle"
  BY DEF Starts, Locs
<1>5. Entered(c) /\ pc'[c] = l /\ job'[c] = i
  BY <1>1, <1>3, <1>4, EnterIs
<1> QED
  BY <1>2, <1>5 DEF Begun

\* What a call begins with is a job.
LEMMA WithIs ==
  ASSUME NEW j \in Job, NEW s \in Nat, NEW p \in Nat
  PROVE  /\ [j EXCEPT !.server = s, !.project = p] \in Job
         /\ \A x \in Seq(SourceRow \cup Wanted \cup Names) :
              LET i == [j EXCEPT !.server = s, !.rows = x] IN
              i \in Job /\ i.server = s /\ i.rows = x /\ (i.mixed <=> j.mixed)
         /\ \A x \in Seq(Nat \cup Roots) :
              LET i == [j EXCEPT !.server = s, !.todo = x] IN
              i \in Job /\ i.server = s /\ i.todo = x /\ (i.mixed <=> j.mixed)
<1> DEFINE Rows == Seq(SourceRow \cup Wanted \cup Names)
           Todo == Seq(Nat \cup Roots)
<1>1. Job = [id: Nat, project: Nat, server: Nat, port: Nat, cluster: Nat,
             database: Nat, host: Hostnames, route: Nat, seen: Nat, used: SUBSET Nat,
             todo: Todo, rows: Rows, mixed: BOOLEAN]
  BY DEF Job
<1> HIDE DEF Rows, Todo
<1>2. [j EXCEPT !.server = s, !.project = p] \in Job
  BY <1>1
<1>3. ASSUME NEW x \in Rows
      PROVE  LET i == [j EXCEPT !.server = s, !.rows = x] IN
             i \in Job /\ i.server = s /\ i.rows = x /\ (i.mixed <=> j.mixed)
  BY <1>1
<1>4. ASSUME NEW x \in Todo
      PROVE  LET i == [j EXCEPT !.server = s, !.todo = x] IN
             i \in Job /\ i.server = s /\ i.todo = x /\ (i.mixed <=> j.mixed)
  BY <1>1
<1> QED
  BY <1>2, <1>3, <1>4 DEF Rows, Todo

\* Every call begins like that.
LEMMA BeginsEnter ==
  ASSUME Tables, Calling, NEW c \in Clients, Begins(c)
  PROVE  Begun(c)
<1>0. Len(servers) \in Nat /\ DOMAIN servers = 1 .. Len(servers) /\ clusters \in Nat
      /\ projects \subseteq Nat
  BY IdsAre, LenProperties DEF Tables
<1>1. \A d \in DOMAIN databases : databases[d].id \in Nat /\ databases[d].id \in Ids
  <2>1. \A d \in DOMAIN databases : databases[d] \in DatabaseRow
    BY LenProperties, ElementOfSeq DEF Tables
  <2> QED
    BY <2>1, IdsAre DEF DatabaseRow
<1>2. CASE BeginCreateProject(c)
  <2>1. \A id : KeptBy("insertProject", [NoJob EXCEPT !.id = id], Len(servers), clusters)
    BY DEF KeptBy
  <2>2. ~NoJob.mixed
    BY DEF NoJob
  <2> QED
    BY <1>2, <2>1, <2>2, NoJobIs, BeginEnters DEF BeginCreateProject, Starts
<1>3. CASE BeginDeleteProject(c)
  <2>1. PICK p \in projects : Begin(c, "project", "count", [NoJob EXCEPT !.project = p])
    BY <1>3 DEF BeginDeleteProject
  <2> DEFINE j == [NoJob EXCEPT !.project = p]
  <2>2. j \in Job /\ ~j.mixed
    BY <1>0, NoJobIs DEF Job, NoJob
  <2>3. \A id : KeptBy("count", [j EXCEPT !.id = id], Len(servers), clusters)
    BY DEF KeptBy
  <2> HIDE DEF j
  <2>4. Begin(c, "project", "count", j)
    BY <2>1 DEF j
  <2> QED
    BY <2>2, <2>3, <2>4, BeginEnters DEF Starts
<1>4. CASE BeginMove(c)
  <2>1. PICK s \in DOMAIN servers, p \in projects :
           Begin(c, "move", "move", [NoJob EXCEPT !.server = s, !.project = p])
    BY <1>4 DEF BeginMove
  <2> DEFINE j == [NoJob EXCEPT !.server = s, !.project = p]
  <2>2. j \in Job /\ ~j.mixed
    <3>1. s \in Nat /\ p \in Nat
      BY <1>0
    <3>2. j \in Job
      BY <3>1, NoJobIs, WithIs
    <3>3. ~j.mixed
      BY DEF NoJob
    <3> QED
      BY <3>2, <3>3
  <2>3. \A id : KeptBy("move", [j EXCEPT !.id = id], Len(servers), clusters)
    BY DEF KeptBy
  <2> HIDE DEF j
  <2>4. Begin(c, "move", "move", j)
    BY <2>1 DEF j
  <2> QED
    BY <2>2, <2>3, <2>4, BeginEnters DEF Starts
<1>5. CASE BeginCreateServer(c)
  <2>1. PICK p \in projects \cup {None}, port \in Ports, k \in 0 .. clusters :
           Begin(c, "server", IF k = 0 THEN "storage" ELSE "insertServer",
                 [NoJob EXCEPT !.project = p, !.port = port, !.cluster = k])
    BY <1>5 DEF BeginCreateServer
  <2> DEFINE j == [NoJob EXCEPT !.project = p, !.port = port, !.cluster = k]
             l == IF k = 0 THEN "storage" ELSE "insertServer"
  <2>2. p \in Nat /\ port \in 1 .. MaxPort /\ port \in Nat /\ k \in Nat
    BY <1>0, WorkspaceAssumption DEF None
  <2>3. j \in Job /\ ~j.mixed
    BY <2>2, NoJobIs DEF Job, NoJob
  <2>4. j.port = port /\ j.cluster = k
    BY DEF NoJob
  <2>5. \A id : [j EXCEPT !.id = id].port = port /\ [j EXCEPT !.id = id].cluster = k
    BY <2>3, <2>4 DEF Job
  <2>6. \A id : KeptBy(l, [j EXCEPT !.id = id], Len(servers), clusters)
    <3>1. k # 0 => k \in 1 .. clusters
      BY <1>0, <2>2
    <3> HIDE DEF j
    <3> QED
      BY <2>2, <2>5, <3>1 DEF KeptBy
  <2> HIDE DEF j
  <2>7. Begin(c, "server", l, j)
    BY <2>1 DEF j
  <2> QED
    BY <2>3, <2>6, <2>7, BeginEnters DEF Starts
<1>6. CASE BeginDuplicate(c)
  <2>1. PICK p \in projects : Begin(c, "duplicate", "copyProject", [NoJob EXCEPT !.project = p])
    BY <1>6 DEF BeginDuplicate
  <2> DEFINE j == [NoJob EXCEPT !.project = p]
  <2>2. j \in Job /\ ~j.mixed
    BY <1>0, NoJobIs DEF Job, NoJob
  <2>3. \A id : KeptBy("copyProject", [j EXCEPT !.id = id], Len(servers), clusters)
    BY DEF KeptBy
  <2> HIDE DEF j
  <2>4. Begin(c, "duplicate", "copyProject", j)
    BY <2>1 DEF j
  <2> QED
    BY <2>2, <2>3, <2>4, BeginEnters DEF Starts
<1>7. CASE BeginAddSource(c)
  <2>1. PICK s \in DOMAIN servers, f \in Offered, r \in 0 .. 1 :
           Begin(c, "source", "insertSource",
                 [NoJob EXCEPT !.server = s, !.rows = <<[path |-> f, kind |-> "Private", rank |-> r]>>])
    BY <1>7 DEF BeginAddSource
  <2> DEFINE x == [path |-> f, kind |-> "Private", rank |-> r]
             j == [NoJob EXCEPT !.server = s, !.rows = <<x>>]
  <2>2. x \in Wanted
    BY DEF Wanted, Kinds
  <2> HIDE DEF x
  <2>3. <<x>> \in Seq(Wanted) /\ <<x>> # <<>> /\ <<x>> \in Seq(SourceRow \cup Wanted \cup Names)
    BY <2>2
  <2>4. j \in Job /\ ~j.mixed /\ j.server = s /\ j.rows = <<x>>
    <3>1. s \in Nat /\ ~NoJob.mixed
      BY <1>0 DEF NoJob
    <3>2. j \in Job /\ j.server = s /\ j.rows = <<x>> /\ (j.mixed <=> NoJob.mixed)
      BY <3>1, <2>3, NoJobIs, WithIs
    <3> QED
      BY <3>1, <3>2
  <2> HIDE DEF j
  <2>5. \A id : [j EXCEPT !.id = id].server = s /\ [j EXCEPT !.id = id].rows = <<x>>
    BY <2>4 DEF Job
  <2>6. \A id : KeptBy("insertSource", [j EXCEPT !.id = id], Len(servers), clusters)
    BY <1>0, <2>3, <2>5 DEF KeptBy
  <2>7. Begin(c, "source", "insertSource", j)
    BY <2>1 DEF j, x
  <2> QED
    BY <2>4, <2>6, <2>7, BeginEnters DEF Starts
<1>8. CASE BeginAdoptRoots(c)
  <2>1. PICK s \in DOMAIN servers, root \in Folders :
           Begin(c, "adopt", "taken", [NoJob EXCEPT !.server = s, !.todo = Discovered(root)])
    BY <1>8 DEF BeginAdoptRoots
  <2> DEFINE x == Discovered(root)
             j == [NoJob EXCEPT !.server = s, !.todo = x]
  <2>2. x \in Seq(Roots) /\ x \in Seq(Nat \cup Roots)
    BY DiscoveredIs, SeqMonotonic
  <2> HIDE DEF x
  <2>4. j \in Job /\ ~j.mixed /\ j.server = s /\ j.todo = x
    <3>1. s \in Nat /\ ~NoJob.mixed
      BY <1>0 DEF NoJob
    <3>2. j \in Job /\ j.server = s /\ j.todo = x /\ (j.mixed <=> NoJob.mixed)
      BY <3>1, <2>2, NoJobIs, WithIs
    <3> QED
      BY <3>1, <3>2
  <2> HIDE DEF j
  <2>5. \A id : [j EXCEPT !.id = id].server = s /\ [j EXCEPT !.id = id].todo = x
    BY <2>4 DEF Job
  <2>6. \A id : KeptBy("taken", [j EXCEPT !.id = id], Len(servers), clusters)
    BY <1>0, <2>2, <2>5 DEF KeptBy
  <2>7. Begin(c, "adopt", "taken", j) /\ \E r : j.todo = Discovered(r)
    BY <2>1, <2>4 DEF j, x
  <2> QED
    BY <2>4, <2>6, <2>7, BeginEnters DEF Starts
<1>9. CASE BeginInsertDatabase(c)
  <2>1. PICK s \in DOMAIN servers, n \in Names, l \in {"insertDatabase", "adoptDatabase"} :
           Begin(c, "database", l, [NoJob EXCEPT !.server = s, !.rows = <<n>>])
    BY <1>9 DEF BeginInsertDatabase
  <2> DEFINE j == [NoJob EXCEPT !.server = s, !.rows = <<n>>]
  <2>3. <<n>> \in Seq(Names) /\ <<n>> # <<>> /\ <<n>> \in Seq(SourceRow \cup Wanted \cup Names)
    OBVIOUS
  <2>4. j \in Job /\ ~j.mixed /\ j.server = s /\ j.rows = <<n>>
    <3>1. s \in Nat /\ ~NoJob.mixed
      BY <1>0 DEF NoJob
    <3>2. j \in Job /\ j.server = s /\ j.rows = <<n>> /\ (j.mixed <=> NoJob.mixed)
      BY <3>1, <2>3, NoJobIs, WithIs
    <3> QED
      BY <3>1, <3>2
  <2> HIDE DEF j
  <2>5. \A id : [j EXCEPT !.id = id].server = s /\ [j EXCEPT !.id = id].rows = <<n>>
    BY <2>4 DEF Job
  <2>6. \A id : KeptBy(l, [j EXCEPT !.id = id], Len(servers), clusters)
    BY <1>0, <2>3, <2>5 DEF KeptBy
  <2>7. Begin(c, "database", l, j)
    BY <2>1 DEF j
  <2> QED
    BY <2>4, <2>6, <2>7, BeginEnters DEF Starts
<1>10. CASE BeginDropDatabase(c)
  <2>1. PICK d \in DOMAIN databases : Begin(c, "drop", "drop", [NoJob EXCEPT !.database = databases[d].id])
    BY <1>10 DEF BeginDropDatabase
  <2> DEFINE j == [NoJob EXCEPT !.database = databases[d].id]
  <2>2. databases[d].id \in Nat
    BY <1>1
  <2>3. j \in Job /\ ~j.mixed
    BY <2>2, NoJobIs DEF Job, NoJob
  <2>4. \A id : KeptBy("drop", [j EXCEPT !.id = id], Len(servers), clusters)
    BY DEF KeptBy
  <2> HIDE DEF j
  <2>5. Begin(c, "drop", "drop", j)
    BY <2>1 DEF j
  <2> QED
    BY <2>3, <2>4, <2>5, BeginEnters DEF Starts
<1>11. CASE BeginSetDomain(c)
  <2>1. PICK d \in DOMAIN databases :
          \/ \E h \in Domains :
               Begin(c, "domain", "routeServers", [NoJob EXCEPT !.database = databases[d].id, !.host = Lower(h)])
          \/ Begin(c, "domain", "clearDomain", [NoJob EXCEPT !.database = databases[d].id])
    BY <1>11 DEF BeginSetDomain
  <2>2. databases[d].id \in Nat /\ databases[d].id \in Ids
    BY <1>1
  <2>3. CASE Begin(c, "domain", "clearDomain", [NoJob EXCEPT !.database = databases[d].id])
    <3> DEFINE j == [NoJob EXCEPT !.database = databases[d].id]
    <3>1. j \in Job /\ ~j.mixed /\ j.database = databases[d].id
      BY <2>2, NoJobIs DEF Job, NoJob
    <3> HIDE DEF j
    <3>4. \A id : [j EXCEPT !.id = id].database = databases[d].id
      BY <3>1 DEF Job
    <3>2. \A id : KeptBy("clearDomain", [j EXCEPT !.id = id], Len(servers), clusters)
      BY <2>2, <3>4 DEF KeptBy
    <3>3. Begin(c, "domain", "clearDomain", j)
      BY <2>3 DEF j
    <3> QED
      BY <3>1, <3>2, <3>3, BeginEnters DEF Starts
  <2>4. ASSUME NEW h \in Domains,
               Begin(c, "domain", "routeServers", [NoJob EXCEPT !.database = databases[d].id, !.host = Lower(h)])
        PROVE  Begun(c)
    <3> DEFINE host == Lower(h)
               j == [NoJob EXCEPT !.database = databases[d].id, !.host = host]
    <3>1. host \in Hostnames /\ host # NoHost
      BY WorkspaceAssumption DEF Hostnames
    <3> HIDE DEF host
    <3>2. j \in Job /\ ~j.mixed /\ j.host = host /\ j.database = databases[d].id
      BY <2>2, <3>1, NoJobIs DEF Job, NoJob
    <3> HIDE DEF j
    <3>3. \A id : [j EXCEPT !.id = id].host = host /\ [j EXCEPT !.id = id].database = databases[d].id
      BY <3>2 DEF Job
    <3>4. \A id : KeptBy("routeServers", [j EXCEPT !.id = id], Len(servers), clusters)
      BY <2>2, <3>1, <3>3 DEF KeptBy
    <3>5. Begin(c, "domain", "routeServers", j)
      BY <2>4 DEF j, host
    <3> QED
      BY <3>2, <3>4, <3>5, BeginEnters DEF Starts
  <2> QED
    BY <2>1, <2>3, <2>4
<1> QED
  BY <1>2, <1>3, <1>4, <1>5, <1>6, <1>7, <1>8, <1>9, <1>10, <1>11 DEF Begins

\* A request keeps one thing more.
LEMMA KeepCluster ==
  ASSUME NEW j \in Job, NEW n \in Nat
  PROVE  LET i == [j EXCEPT !.cluster = n] IN
         i \in Job /\ i.id = j.id /\ (i.mixed <=> j.mixed) /\ i.cluster = n /\ i.port = j.port
BY DEF Job

\* Noting how many servers there are changes nothing else of a job.
LEMMA KeepSeen ==
  ASSUME NEW j \in Job, NEW n \in Nat
  PROVE  LET i == [j EXCEPT !.seen = n] IN
         /\ i \in Job /\ i.id = j.id /\ (i.mixed <=> j.mixed)
         /\ i.host = j.host /\ i.seen = n /\ i.database = j.database
BY DEF Job

\* Noting the route changes nothing else of a job.
LEMMA KeepRoute ==
  ASSUME NEW j \in Job, NEW n \in Nat
  PROVE  LET i == [j EXCEPT !.route = n] IN i \in Job /\ i.id = j.id /\ (i.mixed <=> j.mixed) /\ i.route = n
BY DEF Job

\* Noting rows changes nothing else of a job.
LEMMA KeepRows ==
  ASSUME NEW j \in Job, NEW x \in Seq(SourceRow)
  PROVE  LET i == [j EXCEPT !.rows = x] IN
         /\ i \in Job /\ i.id = j.id /\ (i.mixed <=> j.mixed)
         /\ i.rows = x /\ i.server = j.server /\ i.todo = j.todo /\ i.used = j.used
<1> DEFINE Rows == Seq(SourceRow \cup Wanted \cup Names)
<1>1. Job = [id: Nat, project: Nat, server: Nat, port: Nat, cluster: Nat,
             database: Nat, host: Hostnames, route: Nat, seen: Nat, used: SUBSET Nat,
             todo: Seq(Nat \cup Roots), rows: Rows, mixed: BOOLEAN]
  BY DEF Job
<1>2. x \in Rows
  BY SeqMonotonic
<1> HIDE DEF Rows
<1> QED
  BY <1>1, <1>2

\* Noting what is still to do changes nothing else of a job.
LEMMA KeepTodo ==
  ASSUME NEW j \in Job, NEW n, n \in Nat, NEW x \in Seq(1 .. n)
  PROVE  LET i == [j EXCEPT !.todo = x] IN
         /\ i \in Job /\ i.id = j.id /\ (i.mixed <=> j.mixed)
         /\ i.todo = x /\ i.used = j.used
<1> DEFINE Todo == Seq(Nat \cup Roots)
<1>1. Job = [id: Nat, project: Nat, server: Nat, port: Nat, cluster: Nat,
             database: Nat, host: Hostnames, route: Nat, seen: Nat, used: SUBSET Nat,
             todo: Todo, rows: Seq(SourceRow \cup Wanted \cup Names), mixed: BOOLEAN]
  BY DEF Job
<1>2. x \in Todo
  <2>1. 1 .. n \subseteq Nat \cup Roots
    OBVIOUS
  <2> QED
    BY <2>1, SeqMonotonic
<1> HIDE DEF Todo
<1> QED
  BY <1>1, <1>2

\* Noting the ports changes nothing else of a job, but starts it undisturbed.
LEMMA KeepPorts ==
  ASSUME NEW j \in Job, NEW u \in SUBSET Nat
  PROVE  LET i == [j EXCEPT !.used = u, !.mixed = FALSE] IN i \in Job /\ i.id = j.id /\ i.used = u /\ ~i.mixed
BY DEF Job

\* Noting the port and the place of a copy changes nothing else of a job.
LEMMA KeepCopy ==
  ASSUME NEW j \in Job, NEW u \in SUBSET Nat, NEW n \in Nat
  PROVE  LET i == [j EXCEPT !.used = u, !.server = n] IN
         /\ i \in Job /\ i.id = j.id /\ (i.mixed <=> j.mixed)
         /\ i.used = u /\ i.server = n /\ i.todo = j.todo
BY DEF Job

\* What the routing table answers.
LEMMA RoutesIs ==
  ASSUME Tables, NEW seen
  PROVE  /\ Routes(seen) \in Seq(DatabaseRow)
         /\ \A n \in DOMAIN Routes(seen) : \E d \in DOMAIN databases :
              Routes(seen)[n] = databases[d] /\ databases[d].server <= seen
         /\ \A d \in DOMAIN databases : databases[d].server <= seen =>
              \E n \in DOMAIN Routes(seen) : Routes(seen)[n] = databases[d]
<1> DEFINE I == {d \in DOMAIN databases : databases[d].server <= seen}
<1>1. I \in SUBSET (DOMAIN databases) /\ databases \in Seq(DatabaseRow)
  BY DEF Tables
<1>2. Routes(seen) = Picked(databases, I)
  BY DEF Routes
<1>3. \A d \in DOMAIN databases : d \in I <=> databases[d].server <= seen
  OBVIOUS
<1> HIDE DEF I
<1> QED
  BY <1>1, <1>2, <1>3, PickedIs

\* A request is sent to a database that answers on the hostname; or, when none does, to
\* one that has its default address.
LEMMA FindRouteIs ==
  ASSUME NEW routes \in Seq(DatabaseRow), NEW host, FindRoute(routes, host) # None
  PROVE  \E i \in DOMAIN routes :
           /\ routes[i].id = FindRoute(routes, host)
           /\ \/ Hostname(routes[i]) = host
              \/ /\ Hostname(routes[i]) = DefaultHost(routes[i].name)
                 /\ \A k \in DOMAIN routes : Hostname(routes[k]) # host
<1> DEFINE exact  == {i \in DOMAIN routes : Hostname(routes[i]) = host}
           labels == {i \in DOMAIN routes : /\ ~routes[i].name.upper /\ routes[i].name.label = host.label
                                             /\ Hostname(routes[i]) = DefaultHost(routes[i].name)}
<1>1. exact \in SUBSET (DOMAIN routes) /\ labels \in SUBSET (DOMAIN routes)
  OBVIOUS
<1>2. FindRoute(routes, host) = IF exact # {} \/ host.suffix = "" THEN First(routes, exact) ELSE First(routes, labels)
  BY DEF FindRoute
<1>3. (\A i \in exact : Hostname(routes[i]) = host)
      /\ (exact = {} => \A k \in DOMAIN routes : Hostname(routes[k]) # host)
      /\ \A i \in labels : Hostname(routes[i]) = DefaultHost(routes[i].name)
  OBVIOUS
<1> HIDE DEF exact, labels
<1>4. ASSUME NEW I \in SUBSET (DOMAIN routes), First(routes, I) # None
      PROVE  \E i \in I : routes[i].id = First(routes, I)
  <2>1. I # {}
    BY <1>4 DEF First
  <2>2. I \in SUBSET Nat
    BY LenProperties
  <2>3. (CHOOSE i \in I : \A k \in I : i <= k) \in I
    BY <2>1, <2>2, Least
  <2> DEFINE i == CHOOSE i \in I : \A k \in I : i <= k
  <2>4. First(routes, I) = routes[i].id
    BY <2>1 DEF First
  <2> HIDE DEF i
  <2> QED
    BY <2>3, <2>4 DEF i
<1>5. CASE exact # {} \/ host.suffix = ""
  <2>1. PICK i \in exact : routes[i].id = FindRoute(routes, host)
    BY <1>1, <1>2, <1>4, <1>5
  <2> QED
    BY <1>1, <1>3, <2>1
<1>6. CASE ~(exact # {} \/ host.suffix = "")
  <2>1. PICK i \in labels : routes[i].id = FindRoute(routes, host)
    BY <1>1, <1>2, <1>4, <1>6
  <2> QED
    BY <1>1, <1>3, <1>6, <2>1
<1> QED
  BY <1>5, <1>6

\* An operation goes on, as the call it is, or is over.
Continued(c) ==
  /\ Entered(c)
  /\ \/ pc'[c] = "idle"
     \/ /\ job'[c].id = job[c].id
        /\ pc[c] # "idle" /\ (pc[c] \in Requests <=> pc'[c] \in Requests)
        /\ pc'[c] \notin {"insertSource", "taken", "insertDatabase", "adoptDatabase"}

\* After a step that reads, a request has what its next step needs.
LEMMA ReadsContinue ==
  ASSUME Tables, Calling, Keeping, Loading, NEW c \in Clients, Reads(c)
  PROVE  Continued(c)
<1> DEFINE j == job[c]
<1>0. /\ Len(servers) \in Nat /\ DOMAIN servers = 1 .. Len(servers) /\ clusters \in Nat
      /\ \A s \in DOMAIN servers : servers[s] \in ServerRow
      /\ j \in Job /\ KeptBy(pc[c], j, Len(servers), clusters) /\ UNCHANGED <<servers, clusters>>
  BY LenProperties, ElementOfSeq, ReadsLeave DEF Tables, Calling, Keeping
<1> HIDE DEF j
<1>1. CASE CountServers(c)
  <2>1. Goto(c, "idle") \/ Goto(c, "delete")
    BY <1>1 DEF CountServers
  <2>2. KeptBy("delete", j, Len(servers'), clusters') /\ "delete" \in Locs \ {"idle"} /\ pc[c] = "count"
    BY <1>1 DEF KeptBy, Locs, CountServers
  <2> QED
    BY <2>1, <2>2, LeaveIs, GoIs DEF Continued, Requests, j
<1>2. CASE EnsureStorage(c)
  <2>1. pc[c] = "storage" /\ j.port \in 1 .. MaxPort
    BY <1>0, <1>2 DEF EnsureStorage, KeptBy
  <2>2. CASE clusters > 0
    <3> DEFINE i == [j EXCEPT !.cluster = 1]
    <3>1. i \in Job /\ i.id = j.id /\ i.cluster = 1 /\ i.port = j.port
      BY <1>0, KeepCluster
    <3>2. Step(c, "insertServer", i)
      BY <1>2, <2>2 DEF EnsureStorage, j
    <3> HIDE DEF i
    <3>3. KeptBy("insertServer", i, Len(servers'), clusters')
      BY <1>0, <2>1, <2>2, <3>1 DEF KeptBy
    <3>4. Entered(c) /\ pc'[c] = "insertServer" /\ job'[c] = i
      BY <3>1, <3>2, <3>3, EnterIs DEF Locs
    <3> QED
      BY <2>1, <3>1, <3>4 DEF Continued, Requests, j
  <2>3. CASE ~(clusters > 0)
    <3>1. Goto(c, "register")
      BY <1>2, <2>3 DEF EnsureStorage
    <3>2. KeptBy("register", j, Len(servers'), clusters') /\ "register" \in Locs \ {"idle"}
      BY <2>1 DEF KeptBy, Locs
    <3> QED
      BY <2>1, <3>1, <3>2, GoIs DEF Continued, Requests, j
  <2> QED
    BY <2>2, <2>3
<1>3. CASE UsedPorts(c)
  <2> DEFINE u == {servers[s].port : s \in DOMAIN servers}
             i == [j EXCEPT !.used = u, !.mixed = FALSE]
  <2>1. u \in SUBSET Nat
    BY <1>0, WorkspaceAssumption DEF ServerRow
  <2> HIDE DEF u
  <2>2. i \in Job /\ i.id = j.id
    BY <1>0, <2>1, KeepPorts
  <2>3. Step(c, "listed", i)
    BY <1>3 DEF UsedPorts, j, u
  <2> HIDE DEF i
  <2>4. KeptBy("listed", i, Len(servers'), clusters') /\ "listed" \in Locs /\ pc[c] = "usedPorts"
    BY <1>3 DEF KeptBy, Locs, UsedPorts
  <2>5. Entered(c) /\ pc'[c] = "listed" /\ job'[c] = i
    BY <2>2, <2>3, <2>4, EnterIs
  <2> QED
    BY <2>2, <2>4, <2>5 DEF Continued, Requests, j
<1>4. CASE ListServers(c)
  <2> DEFINE F    == Filed(job[c].project)
             mine == Ascending(F)
             i    == [j EXCEPT !.todo = mine]
  <2>0. pc[c] = "listed" /\ IF mine = <<>> THEN Goto(c, "idle") ELSE Step(c, "copyServer", i)
    BY <1>4 DEF ListServers, j
  <2>1. mine \in Seq(1 .. Len(servers))
    <3>1. F \in SUBSET Nat /\ IsFiniteSet(F) /\ F \subseteq 1 .. Len(servers)
      <4>1. IsFiniteSet(1 .. Len(servers)) /\ F \in SUBSET (1 .. Len(servers))
        BY <1>0, FS_Interval DEF Filed
      <4> QED
        BY <4>1, FS_Subset
    <3> HIDE DEF F
    <3> QED
      BY <3>1, AscendingIs, SeqMonotonic
  <2> HIDE DEF mine
  <2>2. CASE mine = <<>>
    BY <2>0, <2>2, LeaveIs DEF Continued
  <2>3. CASE mine # <<>>
    <3>1. i \in Job /\ i.id = j.id /\ i.todo = mine
      BY <1>0, <2>1, KeepTodo
    <3> HIDE DEF i
    <3>2. KeptBy("copyServer", i, Len(servers'), clusters') /\ "copyServer" \in Locs
      BY <1>0, <2>1, <2>3, <3>1 DEF KeptBy, Locs
    <3>3. Entered(c) /\ pc'[c] = "copyServer" /\ job'[c] = i
      BY <2>0, <2>3, <3>1, <3>2, EnterIs
    <3> QED
      BY <2>0, <3>1, <3>3 DEF Continued, Requests, j
  <2> QED
    BY <2>2, <2>3
<1>5. CASE ListSources(c)
  <2> DEFINE rows == SourcesOf(Head(j.todo))
             more == NextServer(j)
             i    == [j EXCEPT !.rows = rows]
  <2>0. pc[c] = "listSources"
        /\ IF rows # <<>> THEN Step(c, "copySource", i)
           ELSE IF more.todo # <<>> THEN Step(c, "copyServer", more) ELSE Goto(c, "idle")
    BY <1>5 DEF ListSources, j
  <2>1. /\ j.todo \in Seq(1 .. Len(servers)) /\ j.todo # <<>> /\ j.server \in 1 .. Len(servers)
        /\ \A n \in DOMAIN j.todo : j.todo[n] < j.server
    BY <1>0, <2>0 DEF KeptBy
  <2>2. rows \in Seq(SourceRow)
    BY SourcesOfIs
  <2> HIDE DEF rows
  <2>3. CASE rows # <<>>
    <3>1. i \in Job /\ i.id = j.id /\ i.rows = rows /\ i.todo = j.todo /\ i.server = j.server
      BY <1>0, <2>2, KeepRows
    <3> HIDE DEF i
    <3>2. KeptBy("copySource", i, Len(servers'), clusters') /\ "copySource" \in Locs
      BY <1>0, <2>1, <2>2, <2>3, <3>1 DEF KeptBy, Locs
    <3>3. Entered(c) /\ pc'[c] = "copySource" /\ job'[c] = i
      BY <2>0, <2>3, <3>1, <3>2, EnterIs
    <3> QED
      BY <2>0, <3>1, <3>3 DEF Continued, Requests, j
  <2>4. CASE rows = <<>>
    <3>1. Tail(j.todo) \in Seq(1 .. Len(servers))
      BY <2>1, HeadTailProperties
    <3>2. more \in Job /\ more.id = j.id /\ more.todo = Tail(j.todo)
      BY <1>0, <3>1, KeepTodo DEF NextServer
    <3> HIDE DEF more
    <3>3. more.todo # <<>> => KeptBy("copyServer", more, Len(servers'), clusters') /\ "copyServer" \in Locs
      BY <1>0, <3>1, <3>2 DEF KeptBy, Locs
    <3>4. more.todo # <<>> => Entered(c) /\ pc'[c] = "copyServer" /\ job'[c] = more
      BY <2>0, <2>4, <3>2, <3>3, EnterIs
    <3>5. more.todo = <<>> => Entered(c) /\ pc'[c] = "idle"
      BY <2>0, <2>4, LeaveIs
    <3> QED
      BY <2>0, <3>2, <3>4, <3>5 DEF Continued, Requests, j
  <2> QED
    BY <2>3, <2>4
<1>6. CASE TakenPaths(c)
  <2> DEFINE rows == Ranked(j.server, j.todo, j.id)
             i    == [j EXCEPT !.rows = rows]
  <2>0. pc[c] = "taken" /\ IF rows = <<>> THEN Goto(c, "idle") ELSE Step(c, "adoptSource", i)
    BY <1>6 DEF TakenPaths, j
  <2>1. j.todo \in Seq(Roots) /\ j.server \in 1 .. Len(servers) /\ j.server \in Nat /\ j.id \in Nat
    BY <1>0, <2>0 DEF KeptBy, Job
  <2>2. \A m, n \in DOMAIN j.todo : m < n => KindRank(j.todo[m].kind) <= KindRank(j.todo[n].kind)
    BY <2>0 DEF Loading, Adopting, Sorted, j
  <2>3. rows \in Seq(SourceRow) /\ \A n \in DOMAIN rows : rows[n].server = j.server /\ rows[n].by = j.id
    <3>1. Proposal(rows, j.server, j.id)
      BY <2>1, <2>2, RankedIs
    <3> HIDE DEF rows
    <3> QED
      BY <3>1 DEF Proposal
  <2> HIDE DEF rows
  <2>4. CASE rows = <<>>
    BY <2>0, <2>4, LeaveIs DEF Continued
  <2>5. CASE rows # <<>>
    <3>1. i \in Job /\ i.id = j.id /\ i.rows = rows /\ i.server = j.server
      BY <1>0, <2>3, KeepRows
    <3> HIDE DEF i
    <3>2. KeptBy("adoptSource", i, Len(servers'), clusters') /\ "adoptSource" \in Locs
      BY <1>0, <2>1, <2>3, <2>5, <3>1 DEF KeptBy, Locs
    <3>3. Entered(c) /\ pc'[c] = "adoptSource" /\ job'[c] = i
      BY <2>0, <2>5, <3>1, <3>2, EnterIs
    <3> QED
      BY <2>0, <3>1, <3>3 DEF Continued, Requests, j
  <2> QED
    BY <2>4, <2>5
<1>7. CASE RouteServers(c)
  <2> DEFINE i == [j EXCEPT !.seen = Len(servers)]
  <2>0. pc[c] = "routeServers" /\ Step(c, "clash", i)
    BY <1>7 DEF RouteServers, j
  <2>1. i \in Job /\ i.id = j.id /\ i.host = j.host /\ i.database = j.database
    BY <1>0, KeepSeen
  <2> HIDE DEF i
  <2>2. KeptBy("clash", i, Len(servers'), clusters') /\ "clash" \in Locs
    BY <1>0, <2>0, <2>1 DEF KeptBy, Locs
  <2>3. Entered(c) /\ pc'[c] = "clash" /\ job'[c] = i
    BY <2>0, <2>1, <2>2, EnterIs
  <2> QED
    BY <2>0, <2>1, <2>3 DEF Continued, Requests, j
<1>8. CASE CheckClash(c)
  <2>0. pc[c] = "clash" /\ (Goto(c, "idle") \/ Goto(c, "writeDomain"))
    BY <1>8 DEF CheckClash
  <2>1. KeptBy("writeDomain", j, Len(servers'), clusters') /\ "writeDomain" \in Locs \ {"idle"}
    BY <1>0, <2>0 DEF KeptBy, Locs
  <2> QED
    BY <2>0, <2>1, LeaveIs, GoIs DEF Continued, Requests, j
<1>9. CASE RequestServers(c)
  <2> DEFINE i == [j EXCEPT !.seen = Len(servers)]
  <2>0. pc[c] = "requestServers" /\ Step(c, "resolve", i)
    BY <1>9 DEF RequestServers, j
  <2>1. i \in Job /\ i.id = j.id
    BY <1>0, KeepSeen
  <2> HIDE DEF i
  <2>2. KeptBy("resolve", i, Len(servers'), clusters') /\ "resolve" \in Locs
    BY DEF KeptBy, Locs
  <2>3. Entered(c) /\ pc'[c] = "resolve" /\ job'[c] = i
    BY <2>0, <2>1, <2>2, EnterIs
  <2> QED
    BY <2>0, <2>1, <2>3 DEF Continued, Requests, j
<1>10. CASE Resolve(c)
  <2> DEFINE route == FindRoute(Routes(j.seen), j.host)
             i     == [j EXCEPT !.route = route]
  <2>0. pc[c] = "resolve" /\ IF route = None THEN Goto(c, "idle") ELSE Step(c, "forward", i)
    BY <1>10 DEF Resolve, j
  <2>1. CASE route = None
    BY <2>0, <2>1, LeaveIs DEF Continued
  <2>2. CASE route # None
    <3>1. Routes(j.seen) \in Seq(DatabaseRow)
      BY RoutesIs
    <3>2. PICK n \in DOMAIN Routes(j.seen) : Routes(j.seen)[n].id = route
      BY <2>2, <3>1, FindRouteIs
    <3>3. Routes(j.seen)[n] \in DatabaseRow
      BY <3>1, LenProperties, ElementOfSeq
    <3>4. route \in Nat
      BY <3>2, <3>3, IdsAre DEF DatabaseRow
    <3> HIDE DEF route
    <3>5. i \in Job /\ i.id = j.id
      BY <1>0, <3>4, KeepRoute
    <3> HIDE DEF i
    <3>6. KeptBy("forward", i, Len(servers'), clusters') /\ "forward" \in Locs
      BY DEF KeptBy, Locs
    <3>7. Entered(c) /\ pc'[c] = "forward" /\ job'[c] = i
      BY <2>0, <2>2, <3>5, <3>6, EnterIs
    <3> QED
      BY <2>0, <3>5, <3>7 DEF Continued, Requests, j
  <2> QED
    BY <2>1, <2>2
<1>11. CASE Forward(c)
  BY <1>11, LeaveIs DEF Forward, Continued
<1> QED
  BY <1>1, <1>2, <1>3, <1>4, <1>5, <1>6, <1>7, <1>8, <1>9, <1>10, <1>11 DEF Reads

\* After a step that writes, a request has what its next step needs.
LEMMA WritesContinue ==
  ASSUME Tables, Calling, Keeping, NEW c \in Clients, Writes(c), Grows
  PROVE  Continued(c)
<1> DEFINE j == job[c]
           n == Len(servers)
           m == Len(servers')
<1>0. /\ n \in Nat /\ DOMAIN servers = 1 .. n /\ clusters \in Nat
      /\ j \in Job /\ KeptBy(pc[c], j, n, clusters)
  BY LenProperties DEF Tables, Calling, Keeping
<1> HIDE DEF j
<1>1. CASE InsertProject(c) \/ DeleteProject(c) \/ Move(c) \/ InsertServer(c) \/ InsertSource(c) \/ FilesDatabases(c)
  <2>1. Goto(c, "idle") \/ Disturb(c, "idle", NoJob)
    BY <1>1 DEF InsertProject, DeleteProject, Move, InsertServer, InsertSource, FilesDatabases,
       InsertDatabase, DropDatabase, WriteDomain, ClearDomain
  <2> QED
    BY <2>1, LeaveIs DEF Continued
<1>2. CASE CopyProject(c)
  <2>1. Goto(c, "usedPorts") /\ pc[c] = "copyProject"
    BY <1>2 DEF CopyProject
  <2>2. KeptBy("usedPorts", j, m, clusters') /\ "usedPorts" \in Locs \ {"idle"}
    BY DEF KeptBy, Locs
  <2> QED
    BY <2>1, <2>2, GoIs DEF Continued, Requests, j
<1>3. CASE CopyServer(c)
  <2>0. pc[c] = "copyServer"
    BY <1>3 DEF CopyServer
  <2>1. CASE j.id \notin projects
    <3>1. Goto(c, "idle")
      BY <1>3, <2>1 DEF CopyServer, j
    <3> QED
      BY <3>1, LeaveIs DEF Continued
  <2>2. CASE j.id \in projects
    <3> DEFINE port == NextFreePort(servers[Head(j.todo)].port, j.used)
               u    == j.used \cup {port}
               i    == [j EXCEPT !.used = u, !.server = n + 1]
    <3>1. port \in 1 .. MaxPort /\ m = n + 1 /\ Disturb(c, "listSources", i)
      BY <1>3, <2>2, CopyServerIs DEF j
    <3>2. u \in SUBSET Nat
      <4> HIDE DEF port
      <4>1. port \in Nat
        BY <3>1, WorkspaceAssumption
      <4>2. j.used \in SUBSET Nat
        BY <1>0 DEF Job
      <4> QED
        BY <4>1, <4>2
    <3> HIDE DEF u
    <3>3. i \in Job /\ i.id = j.id /\ i.server = n + 1 /\ i.todo = j.todo
      <4>1. n + 1 \in Nat
        BY <1>0
      <4> DEFINE s == n + 1
      <4>2. i = [j EXCEPT !.used = u, !.server = s] /\ s \in Nat /\ j \in Job
        BY <1>0, <4>1
      <4> HIDE DEF s, i
      <4>3. i \in Job /\ i.id = j.id /\ i.server = s /\ i.todo = j.todo
        BY <3>2, <4>2 DEF Job
      <4> QED
        BY <4>3 DEF s
    <3> HIDE DEF i
    <3>4. j.todo \in Seq(1 .. n) /\ j.todo # <<>>
      BY <1>0, <2>0 DEF KeptBy
    <3>5. \A k \in DOMAIN j.todo : j.todo[k] \in 1 .. n
      BY <3>4, LenProperties, ElementOfSeq
    <3>6. j.todo \in Seq(1 .. m)
      <4>1. 1 .. n \subseteq 1 .. m
        BY <1>0, <3>1
      <4> QED
        BY <3>4, <4>1, SeqMonotonic
    <3>7. \A k \in DOMAIN i.todo : i.todo[k] < i.server
      BY <1>0, <3>3, <3>5
    <3>8. i.server \in 1 .. m
      BY <1>0, <3>1, <3>3
    <3> HIDE DEF n, m
    <3>9. KeptBy("listSources", i, m, clusters') /\ "listSources" \in Locs
      BY <3>3, <3>4, <3>6, <3>7, <3>8 DEF KeptBy, Locs
    <3>10. Entered(c) /\ pc'[c] = "listSources" /\ job'[c] = i
      BY <3>1, <3>3, <3>9, EnterIs DEF m
    <3> QED
      BY <2>0, <3>3, <3>10 DEF Continued, Requests, j
  <2> QED
    BY <2>1, <2>2
<1>4. CASE RegisterStorage(c)
  <2> DEFINE i == [j EXCEPT !.cluster = clusters + 1]
  <2>0. pc[c] = "register" /\ clusters' = clusters + 1 /\ Step(c, "insertServer", i)
    BY <1>4 DEF RegisterStorage, j
  <2>1. i \in Job /\ i.id = j.id /\ i.cluster = clusters + 1 /\ i.port = j.port
    BY <1>0, KeepCluster
  <2> HIDE DEF i
  <2>2. j.port \in 1 .. MaxPort /\ i.cluster \in 1 .. clusters'
    BY <1>0, <2>0, <2>1 DEF KeptBy
  <2>3. KeptBy("insertServer", i, m, clusters') /\ "insertServer" \in Locs
    BY <2>1, <2>2 DEF KeptBy, Locs
  <2>4. Entered(c) /\ pc'[c] = "insertServer" /\ job'[c] = i
    BY <2>0, <2>1, <2>3, EnterIs
  <2> QED
    BY <2>0, <2>1, <2>4 DEF Continued, Requests, j
<1>5. CASE CopySource(c)
  <2> DEFINE x    == Tail(j.rows)
             left == [j EXCEPT !.rows = x]
             y    == Tail(j.todo)
             more == [left EXCEPT !.todo = y]
  <2>0. /\ pc[c] = "copySource" /\ UNCHANGED <<servers, clusters>>
        /\ IF left.rows # <<>> THEN Step(c, "copySource", left)
           ELSE IF more.todo # <<>> THEN Step(c, "copyServer", NextServer(left)) ELSE Goto(c, "idle")
    <3>1. left.todo = j.todo
      BY <1>0 DEF Job
    <3> QED
      BY <1>5, <3>1 DEF CopySource, j, NextServer
  <2>1. /\ j.todo \in Seq(1 .. n) /\ j.todo # <<>> /\ j.server \in 1 .. n
        /\ \A k \in DOMAIN j.todo : j.todo[k] < j.server
        /\ j.rows \in Seq(SourceRow) /\ j.rows # <<>>
    BY <1>0, <2>0 DEF KeptBy
  <2>2. x \in Seq(SourceRow) /\ y \in Seq(1 .. n)
    BY <2>1, HeadTailProperties
  <2> HIDE DEF x, y
  <2>3. left \in Job /\ left.id = j.id /\ left.rows = x /\ left.todo = j.todo /\ left.server = j.server
    BY <1>0, <2>2, KeepRows
  <2> HIDE DEF left
  <2>4. more \in Job /\ more.id = j.id /\ more.todo = y
    BY <1>0, <2>2, <2>3, KeepTodo
  <2>5. NextServer(left) = more
    BY <2>3 DEF NextServer, more, y
  <2> HIDE DEF more
  <2>6. CASE x # <<>>
    <3>1. KeptBy("copySource", left, m, clusters') /\ "copySource" \in Locs
      BY <2>0, <2>1, <2>2, <2>3, <2>6 DEF KeptBy, Locs
    <3>2. Entered(c) /\ pc'[c] = "copySource" /\ job'[c] = left
      BY <2>0, <2>3, <2>6, <3>1, EnterIs
    <3> QED
      BY <2>0, <2>3, <3>2 DEF Continued, Requests, j
  <2>7. CASE x = <<>> /\ y # <<>>
    <3>1. KeptBy("copyServer", more, m, clusters') /\ "copyServer" \in Locs
      BY <2>0, <2>2, <2>4, <2>7 DEF KeptBy, Locs
    <3>2. Entered(c) /\ pc'[c] = "copyServer" /\ job'[c] = more
      BY <2>0, <2>3, <2>4, <2>5, <2>7, <3>1, EnterIs
    <3> QED
      BY <2>0, <2>4, <3>2 DEF Continued, Requests, j
  <2>8. CASE x = <<>> /\ y = <<>>
    <3>1. Goto(c, "idle")
      BY <2>0, <2>3, <2>4, <2>8
    <3> QED
      BY <3>1, LeaveIs DEF Continued
  <2> QED
    BY <2>6, <2>7, <2>8
<1>6. CASE AdoptSource(c)
  <2> DEFINE x    == Tail(j.rows)
             left == [j EXCEPT !.rows = x]
  <2>0. /\ pc[c] = "adoptSource" /\ UNCHANGED <<servers, clusters>>
        /\ IF Len(j.rows) > 1 THEN Step(c, "adoptSource", left) ELSE Goto(c, "idle")
    BY <1>6 DEF AdoptSource, j
  <2>1. /\ j.rows \in Seq(SourceRow) /\ j.rows # <<>> /\ j.server \in 1 .. n
        /\ \A k \in DOMAIN j.rows : j.rows[k].server = j.server /\ j.rows[k].by = j.id
    BY <1>0, <2>0 DEF KeptBy
  <2>2. CASE Len(j.rows) > 1
    <3>1. /\ x \in Seq(SourceRow) /\ Len(x) = Len(j.rows) - 1 /\ Len(j.rows) \in Nat
          /\ DOMAIN x = 1 .. Len(x) /\ DOMAIN j.rows = 1 .. Len(j.rows)
          /\ \A k \in 1 .. Len(x) : x[k] = j.rows[k + 1]
      BY <2>1, HeadTailProperties, LenProperties
    <3> HIDE DEF x
    <3>2. x # <<>>
      BY <2>2, <3>1, EmptySeq
    <3>3. \A k \in DOMAIN x : x[k].server = j.server /\ x[k].by = j.id
      <4>1. \A k \in DOMAIN x : k + 1 \in DOMAIN j.rows
        BY <3>1
      <4> QED
        BY <2>1, <3>1, <4>1
    <3>4. left \in Job /\ left.id = j.id /\ left.rows = x /\ left.server = j.server
      BY <1>0, <3>1, KeepRows
    <3> HIDE DEF left
    <3>5. KeptBy("adoptSource", left, m, clusters') /\ "adoptSource" \in Locs
      BY <2>0, <2>1, <3>1, <3>2, <3>3, <3>4 DEF KeptBy, Locs
    <3>6. Entered(c) /\ pc'[c] = "adoptSource" /\ job'[c] = left
      BY <2>0, <2>2, <3>4, <3>5, EnterIs
    <3> QED
      BY <2>0, <3>4, <3>6 DEF Continued, Requests, j
  <2>3. CASE ~(Len(j.rows) > 1)
    BY <2>0, <2>3, LeaveIs DEF Continued
  <2> QED
    BY <2>2, <2>3
<1> QED
  BY <1>1, <1>2, <1>3, <1>4, <1>5, <1>6 DEF Writes, FilesProjects, FilesServers, FilesSources

\* A request to the proxy begins with no id, and touches no table.
LEMMA RequestEnters ==
  ASSUME Tables, Calling, NEW c \in Clients, BeginRequest(c)
  PROVE  /\ Entered(c) /\ pc'[c] = "requestServers" /\ job'[c].id = 0 /\ ~job'[c].mixed
         /\ UNCHANGED <<projects, servers, sources, databases, clusters, asked, boot, restarts, born, unchecked>>
         /\ boot = "up" /\ pc[c] = "idle"
<1>1. PICK h \in Hosts : Step(c, "requestServers", [NoJob EXCEPT !.host = Lower(h)])
  BY DEF BeginRequest
<1> DEFINE host == Lower(h)
           i    == [NoJob EXCEPT !.host = host]
<1>2. host \in Hostnames
  BY DEF Hostnames
<1> HIDE DEF host
<1>3. i \in Job /\ i.id = 0 /\ ~i.mixed
  BY <1>2, NoJobIs DEF Job, NoJob
<1>4. Step(c, "requestServers", i)
  BY <1>1 DEF host
<1> HIDE DEF i
<1>5. KeptBy("requestServers", i, Len(servers'), clusters') /\ "requestServers" \in Locs
  BY DEF KeptBy, Locs
<1>6. Entered(c) /\ pc'[c] = "requestServers" /\ job'[c] = i
  BY <1>3, <1>4, <1>5, EnterIs
<1> QED
  BY <1>3, <1>6 DEF BeginRequest, tables

\* Whatever a request does, it has what it needs next, and the others have what they need.
LEMMA OthersKeep ==
  ASSUME Tables, Calling, Keeping, NEW c \in Clients, Entered(c), Tables', Grows
  PROVE  Keeping'
<1> SUFFICES ASSUME NEW k \in Clients
             PROVE  KeptBy(pc'[k], job'[k], Len(servers'), clusters')
  BY DEF Keeping
<1>1. CASE k = c
  BY <1>1 DEF Entered
<1>2. CASE k # c
  <2> DEFINE j == job[k]
             i == job'[k]
             l == pc[k]
             n == Len(servers)
             m == Len(servers')
  <2>1. j \in Job /\ KeptBy(l, j, n, clusters) /\ pc'[k] = l
    BY <1>2 DEF Calling, Keeping, Entered, Others
  <2>2. /\ i.id = j.id /\ i.port = j.port /\ i.cluster = j.cluster /\ i.todo = j.todo
        /\ i.server = j.server /\ i.rows = j.rows /\ i.host = j.host /\ i.database = j.database
    BY <1>2, <2>1 DEF Entered, Others, Job
  <2>3. n \in Nat /\ m \in Nat /\ n <= m /\ clusters \in Nat /\ clusters' \in Nat /\ clusters <= clusters'
    BY LenProperties DEF Tables, Grows
  <2>4. j.cluster \in Nat /\ j.server \in Nat
    BY <2>1 DEF Job
  <2> HIDE DEF j, i, l, n, m
  <2>5. \A x \in Seq(1 .. n) : x \in Seq(1 .. m)
    <3>1. 1 .. n \subseteq 1 .. m
      BY <2>3
    <3> QED
      BY <3>1, SeqMonotonic
  <2>6. j.cluster \in 1 .. clusters => j.cluster \in 1 .. clusters'
    BY <2>3, <2>4
  <2>7. j.server \in 1 .. n => j.server \in 1 .. m
    BY <2>3, <2>4
  <2>8. KeptBy(l, i, m, clusters')
    BY <2>1, <2>2, <2>5, <2>6, <2>7 DEF KeptBy
  <2> QED
    BY <2>1, <2>8 DEF l, i, m
<1> QED
  BY <1>1, <1>2

\* A handler's step, by what it is to the calls.
LEMMA HandlerIs ==
  ASSUME Order, NEW c \in Clients, Handler(c)
  PROVE  /\ Entered(c) /\ boot = "up" /\ UNCHANGED <<boot, restarts, born>>
         /\ asked \in 0 .. MaxAsked /\ asked' \in 0 .. MaxAsked /\ asked <= asked'
         /\ \/ Begins(c) /\ Begun(c) /\ asked' = asked + 1 /\ pc[c] = "idle"
            \/ BeginRequest(c) /\ pc'[c] = "requestServers" /\ job'[c].id = 0 /\ asked' = asked
            \/ (Reads(c) \/ Writes(c)) /\ Continued(c) /\ asked' = asked /\ pc[c] # "idle"
<1>1. Tables /\ Calling /\ Keeping /\ Loading /\ Grows /\ asked \in 0 .. MaxAsked
  BY NextTables DEF Order, Next, Calling
<1>2. CASE Begins(c)
  BY <1>1, <1>2, BeginsLeave, BeginsEnter, WorkspaceAssumption DEF Begun
<1>3. CASE BeginRequest(c)
  BY <1>1, <1>3, RequestEnters
<1>4. CASE Reads(c)
  BY <1>1, <1>4, ReadsLeave, ReadsContinue DEF Continued, Calling
<1>5. CASE Writes(c)
  BY <1>1, <1>5, WritesLeave, WritesContinue DEF Continued, Calling
<1> QED
  BY <1>2, <1>3, <1>4, <1>5, HandlerCases

\* Every step leaves every request with what its next step needs.
LEMMA NextCalling ==
  ASSUME Order, [Next]_vars
  PROVE  Calling' /\ Keeping'
<1>1. Tables /\ Calling /\ Keeping /\ Tables' /\ Grows
  BY NextTables DEF Order
<1>2. ASSUME NEW c \in Clients, Handler(c) PROVE Calling' /\ Keeping'
  <2>1. Entered(c) /\ boot = "up" /\ UNCHANGED <<boot, restarts>> /\ asked' \in 0 .. MaxAsked
    BY <1>2, HandlerIs
  <2>2. \A k \in Clients : pc'[k] = "idle" => job'[k] = NoJob
    BY <1>1, <2>1 DEF Entered, Others, Calling
  <2>3. Keeping'
    BY <1>1, <2>1, OthersKeep
  <2> QED
    BY <1>1, <2>1, <2>2, <2>3 DEF Calling, Entered
<1>3. CASE CountOrphans \/ AdoptOrphans
  <2>1. UNCHANGED <<pc, job, clusters, asked, restarts>> /\ boot' \in {"count", "adopt", "up"}
        /\ \A k \in Clients : pc[k] = "idle"
    BY <1>1, <1>3 DEF CountOrphans, AdoptOrphans, Calling
  <2>2. Keeping'
    BY <2>1 DEF Keeping, KeptBy
  <2> QED
    BY <1>1, <2>1, <2>2 DEF Calling
<1>4. CASE Restart
  <2>1. /\ pc' = [c \in Clients |-> "idle"] /\ job' = [c \in Clients |-> NoJob]
        /\ boot' = "count" /\ asked' = asked /\ restarts' \in 0 .. MaxRestarts
    BY <1>1, <1>4, WorkspaceAssumption DEF Restart, Calling
  <2>2. Keeping'
    BY <2>1 DEF Keeping, KeptBy
  <2> QED
    BY <1>1, <2>1, <2>2, NoJobIs DEF Calling, Locs
<1>5. CASE UNCHANGED vars
  BY <1>1, <1>5 DEF vars, Calling, Keeping
<1> QED
  BY <1>2, <1>3, <1>4, <1>5 DEF Next

-------------------------------------------------------------------------------
(* What rows refer to is there *)

\* No step takes away what a row refers to.
LEMMA NextReferences ==
  ASSUME Order, [Next]_vars
  PROVE  References'
<1>0. /\ Tables /\ Calling /\ Keeping /\ Numbering /\ References /\ Tables' /\ Grows
      /\ DOMAIN servers = 1 .. Len(servers) /\ DOMAIN servers' = 1 .. Len(servers')
      /\ Len(servers) \in Nat /\ Len(servers') \in Nat /\ clusters \in Nat /\ clusters' \in Nat
  BY NextTables, LenProperties DEF Order, Tables
<1>1. DOMAIN servers \subseteq DOMAIN servers' /\ 1 .. clusters \subseteq 1 .. clusters'
  BY <1>0 DEF Grows
<1>2. CASE UNCHANGED <<servers, sources, databases>>
  BY <1>0, <1>1, <1>2 DEF References
<1>3. CASE CountOrphans \/ Restart \/ UNCHANGED vars
  BY <1>2, <1>3 DEF CountOrphans, Restart, tables, vars
<1>4. CASE AdoptOrphans
  BY <1>0, <1>1, <1>4, AdopterIs, AdoptOrphansIs DEF References, AdoptOrphans
<1>5. ASSUME NEW c \in Clients, Handler(c) PROVE References'
  <2>1. CASE Begins(c) \/ Reads(c) \/ BeginRequest(c)
    BY <1>2, <2>1, BeginsLeave, ReadsLeave DEF BeginRequest, tables
  <2>2. CASE FilesProjects(c) \/ RegisterStorage(c)
    BY <1>2, <2>2, WritesLeave DEF Writes
  <2>3. CASE FilesServers(c)
    <3>1. UNCHANGED <<sources, databases, clusters>>
      BY <2>3, WritesLeave DEF Writes
    <3>2. \A s \in DOMAIN servers' : servers'[s].cluster \in 1 .. clusters
      <4>1. CASE Move(c)
        BY <1>0, <4>1, MoveIs DEF References
      <4>2. CASE InsertServer(c) /\ job[c].project \in projects \cup {None}
        <5>1. /\ Len(servers') = Len(servers) + 1 /\ \A s \in DOMAIN servers : servers'[s] = servers[s]
              /\ servers'[Len(servers) + 1].cluster \in 1 .. clusters
          BY <1>0, <4>2, InsertServerIs
        <5> QED
          BY <1>0, <5>1 DEF References
      <4>3. CASE CopyServer(c) /\ job[c].id \in projects
        <5>1. /\ Len(servers') = Len(servers) + 1 /\ \A s \in DOMAIN servers : servers'[s] = servers[s]
              /\ Head(job[c].todo) \in DOMAIN servers
              /\ servers'[Len(servers) + 1].cluster = servers[Head(job[c].todo)].cluster
          BY <1>0, <4>3, CopyServerIs
        <5> QED
          BY <1>0, <5>1 DEF References
      <4>4. CASE UNCHANGED servers
        BY <1>0, <4>4 DEF References
      <4> QED
        BY <2>3, <4>1, <4>2, <4>3, <4>4 DEF FilesServers, InsertServer, CopyServer
    <3> QED
      BY <1>0, <1>1, <3>1, <3>2 DEF References
  <2>4. CASE FilesSources(c)
    <3>1. UNCHANGED <<servers, databases, clusters>>
      BY <2>4, WritesLeave DEF Writes
    <3>2. job[c].server \in DOMAIN servers
      BY <1>0, <2>4 DEF FilesSources, CopySource, InsertSource, AdoptSource, Keeping, KeptBy
    <3>3. \E x \in SourceRow : x.server = job[c].server /\ More(sources', sources, x)
      <4>1. CASE CopySource(c)
        <5> DEFINE y == [job[c].rows[1] EXCEPT !.server = job[c].server]
        <5>1. job[c].rows[1] \in SourceRow /\ job[c].server \in Nat /\ More(sources', sources, y)
          BY <1>0, <4>1, CopySourceIs DEF Calling, Job
        <5>2. y \in SourceRow /\ y.server = job[c].server
          BY <5>1, MovedRow
        <5> QED
          BY <5>1, <5>2
      <4>2. CASE InsertSource(c)
        BY <1>0, <4>2, InsertSourceIs
      <4>3. CASE AdoptSource(c)
        <5>1. job[c].rows[1] \in SourceRow /\ 1 \in DOMAIN job[c].rows /\ More(sources', sources, job[c].rows[1])
          BY <1>0, <4>3, AdoptSourceIs
        <5>2. \A i \in DOMAIN job[c].rows : job[c].rows[i].server = job[c].server
          BY <1>0, <4>3 DEF AdoptSource, Keeping, KeptBy
        <5> QED
          BY <5>1, <5>2
      <4> QED
        BY <2>4, <4>1, <4>2, <4>3 DEF FilesSources
    <3>4. \A i \in DOMAIN sources' : sources'[i].server \in DOMAIN servers
      BY <1>0, <3>2, <3>3 DEF References, More
    <3> QED
      BY <1>0, <3>1, <3>4 DEF References
  <2>5. CASE FilesDatabases(c)
    <3>1. UNCHANGED <<servers, sources, clusters>>
      BY <2>5, WritesLeave DEF Writes
    <3>2. \A d \in DOMAIN databases' : databases'[d].server \in DOMAIN servers
      <4>1. CASE InsertDatabase(c) /\ ~UNCHANGED databases
        <5>1. job[c].server \in DOMAIN servers
          BY <1>0, <4>1 DEF InsertDatabase, Keeping, KeptBy
        <5>2. PICK x \in DatabaseRow : x.server = job[c].server /\ More(databases', databases, x)
          BY <1>0, <4>1, InsertDatabaseIs
        <5> QED
          BY <1>0, <5>1, <5>2 DEF References, More
      <4>2. CASE DropDatabase(c)
        BY <1>0, <4>2, DropDatabaseIs DEF References
      <4>3. CASE WriteDomain(c) \/ ClearDomain(c)
        <5>1. job[c].host \in Hostnames /\ NoHost \in Hostnames
          BY <1>0 DEF Calling, Job, Hostnames
        <5>2. DOMAIN databases' = DOMAIN databases
              /\ \A d \in DOMAIN databases : databases'[d].server = databases[d].server
          BY <1>0, <4>3, <5>1, SetDomainIs DEF WriteDomain, ClearDomain
        <5> QED
          BY <1>0, <5>2 DEF References
      <4>4. CASE UNCHANGED databases
        BY <1>0, <4>4 DEF References
      <4> QED
        BY <2>5, <4>1, <4>2, <4>3, <4>4 DEF FilesDatabases
    <3> QED
      BY <1>0, <3>1, <3>2 DEF References
  <2> QED
    BY <1>5, <2>1, <2>2, <2>3, <2>4, <2>5, HandlerCases DEF Writes
<1> QED
  BY <1>3, <1>4, <1>5 DEF Next

-------------------------------------------------------------------------------
(* A call's id is its own *)

\* Every step leaves the ids of calls apart.
LEMMA NextIds ==
  ASSUME Order, NEW c \in Clients, Handler(c)
  PROVE  /\ \A k \in Clients :
              /\ job'[k].id <= MaxGiven + asked'
              /\ pc'[k] \notin Requests \cup {"idle"} => job'[k].id > MaxGiven
         /\ \A k, l \in Clients : k # l /\ job'[k].id = job'[l].id => job'[k].id = 0
         /\ \A k \in Clients : k # c => job'[k].id = job[k].id /\ pc'[k] = pc[k]
<1>0. /\ Calling /\ Numbering /\ MaxGiven \in Nat
      /\ asked \in Nat /\ asked' \in Nat /\ asked <= asked' /\ Entered(c)
  BY HandlerIs, WorkspaceAssumption DEF Order
<1>1. \A k \in Clients : job[k] \in Job /\ job[k].id \in Nat /\ job'[k].id \in Nat
  BY <1>0 DEF Entered, Calling, Job
<1>2. \A k \in Clients : k # c => job'[k].id = job[k].id /\ pc'[k] = pc[k]
  BY <1>0, <1>1 DEF Entered, Others, Job
<1>3. \/ job'[c].id = MaxGiven + 1 + asked /\ asked' = asked + 1
      \/ job'[c].id = 0 /\ pc'[c] \in Requests \cup {"idle"} /\ asked' = asked
      \/ job'[c].id = job[c].id /\ pc[c] # "idle" /\ (pc[c] \in Requests <=> pc'[c] \in Requests) /\ asked' = asked
  <2>1. pc'[c] = "idle" => job'[c].id = 0
    BY <1>0 DEF Entered, NoJob
  <2> QED
    BY <2>1, HandlerIs DEF Begun, Continued, Requests
<1>4. \A k \in Clients : job[k].id <= MaxGiven + asked
                         /\ (pc[k] \notin Requests \cup {"idle"} => job[k].id > MaxGiven)
  BY <1>0 DEF Numbering
<1>5. \A k, l \in Clients : k # l /\ job[k].id = job[l].id => job[k].id = 0
  BY <1>0 DEF Numbering
<1>6. \A k \in Clients : job'[k].id <= MaxGiven + asked'
                         /\ (pc'[k] \notin Requests \cup {"idle"} => job'[k].id > MaxGiven)
  <2> SUFFICES ASSUME NEW k \in Clients
               PROVE  job'[k].id <= MaxGiven + asked'
                      /\ (pc'[k] \notin Requests \cup {"idle"} => job'[k].id > MaxGiven)
    OBVIOUS
  <2>1. CASE k # c
    BY <1>0, <1>1, <1>2, <1>4, <2>1
  <2>2. CASE k = c
    BY <1>0, <1>1, <1>3, <1>4, <2>2
  <2> QED
    BY <2>1, <2>2
<1>7. \A k, l \in Clients : k # l /\ job'[k].id = job'[l].id => job'[k].id = 0
  <2> SUFFICES ASSUME NEW k \in Clients, NEW l \in Clients, k # l, job'[k].id = job'[l].id
               PROVE  job'[k].id = 0
    OBVIOUS
  <2>1. CASE k # c /\ l # c
    BY <1>2, <1>5, <2>1
  <2>2. CASE k = c
    BY <1>0, <1>1, <1>2, <1>3, <1>4, <1>5, <2>2
  <2>3. CASE l = c
    BY <1>0, <1>1, <1>2, <1>3, <1>4, <1>5, <2>3
  <2> QED
    BY <2>1, <2>2, <2>3
<1> QED
  BY <1>2, <1>6, <1>7

\* A call that is about to give its id to a row finds no row that has it.
LEMMA NextNumbering ==
  ASSUME Order, [Next]_vars
  PROVE  Numbering'
<1>0. /\ Tables /\ Calling /\ Keeping /\ Numbering /\ MaxGiven \in Nat /\ asked \in Nat
      /\ \A k \in Clients : job[k].id \in Nat
      /\ \A d \in DOMAIN databases : databases[d] \in DatabaseRow
      /\ \A i \in DOMAIN sources : sources[i] \in SourceRow
  BY LenProperties, ElementOfSeq, WorkspaceAssumption DEF Order, Calling, Job, Tables
<1>1. /\ \A d \in DOMAIN databases : databases[d].id \in Nat
      /\ \A i \in DOMAIN sources : sources[i].by \in Nat
  BY <1>0, IdsAre DEF DatabaseRow, SourceRow
<1>2. CASE CountOrphans \/ AdoptOrphans \/ UNCHANGED vars
  BY <1>0, <1>2 DEF CountOrphans, AdoptOrphans, vars, Numbering
<1>3. CASE Restart
  <2>1. /\ pc' = [c \in Clients |-> "idle"] /\ job' = [c \in Clients |-> NoJob]
        /\ UNCHANGED <<asked, databases, sources>> /\ NoJob.id = 0
    BY <1>3 DEF Restart, tables, NoJob
  <2> QED
    BY <1>0, <2>1 DEF Numbering
<1>4. ASSUME NEW c \in Clients, Handler(c) PROVE Numbering'
  <2>0. /\ \A k \in Clients :
             /\ job'[k].id <= MaxGiven + asked'
             /\ pc'[k] \notin Requests \cup {"idle"} => job'[k].id > MaxGiven
        /\ \A k, l \in Clients : k # l /\ job'[k].id = job'[l].id => job'[k].id = 0
        /\ \A k \in Clients : k # c => job'[k].id = job[k].id /\ pc'[k] = pc[k]
        /\ asked' \in Nat /\ asked <= asked'
    BY <1>4, NextIds, HandlerIs DEF Order
  <2>1. /\ \A d \in DOMAIN databases : databases[d].id <= MaxGiven + asked /\ databases[d].id <= MaxGiven + asked'
        /\ \A i \in DOMAIN sources : sources[i].by <= MaxGiven + asked /\ sources[i].by <= MaxGiven + asked'
    BY <1>0, <1>1, <2>0 DEF Numbering
  <2>3. CASE Begins(c)
    <3>1. job'[c].id = MaxGiven + 1 + asked
      BY <1>0, <2>3, BeginsEnter DEF Begun
    <3>2. UNCHANGED <<sources, databases>>
      BY <2>3, BeginsLeave
    <3>3. /\ \A d \in DOMAIN databases : databases[d].id # job'[c].id
          /\ \A i \in DOMAIN sources : sources[i].by # job'[c].id
      BY <1>0, <1>1, <2>1, <3>1
    <3> QED
      BY <1>0, <2>0, <2>1, <3>2, <3>3 DEF Numbering
  <2>4. CASE FilesSources(c)
    <3>1. UNCHANGED databases /\ asked' = asked /\ pc[c] \in {"copySource", "insertSource", "adoptSource"}
      BY <2>4, WritesLeave DEF Writes, FilesSources, CopySource, InsertSource, AdoptSource
    <3>2. pc'[c] \notin {"insertSource", "taken", "insertDatabase", "adoptDatabase"}
      BY <1>0, <2>4, WritesContinue, NextTables DEF Writes, Continued, Order
    <3>3. PICK x \in SourceRow : /\ More(sources', sources, x)
                                 /\ x.by = job[c].id \/ \E i \in DOMAIN sources : x.by = sources[i].by
      <4>1. CASE CopySource(c)
        <5>1. pc[c] = "copySource" /\ 1 \in DOMAIN job[c].rows /\ job[c].rows[1] \in SourceRow
              /\ More(sources', sources, [job[c].rows[1] EXCEPT !.server = job[c].server])
          BY <1>0, <4>1, CopySourceIs DEF CopySource
        <5>2. \E i \in DOMAIN sources : sources[i] = job[c].rows[1]
          BY <5>1 DEF Order, Loading, Copying, CopiesRows
        <5>3. job[c].server \in Nat
          BY <1>0 DEF Calling, Job
        <5> DEFINE y == [job[c].rows[1] EXCEPT !.server = job[c].server]
        <5>4. y \in SourceRow /\ y.by = job[c].rows[1].by
          BY <5>1, <5>3, MovedRow
        <5> QED
          BY <5>1, <5>2, <5>4
      <4>2. CASE InsertSource(c)
        BY <1>0, <4>2, InsertSourceIs
      <4>3. CASE AdoptSource(c)
        <5>1. job[c].rows[1] \in SourceRow /\ 1 \in DOMAIN job[c].rows /\ More(sources', sources, job[c].rows[1])
          BY <1>0, <4>3, AdoptSourceIs
        <5>2. \A i \in DOMAIN job[c].rows : job[c].rows[i].by = job[c].id
          BY <1>0, <4>3 DEF AdoptSource, Keeping, KeptBy
        <5> QED
          BY <5>1, <5>2
      <4> QED
        BY <2>4, <4>1, <4>2, <4>3 DEF FilesSources
    <3>4. x.by <= MaxGiven + asked'
      BY <1>0, <2>1, <3>1, <3>3 DEF Numbering
    <3>5. \A k \in Clients : k # c /\ pc[k] \in {"insertSource", "taken"} => x.by # job[k].id
      <4> SUFFICES ASSUME NEW k \in Clients, k # c, pc[k] \in {"insertSource", "taken"} PROVE x.by # job[k].id
        OBVIOUS
      <4>1. job[k].id # job[c].id
        BY <1>0, <3>1, OwnId DEF Numbering, Requests
      <4>2. \A i \in DOMAIN sources : sources[i].by # job[k].id
        BY <1>0 DEF Numbering
      <4> QED
        BY <3>3, <4>1, <4>2
    <3>6. /\ \A i \in DOMAIN sources' : sources'[i].by <= MaxGiven + asked'
          /\ \A k \in Clients, i \in DOMAIN sources' :
               pc'[k] \in {"insertSource", "taken"} => sources'[i].by # job'[k].id
      BY <1>0, <2>0, <2>1, <3>2, <3>3, <3>4, <3>5, SMTT(30) DEF More, Numbering
    <3> QED
      BY <1>0, <2>0, <2>1, <3>1, <3>2, <3>6 DEF Numbering
  <2>5. CASE FilesDatabases(c)
    <3>1. UNCHANGED sources /\ asked' = asked
      BY <2>5, WritesLeave DEF Writes
    <3>2. pc'[c] \notin {"insertSource", "taken", "insertDatabase", "adoptDatabase"}
      BY <1>0, <2>5, WritesContinue, NextTables DEF Writes, Continued, Order
    <3>3. CASE UNCHANGED databases
      BY <1>0, <2>0, <2>1, <3>1, <3>2, <3>3 DEF Numbering
    <3>4. CASE InsertDatabase(c) /\ ~UNCHANGED databases
      <4>1. PICK x \in DatabaseRow : x.id = job[c].id /\ More(databases', databases, x)
        BY <1>0, <3>4, InsertDatabaseIs
      <4>2. pc[c] \in {"insertDatabase", "adoptDatabase"}
        BY <3>4 DEF InsertDatabase
      <4>3. \A d \in DOMAIN databases : databases[d].id # job[c].id
        BY <1>0, <4>2 DEF Numbering
      <4>4. \A k \in Clients : k # c /\ pc[k] \in {"insertDatabase", "adoptDatabase"} => job[k].id # job[c].id
        BY <1>0, <4>2, OwnId DEF Numbering, Requests
      <4>5. job[c].id <= MaxGiven + asked'
        BY <1>0, <3>1 DEF Numbering
      <4>6. \A d, e \in DOMAIN databases' : databases'[d].id = databases'[e].id => d = e
        BY <1>0, <4>1, <4>3 DEF More, Numbering
      <4>7. /\ \A d \in DOMAIN databases' : databases'[d].id <= MaxGiven + asked'
            /\ \A k \in Clients, d \in DOMAIN databases' : pc'[k] \in {"insertDatabase", "adoptDatabase"} => databases'[d].id # job'[k].id
        BY <1>0, <2>0, <2>1, <3>2, <4>1, <4>4, <4>5 DEF More, Numbering
      <4> QED
        BY <1>0, <2>0, <2>1, <3>1, <3>2, <4>6, <4>7 DEF Numbering
    <3>5. CASE DropDatabase(c)
      <4>1. /\ \A n \in DOMAIN databases' : \E i \in DOMAIN databases : databases'[n] = databases[i]
            /\ \A m, n \in DOMAIN databases' : m # n =>
                 \E i, k \in DOMAIN databases : i # k /\ databases'[m] = databases[i] /\ databases'[n] = databases[k]
        BY <1>0, <3>5, DropDatabaseIs
      <4>2. \A d, e \in DOMAIN databases' : databases'[d].id = databases'[e].id => d = e
        BY <1>0, <4>1 DEF Numbering
      <4>3. /\ \A d \in DOMAIN databases' : databases'[d].id <= MaxGiven + asked'
            /\ \A k \in Clients, d \in DOMAIN databases' : pc'[k] \in {"insertDatabase", "adoptDatabase"} => databases'[d].id # job'[k].id
        BY <1>0, <2>0, <2>1, <3>2, <4>1 DEF Numbering
      <4> QED
        BY <1>0, <2>0, <2>1, <3>1, <3>2, <4>2, <4>3 DEF Numbering
    <3>6. CASE WriteDomain(c) \/ ClearDomain(c)
      <4>1. job[c].host \in Hostnames /\ NoHost \in Hostnames
        BY <1>0 DEF Calling, Job, Hostnames
      <4>2. DOMAIN databases' = DOMAIN databases /\ \A d \in DOMAIN databases : databases'[d].id = databases[d].id
        BY <1>0, <3>6, <4>1, SetDomainIs DEF WriteDomain, ClearDomain
      <4> QED
        BY <1>0, <2>0, <2>1, <3>1, <3>2, <4>2 DEF Numbering
    <3> QED
      BY <2>5, <3>3, <3>4, <3>5, <3>6 DEF FilesDatabases
  <2>6. CASE BeginRequest(c) \/ Reads(c) \/ FilesProjects(c) \/ FilesServers(c) \/ RegisterStorage(c)
    <3>1. UNCHANGED <<sources, databases>>
      BY <2>6, ReadsLeave, WritesLeave DEF BeginRequest, tables, Writes
    <3>2. pc'[c] \notin {"insertSource", "taken", "insertDatabase", "adoptDatabase"}
      <4>1. CASE BeginRequest(c)
        BY <1>0, <4>1, RequestEnters
      <4>2. CASE ~BeginRequest(c)
        BY <1>0, <2>6, <4>2, ReadsContinue, WritesContinue, NextTables DEF Writes, Continued, Order, Next
      <4> QED
        BY <4>1, <4>2
    <3> QED
      BY <1>0, <2>0, <2>1, <3>1, <3>2 DEF Numbering
  <2> QED
    BY <1>4, <2>3, <2>4, <2>5, <2>6, HandlerCases DEF Writes
<1> QED
  BY <1>2, <1>3, <1>4 DEF Next

-------------------------------------------------------------------------------
(* Servers are filed *)

\* Every step leaves every Odoo filed that was there when the app was opened.
LEMMA NextFiling ==
  ASSUME Order, [Next]_vars
  PROVE  Filing'
<1>0. /\ Tables /\ Calling /\ Keeping /\ Filing
      /\ DOMAIN servers = 1 .. Len(servers) /\ Len(servers) \in Nat /\ born \in 0 .. Len(servers)
      /\ DOMAIN servers' = 1 .. Len(servers') /\ Len(servers') \in Nat
  BY NextTables, LenProperties DEF Order, Tables, Filing
<1>1. CASE CountOrphans
  <2>1. /\ UNCHANGED <<servers, born, restarts>> /\ boot = "count" /\ born = Len(servers)
        /\ projects \subseteq projects'
        /\ \/ Adopter \in projects' /\ boot' = "adopt"
           \/ (\A s \in DOMAIN servers : servers[s].project # None) /\ boot' = "up"
    BY <1>0, <1>1 DEF CountOrphans, Filing
  <2>2. Adopter' = Adopter
    BY <2>1 DEF Adopter
  <2> QED
    BY <1>0, <2>1, <2>2 DEF Filing, ServersAreFiled
<1>2. CASE AdoptOrphans
  <2>1. /\ UNCHANGED <<projects, born>> /\ boot = "adopt" /\ boot' = "up" /\ Adopter \in projects
    BY <1>0, <1>2 DEF AdoptOrphans, Filing
  <2>2. /\ Len(servers') = Len(servers)
        /\ \A s \in DOMAIN servers :
             servers'[s].project = IF servers[s].project = None THEN Adopter ELSE servers[s].project
    BY <1>0, <1>2, AdopterIs, AdoptOrphansIs
  <2>3. \A s \in DOMAIN servers : servers[s].project \in projects \cup {None}
    BY <1>0 DEF Filing, ServersAreFiled
  <2>4. Adopter # None
    BY <1>0, AdopterIs
  <2> QED
    BY <1>0, <2>1, <2>2, <2>3, <2>4 DEF Filing, ServersAreFiled
<1>3. CASE Restart
  <2>1. UNCHANGED <<servers, projects>> /\ boot' = "count" /\ born' = Len(servers)
    BY <1>3 DEF Restart, tables
  <2>2. \A s \in DOMAIN servers : servers[s].project \in projects \cup {None}
    BY <1>0 DEF Filing, ServersAreFiled
  <2>3. born' \in 0 .. Len(servers')
    BY <1>0, <2>1
  <2> QED
    BY <2>1, <2>2, <2>3 DEF Filing, ServersAreFiled
<1>4. CASE UNCHANGED vars
  BY <1>0, <1>4 DEF vars, Filing, ServersAreFiled, Adopter
<1>5. ASSUME NEW c \in Clients, Handler(c) PROVE Filing'
  <2>1. boot = "up" /\ UNCHANGED <<boot, born>>
    BY <1>5, HandlerIs
  <2>2. \A s \in DOMAIN servers : servers[s].project \in projects \cup {None}
                                  /\ (s <= born => servers[s].project # None)
    BY <1>0, <2>1 DEF Filing, ServersAreFiled
  <2>3. CASE UNCHANGED servers /\ projects \subseteq projects'
    BY <1>0, <2>1, <2>2, <2>3 DEF Filing, ServersAreFiled
  <2>4. CASE Begins(c) \/ Reads(c) \/ BeginRequest(c)
    BY <2>3, <2>4, BeginsLeave, ReadsLeave DEF BeginRequest, tables
  <2>5. CASE RegisterStorage(c) \/ FilesSources(c) \/ FilesDatabases(c)
    BY <2>3, <2>5, WritesLeave DEF Writes
  <2>6. CASE FilesProjects(c)
    <3>1. UNCHANGED servers
      BY <2>6, WritesLeave DEF Writes
    <3>2. CASE InsertProject(c) \/ CopyProject(c)
      BY <2>3, <3>1, <3>2 DEF InsertProject, CopyProject
    <3>3. CASE DeleteProject(c)
      <4>1. CASE Filed(job[c].project) = {}
        <5>1. \A s \in DOMAIN servers : servers[s].project # job[c].project
          BY <4>1 DEF Filed
        <5>2. projects' = projects \ {job[c].project}
          BY <3>3, <4>1 DEF DeleteProject
        <5> QED
          BY <1>0, <2>1, <2>2, <3>1, <5>1, <5>2 DEF Filing, ServersAreFiled
      <4>2. CASE Filed(job[c].project) # {}
        BY <2>3, <3>1, <3>3, <4>2 DEF DeleteProject
      <4> QED
        BY <4>1, <4>2
    <3> QED
      BY <2>6, <3>2, <3>3 DEF FilesProjects
  <2>7. CASE FilesServers(c)
    <3>1. UNCHANGED projects
      BY <2>7, WritesLeave DEF Writes
    <3>2. CASE Move(c)
      <4>1. /\ Len(servers') = Len(servers)
            /\ \A s \in DOMAIN servers :
                 servers'[s].project = servers[s].project \/ servers'[s].project \in projects
        BY <1>0, <3>2, MoveIs
      <4>2. None \notin projects
        BY <1>0, IdsAre DEF Tables, None
      <4> QED
        BY <1>0, <2>1, <2>2, <3>1, <4>1, <4>2 DEF Filing, ServersAreFiled
    <3>3. CASE InsertServer(c) /\ job[c].project \in projects \cup {None}
      <4>1. /\ Len(servers') = Len(servers) + 1 /\ \A s \in DOMAIN servers : servers'[s] = servers[s]
            /\ servers'[Len(servers) + 1].project \in projects \cup {None}
        BY <1>0, <3>3, InsertServerIs
      <4>2. \A s \in DOMAIN servers' : s \in DOMAIN servers \/ (s = Len(servers) + 1 /\ ~(s <= born))
        BY <1>0, <2>1, <4>1 DEF Filing
      <4>3. \A s \in DOMAIN servers' : servers'[s].project \in projects \cup {None}
                                       /\ (s <= born => servers'[s].project # None)
        BY <2>2, <4>1, <4>2
      <4>4. born \in 0 .. Len(servers')
        BY <1>0, <2>1, <4>1 DEF Filing
      <4> QED
        BY <2>1, <3>1, <4>3, <4>4 DEF Filing, ServersAreFiled
    <3>4. CASE CopyServer(c) /\ job[c].id \in projects
      <4>1. /\ Len(servers') = Len(servers) + 1 /\ \A s \in DOMAIN servers : servers'[s] = servers[s]
            /\ servers'[Len(servers) + 1].project \in projects \cup {None}
        BY <1>0, <3>4, CopyServerIs
      <4>2. \A s \in DOMAIN servers' : s \in DOMAIN servers \/ (s = Len(servers) + 1 /\ ~(s <= born))
        BY <1>0, <2>1, <4>1 DEF Filing
      <4>3. \A s \in DOMAIN servers' : servers'[s].project \in projects \cup {None}
                                       /\ (s <= born => servers'[s].project # None)
        BY <2>2, <4>1, <4>2
      <4>4. born \in 0 .. Len(servers')
        BY <1>0, <2>1, <4>1 DEF Filing
      <4> QED
        BY <2>1, <3>1, <4>3, <4>4 DEF Filing, ServersAreFiled
    <3>5. CASE UNCHANGED servers
      BY <2>3, <3>1, <3>5
    <3> QED
      BY <2>7, <3>2, <3>3, <3>4, <3>5 DEF FilesServers, InsertServer, CopyServer
  <2> QED
    BY <1>5, <2>4, <2>5, <2>6, <2>7, HandlerCases DEF Writes
<1> QED
  BY <1>1, <1>2, <1>3, <1>4, <1>5 DEF Next

-------------------------------------------------------------------------------
(* A copy that nobody disturbed knows every port *)

\* A step after which the servers are other than others have seen leaves its mark on them.
LEMMA NewServersDisturb ==
  ASSUME Order, NEW c \in Clients, Handler(c)
  PROVE  \/ /\ Len(servers') = Len(servers) /\ DOMAIN servers' = DOMAIN servers
            /\ \A s \in DOMAIN servers : servers'[s].port = servers[s].port
         \/ /\ InsertServer(c) \/ (CopyServer(c) /\ job[c].id \in projects)
            /\ \A k \in Clients : k # c /\ pc[k] # "idle" => job'[k].mixed
<1>0. Tables /\ Calling /\ Tables' /\ DOMAIN servers = 1 .. Len(servers) /\ DOMAIN servers' = 1 .. Len(servers')
  BY NextTables, LenProperties DEF Order, Tables, Next
<1>1. CASE Begins(c) \/ Reads(c) \/ BeginRequest(c)
  BY <1>0, <1>1, BeginsLeave, ReadsLeave DEF BeginRequest, tables
<1>2. CASE RegisterStorage(c) \/ FilesSources(c) \/ FilesDatabases(c) \/ FilesProjects(c)
  BY <1>0, <1>2, WritesLeave DEF Writes
<1>3. CASE Move(c)
  BY <1>0, <1>3, MoveIs
<1>4. CASE InsertServer(c)
  <2>1. CASE job[c].project \in projects \cup {None}
    <3>1. Disturb(c, "idle", NoJob)
      BY <1>4, <2>1 DEF InsertServer
    <3> QED
      BY <1>0, <1>4, <3>1, DisturbIs
  <2>2. CASE job[c].project \notin projects \cup {None}
    BY <1>0, <1>4, <2>2 DEF InsertServer
  <2> QED
    BY <2>1, <2>2
<1>5. CASE CopyServer(c)
  <2>1. CASE job[c].id \in projects
    <3>1. PICK j : Disturb(c, "listSources", j)
      BY <1>5, <2>1 DEF CopyServer
    <3>2. \A k \in Clients : k # c /\ pc[k] # "idle" => job'[k].mixed
      BY <1>0, <3>1, DisturbIs
    <3> QED
      BY <1>5, <2>1, <3>2
  <2>2. CASE job[c].id \notin projects
    BY <1>0, <1>5, <2>2 DEF CopyServer
  <2> QED
    BY <2>1, <2>2
<1> QED
  BY <1>1, <1>2, <1>3, <1>4, <1>5, HandlerCases DEF Writes, FilesServers

\* Between reading the ports and copying an Odoo, a copy keeps the ports it knows.
LEMMA CopiesGoOn ==
  ASSUME Order, NEW c \in Clients, Handler(c), ~UsedPorts(c), ~CopyServer(c), pc'[c] \in Copies
  PROVE  pc[c] \in Copies /\ job'[c].used = job[c].used /\ (job'[c].mixed <=> job[c].mixed)
         /\ ~InsertServer(c)
<1>0. Calling /\ job[c] \in Job
  BY DEF Order, Calling
<1>1. \A l, j : Step(c, l, j) => pc'[c] = l /\ job'[c] = j
  BY <1>0, StepIs
<1>2. \A l : Goto(c, l) => pc'[c] = l
  BY <1>0, <1>1, GotoIs
<1>3. \A l, j : Disturb(c, l, j) => pc'[c] = l
  BY <1>0 DEF Disturb, Calling
<1>4. ~Begins(c) /\ ~BeginRequest(c)
  BY HandlerIs, BeginsEnter, RequestEnters DEF Order, Begun, Starts, Copies
<1>5. ListServers(c) \/ ListSources(c) \/ CopySource(c)
  <2>1. CASE Reads(c)
    BY <1>1, <1>2, <2>1 DEF Reads, Copies, CountServers, EnsureStorage, TakenPaths, RouteServers,
       CheckClash, RequestServers, Resolve, Forward
  <2>2. CASE Writes(c)
    BY <1>1, <1>2, <1>3, <2>2 DEF Writes, Copies, FilesProjects, FilesServers, FilesSources, FilesDatabases,
       InsertProject, DeleteProject, CopyProject, Move, InsertServer, RegisterStorage, InsertSource,
       AdoptSource, InsertDatabase, DropDatabase, WriteDomain, ClearDomain
  <2> QED
    BY <1>4, <2>1, <2>2, HandlerCases
<1>6. \A x : LET i == [job[c] EXCEPT !.todo = x] IN i.used = job[c].used /\ (i.mixed <=> job[c].mixed)
  BY <1>0 DEF Job
<1>7. \A x : LET i == [job[c] EXCEPT !.rows = x] IN i.used = job[c].used /\ (i.mixed <=> job[c].mixed)
  BY <1>0 DEF Job
<1>8. CASE ListServers(c)
  BY <1>1, <1>2, <1>6, <1>8 DEF ListServers, Copies, InsertServer
<1>9. CASE ListSources(c)
  BY <1>1, <1>2, <1>6, <1>7, <1>9, ZenonT(40) DEF ListSources, NextServer, Copies, InsertServer
<1>10. CASE CopySource(c)
  <2> DEFINE left == [job[c] EXCEPT !.rows = Tail(@)]
             more == NextServer(left)
  <2>1. left.used = job[c].used /\ (left.mixed <=> job[c].mixed)
    BY <1>7
  <2>2. DOMAIN left = DOMAIN job[c]
    OBVIOUS
  <2>3. more.used = job[c].used /\ (more.mixed <=> job[c].mixed)
    <3> HIDE DEF left
    <3> QED
      BY <1>0, <2>1, <2>2 DEF NextServer, Job
  <2>4. /\ pc[c] = "copySource"
        /\ Step(c, "copySource", left) \/ Step(c, "copyServer", more) \/ Goto(c, "idle")
    BY <1>10 DEF CopySource
  <2> HIDE DEF left, more
  <2> QED
    BY <1>1, <1>2, <2>1, <2>3, <2>4 DEF Copies, InsertServer
<1> QED
  BY <1>5, <1>8, <1>9, <1>10

\* A copy that nobody disturbed knows every port there is, after every step.
LEMMA NextPorting ==
  ASSUME Order, [Next]_vars
  PROVE  Porting'
<1>0. Tables /\ Calling /\ Keeping /\ Porting /\ Calling' /\ DOMAIN servers = 1 .. Len(servers) /\ Len(servers) \in Nat
      /\ DOMAIN servers' = 1 .. Len(servers')
  BY NextTables, NextCalling, LenProperties DEF Order, Tables
<1>1. CASE CountOrphans \/ AdoptOrphans
  <2>1. \A c \in Clients : pc'[c] = "idle"
    BY <1>0, <1>1 DEF CountOrphans, AdoptOrphans, Calling
  <2> QED
    BY <2>1 DEF Porting, Copies
<1>2. CASE Restart
  BY <1>2 DEF Restart, Porting, Copies
<1>3. CASE UNCHANGED vars
  BY <1>0, <1>3 DEF vars, Porting
<1>4. ASSUME NEW c \in Clients, Handler(c), NEW k \in Clients, pc'[k] \in Copies, ~job'[k].mixed,
             NEW s \in DOMAIN servers'
      PROVE  servers'[s].port \in job'[k].used
  <2>1. CASE k # c
    <3>1. pc'[k] = pc[k] /\ pc[k] # "idle" /\ job[k] \in Job
          /\ (job'[k] = job[k] \/ job'[k] = [job[k] EXCEPT !.mixed = TRUE])
      BY <1>0, <1>4, <2>1, HandlerIs DEF Entered, Others, Copies, Calling
    <3>2. job'[k] = job[k]
      BY <1>4, <3>1 DEF Job
    <3>3. DOMAIN servers' = DOMAIN servers /\ servers'[s].port = servers[s].port
      BY <1>4, <2>1, <3>1, NewServersDisturb
    <3> QED
      BY <1>0, <1>4, <3>1, <3>2, <3>3 DEF Porting
  <2>2. CASE k = c /\ UsedPorts(c)
    <3> DEFINE u == {servers[n].port : n \in DOMAIN servers}
    <3>1. UNCHANGED servers /\ Step(c, "listed", [job[c] EXCEPT !.used = u, !.mixed = FALSE])
      BY <2>2 DEF UsedPorts, tables
    <3>2. servers[s].port \in u
      BY <1>4, <3>1
    <3>3. job'[c] = [job[c] EXCEPT !.used = u, !.mixed = FALSE] /\ job[c] \in Job
      BY <1>0, <3>1, StepIs DEF Calling
    <3> HIDE DEF u
    <3>4. job'[c].used = u
      BY <3>3 DEF Job
    <3> QED
      BY <2>2, <3>1, <3>2, <3>4
  <2>3. CASE k = c /\ CopyServer(c)
    <3>1. CASE job[c].id \notin projects
      <4>1. pc'[c] = "idle"
        BY <1>0, <2>3, <3>1, LeaveIs DEF CopyServer
      <4> QED
        BY <1>4, <2>3, <4>1 DEF Copies
    <3>2. CASE job[c].id \in projects
      <4> DEFINE port == NextFreePort(servers[Head(job[c].todo)].port, job[c].used)
                 u    == job[c].used \cup {port}
                 i    == [job[c] EXCEPT !.used = u, !.server = Len(servers) + 1]
      <4>1. /\ Len(servers') = Len(servers) + 1 /\ \A n \in DOMAIN servers : servers'[n] = servers[n]
            /\ servers'[Len(servers) + 1].port = port /\ Disturb(c, "listSources", i)
        BY <1>0, <2>3, <3>2, CopyServerIs
      <4>2. port \in u /\ \A n \in job[c].used : n \in u
        OBVIOUS
      <4> HIDE DEF port, u
      <4>3. job'[c] = i /\ job[c] \in Job
        BY <1>0, <4>1, DisturbIs DEF Calling
      <4>4. i.used = u /\ (i.mixed <=> job[c].mixed)
        BY <4>3 DEF Job
      <4>5. pc[c] \in Copies /\ ~job[c].mixed
        BY <1>4, <2>3, <4>3, <4>4 DEF CopyServer, Copies
      <4>6. \A n \in DOMAIN servers : servers[n].port \in u
        BY <1>0, <4>2, <4>5 DEF Porting
      <4> HIDE DEF i
      <4> QED
        BY <1>0, <1>4, <2>3, <4>1, <4>2, <4>3, <4>4, <4>6
    <3> QED
      BY <3>1, <3>2
  <2>4. CASE k = c /\ ~UsedPorts(c) /\ ~CopyServer(c)
    <3>1. pc[c] \in Copies /\ job'[c].used = job[c].used /\ ~job[c].mixed /\ ~InsertServer(c)
      BY <1>4, <2>4, CopiesGoOn
    <3>2. DOMAIN servers' = DOMAIN servers /\ servers'[s].port = servers[s].port
      BY <1>4, <2>4, <3>1, NewServersDisturb
    <3> QED
      BY <1>0, <1>4, <2>4, <3>1, <3>2 DEF Porting
  <2> QED
    BY <2>1, <2>2, <2>3, <2>4
<1>5. ASSUME NEW c \in Clients, Handler(c) PROVE Porting'
  BY <1>4, <1>5 DEF Porting
<1> QED
  BY <1>1, <1>2, <1>3, <1>5 DEF Next

-------------------------------------------------------------------------------
(* Who shares a hostname is on record *)

Recorded(dbs, pairs) ==
  \A d, e \in DOMAIN dbs : d # e /\ Hostname(dbs[d]) = Hostname(dbs[e]) => {dbs[d].id, dbs[e].id} \in pairs

\* A domain that nobody else had when it was compared, with nothing between, is recorded
\* as compared; any other as not compared.
LEMMA SetDomainRecords ==
  ASSUME Tables, Recorded(databases, unchecked), NEW id, NEW host \in Hostnames, SetDomain(id, host),
         \A d, e \in DOMAIN databases : databases[d].id = databases[e].id => d = e,
         NEW new,
         \/ new = unchecked \cup PairsOf(id)
         \/ /\ new = unchecked \ PairsOf(id) /\ host # NoHost
            /\ \A d \in DOMAIN databases : Hostname(databases[d]) = host => databases[d].id = id
  PROVE  Recorded(databases', new)
<1>1. /\ DOMAIN databases' = DOMAIN databases
      /\ \A d \in DOMAIN databases :
           /\ databases'[d].id = databases[d].id /\ databases'[d].name = databases[d].name
           /\ databases'[d].domain = IF databases[d].id = id THEN host ELSE databases[d].domain
  BY SetDomainIs
<1>2. SUFFICES ASSUME NEW d \in DOMAIN databases, NEW e \in DOMAIN databases, d # e,
                      Hostname(databases'[d]) = Hostname(databases'[e])
               PROVE  {databases[d].id, databases[e].id} \in new
  BY <1>1 DEF Recorded
<1>3. databases[d].id # databases[e].id
  BY <1>2
<1>4. \A n \in DOMAIN databases : databases[n].id # id => Hostname(databases'[n]) = Hostname(databases[n])
  BY <1>1 DEF Hostname
<1>5. CASE databases[d].id # id /\ databases[e].id # id
  <2>1. {databases[d].id, databases[e].id} \in unchecked
    BY <1>2, <1>4, <1>5 DEF Recorded
  <2>2. {databases[d].id, databases[e].id} \notin PairsOf(id)
    BY <1>5 DEF PairsOf
  <2> QED
    BY <2>1, <2>2
<1>6. CASE databases[d].id = id \/ databases[e].id = id
  <2>1. {databases[d].id, databases[e].id} \in PairsOf(id)
    <3>1. CASE databases[d].id = id
      <4>1. {id, databases[e].id} # {id}
        BY <1>3, <3>1
      <4> QED
        BY <3>1, <4>1 DEF PairsOf
    <3>2. CASE databases[e].id = id
      <4>1. {id, databases[d].id} # {id} /\ {databases[d].id, id} = {id, databases[d].id}
        BY <1>3, <3>2
      <4> QED
        BY <3>2, <4>1 DEF PairsOf
    <3> QED
      BY <1>6, <3>1, <3>2
  <2>2. CASE new = unchecked \cup PairsOf(id)
    BY <2>1, <2>2
  <2>3. CASE new # unchecked \cup PairsOf(id)
    <3>1. /\ host # NoHost
          /\ \A n \in DOMAIN databases : Hostname(databases[n]) = host => databases[n].id = id
      BY <2>3
    <3>2. \A n \in DOMAIN databases : databases[n].id = id => Hostname(databases'[n]) = host
      BY <1>1, <3>1 DEF Hostname
    <3>3. CASE databases[d].id = id
      <4>1. Hostname(databases[e]) = host
        BY <1>2, <1>3, <1>4, <3>2, <3>3
      <4> QED
        BY <1>3, <3>1, <3>3, <4>1
    <3>4. CASE databases[e].id = id
      <4>1. Hostname(databases[d]) = host
        BY <1>2, <1>3, <1>4, <3>2, <3>4
      <4> QED
        BY <1>3, <3>1, <3>4, <4>1
    <3> QED
      BY <1>6, <3>3, <3>4
  <2> QED
    BY <2>2, <2>3
<1> QED
  BY <1>5, <1>6

\* Where a domain is compared and written.
Comparing(c) ==
  ~job[c].mixed =>
    /\ pc[c] = "clash" => job[c].seen = Len(servers)
    /\ pc[c] = "writeDomain" =>
         \A d \in DOMAIN databases : Hostname(databases[d]) = job[c].host => databases[d].id = job[c].database

\* Hosting is that everything shared is recorded, and everything compared still holds.
LEMMA HostingIs ==
  Hosting <=> /\ unchecked \subseteq SUBSET Ids /\ Recorded(databases, unchecked)
              /\ \A c \in Clients : Comparing(c)
BY DEF Hosting, Recorded, Comparing

\* What a request sees when it compares.
LEMMA CheckClashCompares ==
  ASSUME Tables, Calling, References, NEW c \in Clients, CheckClash(c), Comparing(c), pc'[c] = "writeDomain",
         ~job'[c].mixed
  PROVE  /\ job'[c] = job[c]
         /\ \A d \in DOMAIN databases : Hostname(databases[d]) = job[c].host => databases[d].id = job[c].database
<1>1. ~Clash(Routes(job[c].seen), job[c].host, job[c].database) /\ Goto(c, "writeDomain") /\ pc[c] = "clash"
  BY LeaveIs DEF CheckClash
<1>2. job'[c] = job[c]
  BY <1>1 DEF Goto
<1>3. job[c].seen = Len(servers)
  BY <1>1, <1>2 DEF Comparing
<1>4. \A d \in DOMAIN databases : databases[d].server <= job[c].seen
  BY <1>3, LenProperties DEF References, Tables
<1>5. \A d \in DOMAIN databases : \E n \in DOMAIN Routes(job[c].seen) : Routes(job[c].seen)[n] = databases[d]
  BY <1>4, RoutesIs
<1> QED
  BY <1>1, <1>2, <1>5 DEF Clash

\* A domain that was compared is still nobody else's, unless the request was disturbed.
LEMMA NextComparing ==
  ASSUME Order, NEW c \in Clients, Handler(c), NEW k \in Clients
  PROVE  Comparing(k)'
<1>0. /\ Tables /\ Calling /\ Keeping /\ References /\ Calling' /\ Comparing(k) /\ job[k] \in Job /\ Entered(c)
      /\ Len(servers') \in Nat
  BY NextTables, NextCalling, HandlerIs, HostingIs, LenProperties DEF Order, Tables, Calling, Next
<1>1. SUFFICES ASSUME ~job'[k].mixed, pc'[k] \in {"clash", "writeDomain"}
               PROVE  Comparing(k)'
  BY DEF Comparing
<1>2. CASE k # c
  <2>1. pc'[k] = pc[k] /\ pc[k] # "idle" /\ job'[k] = job[k]
    BY <1>0, <1>1, <1>2 DEF Entered, Others, Job
  <2>2. Len(servers') = Len(servers)
    BY <1>1, <1>2, <2>1, NewServersDisturb
  <2>3. \A n \in DOMAIN databases' : \E d \in DOMAIN databases : databases'[n] = databases[d]
    <3>1. CASE ~FilesDatabases(c)
      <4>1. UNCHANGED databases
        BY <3>1, BeginsLeave, ReadsLeave, WritesLeave, HandlerCases DEF BeginRequest, tables, Writes
      <4> QED
        BY <4>1
    <3>2. CASE UNCHANGED databases
      BY <3>2
    <3>3. CASE DropDatabase(c)
      BY <1>0, <3>3, DropDatabaseIs
    <3>4. CASE Disturb(c, "idle", NoJob)
      BY <1>0, <1>1, <1>2, <2>1, <3>4, DisturbIs
    <3> QED
      BY <3>1, <3>2, <3>3, <3>4 DEF FilesDatabases, InsertDatabase, WriteDomain, ClearDomain
  <2> QED
    BY <1>0, <1>1, <2>1, <2>2, <2>3 DEF Comparing
<1>3. CASE k = c
  <2>0. ~Begins(c) /\ ~BeginRequest(c)
    BY <1>0, <1>1, <1>3, BeginsEnter, RequestEnters DEF Begun, Starts
  <2>1. RouteServers(c) \/ CheckClash(c)
    <3>1. \A l, j : Step(c, l, j) => pc'[c] = l
      BY <1>0, StepIs
    <3>2. \A l : Goto(c, l) => pc'[c] = l
      BY <1>0, <3>1, GotoIs
    <3>3. \A l, j : Disturb(c, l, j) => pc'[c] = l
      BY <1>0 DEF Disturb, Calling
    <3>4. CASE Reads(c)
      BY <1>1, <1>3, <3>1, <3>2, <3>4 DEF Reads, CountServers, EnsureStorage, UsedPorts, ListServers, ListSources,
         TakenPaths, RequestServers, Resolve, Forward
    <3>5. CASE Writes(c)
      BY <1>1, <1>3, <3>1, <3>2, <3>3, <3>5 DEF Writes, FilesProjects, FilesServers, FilesSources, FilesDatabases,
         InsertProject, DeleteProject, CopyProject, Move, InsertServer, CopyServer, RegisterStorage, CopySource,
         InsertSource, AdoptSource, InsertDatabase, DropDatabase, WriteDomain, ClearDomain
    <3> QED
      BY <2>0, <3>4, <3>5, HandlerCases
  <2>2. UNCHANGED <<servers, databases>>
    BY <2>1, ReadsLeave DEF Reads
  <2>3. CASE RouteServers(c)
    <3> DEFINE n == Len(servers)
    <3>1. Step(c, "clash", [job[c] EXCEPT !.seen = n])
      BY <2>3 DEF RouteServers
    <3>2. pc'[c] = "clash" /\ job'[c] = [job[c] EXCEPT !.seen = n]
      BY <1>0, <3>1, StepIs
    <3>3. job'[c].seen = n
      BY <1>0, <1>3, <3>2 DEF Job
    <3> QED
      BY <1>3, <2>2, <3>2, <3>3 DEF Comparing
  <2>4. CASE CheckClash(c)
    <3>1. pc'[c] = "writeDomain"
      BY <1>0, <1>1, <1>3, <2>4, LeaveIs DEF CheckClash, Goto, Calling
    <3>2. /\ job'[c] = job[c]
          /\ \A d \in DOMAIN databases : Hostname(databases[d]) = job[c].host => databases[d].id = job[c].database
      BY <1>0, <1>1, <1>3, <2>4, <3>1, CheckClashCompares
    <3> QED
      BY <1>3, <2>2, <3>1, <3>2 DEF Comparing
  <2> QED
    BY <2>1, <2>3, <2>4
<1> QED
  BY <1>2, <1>3

\* The pairs of a database are those of its id with each other id.
LEMMA PairsAre ==
  ASSUME Tables, NEW id \in Ids
  PROVE  PairsOf(id) \subseteq SUBSET Ids
<1>1. \A d \in DOMAIN databases : databases[d].id \in Ids
  <2>1. \A d \in DOMAIN databases : databases[d] \in DatabaseRow
    BY LenProperties, ElementOfSeq DEF Tables
  <2> QED
    BY <2>1 DEF DatabaseRow
<1> QED
  BY <1>1 DEF PairsOf

\* Every step leaves every pair with one hostname on record.
LEMMA NextHosting ==
  ASSUME Order, [Next]_vars
  PROVE  Hosting'
<1>0. /\ Tables /\ Calling /\ Keeping /\ Numbering /\ References /\ Calling' /\ Tables'
      /\ unchecked \subseteq SUBSET Ids /\ Recorded(databases, unchecked) /\ \A c \in Clients : Comparing(c)
      /\ \A d, e \in DOMAIN databases : databases[d].id = databases[e].id => d = e
  BY NextTables, NextCalling, HostingIs DEF Order, Numbering
<1>1. CASE CountOrphans \/ AdoptOrphans \/ Restart
  <2>1. \A c \in Clients : pc'[c] = "idle"
    BY <1>0, <1>1 DEF CountOrphans, AdoptOrphans, Restart, Calling
  <2>2. UNCHANGED <<databases, unchecked>>
    BY <1>1 DEF CountOrphans, AdoptOrphans, Restart, tables
  <2> QED
    BY <1>0, <2>1, <2>2 DEF Hosting, Recorded
<1>2. CASE UNCHANGED vars
  BY <1>0, <1>2 DEF vars, Hosting, Recorded, Comparing
<1>3. ASSUME NEW c \in Clients, Handler(c) PROVE Hosting'
  <2>1. \A k \in Clients : Comparing(k)'
    BY <1>3, NextComparing
  <2>2. unchecked' \subseteq SUBSET Ids /\ Recorded(databases', unchecked')
    <3>1. CASE UNCHANGED <<databases, unchecked>>
      BY <1>0, <3>1
    <3>2. CASE ~FilesDatabases(c)
      BY <1>3, <3>1, <3>2, BeginsLeave, ReadsLeave, WritesLeave, HandlerCases DEF BeginRequest, tables, Writes
    <3>3. CASE InsertDatabase(c)
      <4>1. CASE UNCHANGED databases
        <5>1. UNCHANGED unchecked
          <6>1. \A x : Append(databases, x) # databases
            BY <1>0, HeadTailProperties DEF Tables
          <6> QED
            BY <3>3, <4>1, <6>1 DEF InsertDatabase
        <5> QED
          BY <3>1, <4>1, <5>1
      <4>2. CASE ~UNCHANGED databases
        <5>1. PICK x \in DatabaseRow : x.id = job[c].id /\ More(databases', databases, x)
          BY <1>0, <3>3, <4>2, InsertDatabaseIs
        <5>2. unchecked' = unchecked \cup PairsOf(x.id)
          BY <1>0, <3>3, <4>2, <5>1, InsertDatabaseIs
        <5>3. x.id \in Ids /\ PairsOf(x.id) \subseteq SUBSET Ids
          BY <1>0, PairsAre DEF DatabaseRow
        <5>4. \A d \in DOMAIN databases : databases[d].id # x.id
          BY <1>0, <3>3, <5>1 DEF InsertDatabase, Numbering
        <5>5. \A d \in DOMAIN databases : {databases[d].id, x.id} \in PairsOf(x.id) /\ {x.id, databases[d].id} \in PairsOf(x.id)
          <6> SUFFICES ASSUME NEW d \in DOMAIN databases
                       PROVE  {databases[d].id, x.id} \in PairsOf(x.id) /\ {x.id, databases[d].id} \in PairsOf(x.id)
            OBVIOUS
          <6>1. {x.id, databases[d].id} # {x.id} /\ {databases[d].id, x.id} = {x.id, databases[d].id}
            BY <5>4
          <6> QED
            BY <6>1 DEF PairsOf
        <5>6. Recorded(databases', unchecked')
          <6> SUFFICES ASSUME NEW d \in DOMAIN databases', NEW e \in DOMAIN databases', d # e,
                              Hostname(databases'[d]) = Hostname(databases'[e])
                       PROVE  {databases'[d].id, databases'[e].id} \in unchecked'
            BY DEF Recorded
          <6>1. CASE d \in DOMAIN databases /\ e \in DOMAIN databases
            BY <1>0, <5>1, <5>2, <6>1 DEF More, Recorded
          <6>2. CASE d \notin DOMAIN databases \/ e \notin DOMAIN databases
            <7>1. \/ d \in DOMAIN databases /\ databases'[d] = databases[d] /\ databases'[e] = x
                  \/ e \in DOMAIN databases /\ databases'[e] = databases[e] /\ databases'[d] = x
              BY <5>1, <6>2 DEF More
            <7> QED
              BY <5>2, <5>5, <7>1
          <6> QED
            BY <6>1, <6>2
        <5> QED
          BY <1>0, <5>2, <5>3, <5>6
      <4> QED
        BY <4>1, <4>2
    <3>4. CASE DropDatabase(c)
      <4>1. UNCHANGED unchecked
        BY <3>4 DEF DropDatabase
      <4>2. \A m, n \in DOMAIN databases' : m # n =>
              \E i, k \in DOMAIN databases : i # k /\ databases'[m] = databases[i] /\ databases'[n] = databases[k]
        BY <1>0, <3>4, DropDatabaseIs
      <4>3. Recorded(databases', unchecked)
        <5> SUFFICES ASSUME NEW d \in DOMAIN databases', NEW e \in DOMAIN databases', d # e,
                            Hostname(databases'[d]) = Hostname(databases'[e])
                     PROVE  {databases'[d].id, databases'[e].id} \in unchecked
          BY DEF Recorded
        <5>1. PICK i \in DOMAIN databases, k \in DOMAIN databases :
                i # k /\ databases'[d] = databases[i] /\ databases'[e] = databases[k]
          BY <4>2
        <5> QED
          BY <1>0, <5>1 DEF Recorded
      <4> QED
        BY <1>0, <4>1, <4>3
    <3>5. CASE WriteDomain(c) \/ ClearDomain(c)
      <4> DEFINE id   == job[c].database
                 host == IF WriteDomain(c) THEN job[c].host ELSE NoHost
      <4>1. SetDomain(id, host)
        BY <3>5 DEF WriteDomain, ClearDomain
      <4>2. host \in Hostnames
        BY <1>0 DEF Calling, Job, Hostnames
      <4>3. \/ unchecked' = unchecked \cup PairsOf(id)
            \/ /\ unchecked' = unchecked \ PairsOf(id) /\ host # NoHost
               /\ \A d \in DOMAIN databases : Hostname(databases[d]) = host => databases[d].id = id
        <5>1. CASE WriteDomain(c)
          <6>1. pc[c] = "writeDomain" /\ job[c].host # NoHost
            BY <1>0, <5>1 DEF WriteDomain, Keeping, KeptBy
          <6> QED
            BY <1>0, <5>1, <6>1 DEF WriteDomain, Comparing
        <5>2. CASE ~WriteDomain(c)
          BY <3>5, <5>2 DEF ClearDomain
        <5> QED
          BY <5>1, <5>2
      <4> HIDE DEF id, host
      <4>4. Recorded(databases', unchecked')
        BY <1>0, <4>1, <4>2, <4>3, SetDomainRecords
      <4>5. unchecked' \subseteq SUBSET Ids
        <5>1. id \in Ids
          BY <1>0, <3>5 DEF WriteDomain, ClearDomain, Keeping, KeptBy, id
        <5> QED
          BY <1>0, <4>3, <5>1, PairsAre
      <4> QED
        BY <4>4, <4>5
    <3> QED
      BY <3>2, <3>3, <3>4, <3>5 DEF FilesDatabases
  <2> QED
    BY <2>1, <2>2 DEF Hosting, Recorded, Comparing
<1> QED
  BY <1>1, <1>2, <1>3 DEF Next

-------------------------------------------------------------------------------
(* A proposed load order holds *)

\* To come from one call is symmetric and transitive.
LEMMA MatesIs ==
  ASSUME NEW a, NEW b, NEW d
  PROVE  /\ Mates(a, b) => Mates(b, a)
         /\ Mates(a, b) /\ Mates(b, d) => Mates(a, d)
BY DEF Mates

\* Kinds, ranks, servers and calls of rows can be compared.
LEMMA Ranks ==
  ASSUME NEW x \in SourceRow
  PROVE  KindRank(x.kind) \in Nat /\ x.rank \in Nat /\ x.server \in Nat /\ x.by \in Nat
BY DEF SourceRow, KindRank, Kinds

\* Of two rows with kinds and ranks in one order, each is where it belongs.
LEMMA LaterFollows ==
  ASSUME NEW a \in SourceRow, NEW b \in SourceRow, KindRank(a.kind) <= KindRank(b.kind), a.rank < b.rank
  PROVE  Follows(a, b) /\ Follows(b, a)
<1>1. KindRank(a.kind) \in Nat /\ KindRank(b.kind) \in Nat /\ a.rank \in Nat /\ b.rank \in Nat
  BY Ranks
<1> QED
  BY <1>1 DEF Follows

\* A row more keeps the order of its server when it follows its mates there.
LEMMA OneMoreInOrder ==
  ASSUME NEW old, NEW new, NEW x \in SourceRow, More(new, old, x), InOrderOfKinds(old),
         \A i \in DOMAIN old : old[i].server = x.server /\ Mates(old[i], x) =>
           Follows(old[i], x) /\ Follows(x, old[i])
  PROVE  InOrderOfKinds(new)
<1> SUFFICES ASSUME NEW i \in DOMAIN new, NEW k \in DOMAIN new,
                    new[i].server = new[k].server, Mates(new[i], new[k])
             PROVE  Follows(new[i], new[k])
  BY DEF InOrderOfKinds
<1>1. CASE i \in DOMAIN old /\ k \in DOMAIN old
  BY <1>1 DEF More, InOrderOfKinds
<1>2. CASE i \in DOMAIN old /\ k = Len(old) + 1
  BY <1>2 DEF More
<1>3. CASE i = Len(old) + 1 /\ k \in DOMAIN old
  BY <1>3, MatesIs DEF More
<1>4. CASE i = Len(old) + 1 /\ k = Len(old) + 1
  <2>1. KindRank(x.kind) \in Nat
    BY Ranks
  <2> QED
    BY <1>4, <2>1 DEF More, Follows
<1> QED
  BY <1>1, <1>2, <1>3, <1>4 DEF More

\* The requests of others have nothing to do with it, or it is where they are done.
LEMMA OneMoreAdopts ==
  ASSUME NEW old, NEW new, NEW x \in SourceRow, More(new, old, x), NEW j \in Job, Adopts(j, old),
         x.by = j.id => /\ x.server > j.server
                        /\ \E k \in DOMAIN old : old[k].by = j.id /\ old[k].server = j.server
  PROVE  Adopts(j, new)
<1>1. \A m, n \in DOMAIN j.rows : m < n =>
        KindRank(j.rows[m].kind) <= KindRank(j.rows[n].kind) /\ j.rows[m].rank < j.rows[n].rank
  BY DEF Adopts
<1>2. ASSUME NEW i \in DOMAIN new, new[i].by = j.id
      PROVE  /\ new[i].server >= j.server
             /\ \E k \in DOMAIN new : new[k].by = j.id /\ new[k].server = j.server
             /\ new[i].server = j.server =>
                  \A n \in DOMAIN j.rows : /\ KindRank(new[i].kind) <= KindRank(j.rows[n].kind)
                                           /\ new[i].rank < j.rows[n].rank
  <2>1. CASE i \in DOMAIN old
    BY <1>2, <2>1 DEF Adopts, More
  <2>2. CASE i = Len(old) + 1
    <3>1. new[i] = x /\ x.server \in Nat /\ j.server \in Nat
      BY <2>2, Ranks DEF More, Job
    <3> QED
      BY <1>2, <3>1 DEF More
  <2> QED
    BY <2>1, <2>2 DEF More
<1> QED
  BY <1>1, <1>2 DEF Adopts

\* A copy about to list is not bothered by a row that has no mates on older servers.
LEMMA OneMoreLists ==
  ASSUME NEW old, NEW new, NEW x \in SourceRow, More(new, old, x), NEW j \in Job, Lists(j, old),
         x.server = j.server => \A k \in DOMAIN old : Mates(x, old[k]) => old[k].server >= j.server,
         \A i \in DOMAIN old : old[i].server = j.server /\ Mates(old[i], x) => x.server >= j.server
  PROVE  Lists(j, new)
<1> SUFFICES ASSUME NEW i \in DOMAIN new, NEW k \in DOMAIN new,
                    new[i].server = j.server, Mates(new[i], new[k])
             PROVE  new[k].server >= j.server
  BY DEF Lists
<1>1. j.server \in Nat /\ x.server \in Nat
  BY Ranks DEF Job
<1>2. CASE i \in DOMAIN old /\ k \in DOMAIN old
  BY <1>2 DEF More, Lists
<1>3. CASE i \in DOMAIN old /\ k = Len(old) + 1
  BY <1>3 DEF More
<1>4. CASE i = Len(old) + 1 /\ k \in DOMAIN old
  BY <1>4 DEF More
<1>5. CASE i = Len(old) + 1 /\ k = Len(old) + 1
  BY <1>1, <1>5 DEF More
<1> QED
  BY <1>2, <1>3, <1>4, <1>5 DEF More

\* A copy under way is not bothered by a row that follows what it still has to copy.
LEMMA OneMoreCopies ==
  ASSUME NEW old, NEW new, NEW x \in SourceRow, More(new, old, x), NEW j \in Job, CopiesRows(j, old),
         \A n \in DOMAIN j.rows : x.server = j.server /\ Mates(x, j.rows[n]) =>
           Follows(x, j.rows[n]) /\ Follows(j.rows[n], x)
  PROVE  CopiesRows(j, new)
<1>1. \A n \in DOMAIN j.rows : /\ j.rows[n].server < j.server
                               /\ \E k \in DOMAIN new : new[k] = j.rows[n]
  BY DEF CopiesRows, More
<1>2. \A n \in DOMAIN j.rows, i \in DOMAIN new :
        new[i].server = j.server /\ Mates(new[i], j.rows[n]) =>
          Follows(new[i], j.rows[n]) /\ Follows(j.rows[n], new[i])
  BY DEF CopiesRows, More
<1> QED
  BY <1>1, <1>2 DEF CopiesRows

\* Nothing that Loading says of a request is changed by the steps of others.
LEMMA SameFor ==
  ASSUME Calling, NEW c \in Clients, Others(c), NEW k \in Clients, k # c
  PROVE  /\ pc'[k] = pc[k] /\ job'[k].server = job[k].server
         /\ job[k] \in Job /\ job'[k].id = job[k].id
         /\ Sorted(job[k].todo) => Sorted(job'[k].todo)
         /\ \A src : Adopts(job[k], src) => Adopts(job'[k], src)
         /\ \A src : Lists(job[k], src) => Lists(job'[k], src)
         /\ \A src : CopiesRows(job[k], src) => CopiesRows(job'[k], src)
<1>1. /\ job'[k].id = job[k].id /\ job'[k].server = job[k].server
      /\ job'[k].rows = job[k].rows /\ job'[k].todo = job[k].todo
      /\ pc'[k] = pc[k] /\ job[k] \in Job
  <2>1. /\ job[k] \in Job /\ pc'[k] = pc[k]
        /\ job'[k] = job[k] \/ job'[k] = [job[k] EXCEPT !.mixed = TRUE]
    BY DEF Others, Calling
  <2>2. [job[k] EXCEPT !.mixed = TRUE].id = job[k].id /\ [job[k] EXCEPT !.mixed = TRUE].server = job[k].server
    BY <2>1 DEF Job
  <2>3. [job[k] EXCEPT !.mixed = TRUE].rows = job[k].rows /\ [job[k] EXCEPT !.mixed = TRUE].todo = job[k].todo
    BY <2>1 DEF Job
  <2> QED
    BY <2>1, <2>2, <2>3
<1>2. Sorted(job[k].todo) => Sorted(job'[k].todo)
  BY <1>1
<1>3. \A src : Adopts(job[k], src) => Adopts(job'[k], src)
  BY <1>1 DEF Adopts
<1>4. \A src : Lists(job[k], src) => Lists(job'[k], src)
  BY <1>1 DEF Lists
<1>5. \A src : CopiesRows(job[k], src) => CopiesRows(job'[k], src)
  BY <1>1 DEF CopiesRows
<1> QED
  BY <1>1, <1>2, <1>3, <1>4, <1>5

Apart ==
  \A c, k \in Clients :
    c # k /\ pc[c] \in {"listSources", "copySource"} /\ pc[k] \in {"listSources", "copySource"} =>
      job[c].server # job[k].server

\* The rows that exist, of sources and of requests.
LEMMA RowsAre ==
  ASSUME Order
  PROVE  /\ \A i \in DOMAIN sources : sources[i] \in SourceRow /\ sources[i].server \in DOMAIN servers
         /\ \A c \in Clients : job[c] \in Job /\ job[c].server \in Nat /\ job[c].id \in Nat
         /\ \A c \in Clients : pc[c] \in {"copySource", "adoptSource"} =>
              /\ job[c].rows \in Seq(SourceRow) /\ job[c].rows # <<>>
              /\ 1 \in DOMAIN job[c].rows /\ DOMAIN job[c].rows = 1 .. Len(job[c].rows) /\ Len(job[c].rows) \in Nat
              /\ \A n \in DOMAIN job[c].rows : job[c].rows[n] \in SourceRow
         /\ \A c \in Clients : pc[c] = "adoptSource" =>
              \A n \in DOMAIN job[c].rows : job[c].rows[n].server = job[c].server /\ job[c].rows[n].by = job[c].id
         /\ DOMAIN servers = 1 .. Len(servers) /\ Len(servers) \in Nat
<1>1. \A i \in DOMAIN sources : sources[i] \in SourceRow /\ sources[i].server \in DOMAIN servers
  BY LenProperties, ElementOfSeq DEF Order, Tables, References
<1>2. \A c \in Clients : job[c] \in Job /\ job[c].server \in Nat /\ job[c].id \in Nat
  BY DEF Order, Calling, Job
<1>3. ASSUME NEW c \in Clients, pc[c] \in {"copySource", "adoptSource"}
      PROVE  /\ job[c].rows \in Seq(SourceRow) /\ job[c].rows # <<>>
             /\ 1 \in DOMAIN job[c].rows /\ DOMAIN job[c].rows = 1 .. Len(job[c].rows) /\ Len(job[c].rows) \in Nat
             /\ \A n \in DOMAIN job[c].rows : job[c].rows[n] \in SourceRow
  <2>1. job[c].rows \in Seq(SourceRow) /\ job[c].rows # <<>>
    BY <1>3 DEF Order, Keeping, KeptBy
  <2> QED
    BY <2>1, LenProperties, ElementOfSeq, EmptySeq
<1>4. \A c \in Clients : pc[c] = "adoptSource" =>
              \A n \in DOMAIN job[c].rows : job[c].rows[n].server = job[c].server /\ job[c].rows[n].by = job[c].id
  BY DEF Order, Keeping, KeptBy
<1>5. DOMAIN servers = 1 .. Len(servers) /\ Len(servers) \in Nat
  BY LenProperties DEF Order, Tables
<1> QED
  BY <1>1, <1>2, <1>3, <1>4, <1>5

\* Ids of different requests that write are different.
LEMMA IdsDiffer ==
  ASSUME Order, NEW c \in Clients, NEW k \in Clients, c # k, pc[c] \notin Requests \cup {"idle"}
  PROVE  job[c].id # job[k].id /\ job[c].id # 0
<1>1. job[c].id # 0
  BY OwnId DEF Order
<1> QED
  BY <1>1 DEF Order, Numbering

\* A source registered alone has no mates, so it disturbs no order.
LEMMA InsertSourceLoads ==
  ASSUME Order, NEW c \in Clients, InsertSource(c), Others(c), pc'[c] = "idle"
  PROVE  Loading'
<1>1. PICK x \in SourceRow : x.by = job[c].id /\ x.server = job[c].server /\ More(sources', sources, x)
  BY InsertSourceIs DEF Order
<1>2. pc[c] = "insertSource" /\ job[c].id # 0 /\ Loading /\ Calling
  BY OwnId DEF InsertSource, Order, Requests
<1>3. \A i \in DOMAIN sources : ~Mates(sources[i], x) /\ ~Mates(x, sources[i])
  BY <1>1, <1>2 DEF Order, Numbering, Mates
<1>4. InOrderOfKinds(sources)'
  BY <1>1, <1>2, <1>3, OneMoreInOrder DEF Loading
<1>5. ASSUME NEW k \in Clients PROVE Adopting(k)' /\ Copying(k)'
  <2>1. CASE k = c
    BY <2>1 DEF Adopting, Copying
  <2>2. CASE k # c
    <3>0. Adopting(k) /\ Copying(k) /\ job[k] \in Job
      BY RowsAre DEF Order, Loading
    <3>1. CASE pc[k] = "adoptSource"
      <4>1. x.by # job[k].id
        BY <1>1, <1>2, <2>2, IdsDiffer DEF Requests
      <4>2. Adopts(job[k], sources)
        BY <3>0, <3>1 DEF Adopting
      <4>3. Adopts(job[k], sources')
        BY <1>1, <3>0, <4>1, <4>2, OneMoreAdopts
      <4> QED
        BY <1>2, <2>2, <3>1, <4>3, SameFor DEF Adopting, Copying
    <3>2. CASE pc[k] = "listSources"
      <4>2. Lists(job[k], sources)
        BY <3>0, <3>2 DEF Copying
      <4>3. Lists(job[k], sources')
        BY <1>1, <1>3, <3>0, <4>2, OneMoreLists
      <4> QED
        BY <1>2, <2>2, <3>2, <4>3, SameFor DEF Adopting, Copying
    <3>3. CASE pc[k] = "copySource"
      <4>2. CopiesRows(job[k], sources)
        BY <3>0, <3>3 DEF Copying
      <4>3. \A n \in DOMAIN job[k].rows : ~Mates(x, job[k].rows[n])
        BY <1>3, <4>2 DEF CopiesRows
      <4>4. CopiesRows(job[k], sources')
        BY <1>1, <3>0, <4>2, <4>3, OneMoreCopies
      <4> QED
        BY <1>2, <2>2, <3>3, <4>4, SameFor DEF Adopting, Copying
    <3>4. CASE pc[k] = "taken"
      BY <1>2, <2>2, <3>0, <3>4, SameFor DEF Adopting, Copying
    <3> QED
      BY <1>2, <2>2, <3>1, <3>2, <3>3, <3>4, SameFor DEF Adopting, Copying
  <2> QED
    BY <2>1, <2>2
<1>6. Apart'
  <2>1. Apart
    BY <1>2 DEF Loading, Apart
  <2>2. \A k \in Clients : k # c => pc'[k] = pc[k] /\ job'[k].server = job[k].server
    BY <1>2, SameFor
  <2> QED
    BY <2>1, <2>2 DEF Apart
<1> QED
  BY <1>4, <1>5, <1>6 DEF Loading, Apart

\* A source of a proposal follows the ones before it, and disturbs nobody else.
LEMMA AdoptSourceLoads ==
  ASSUME Order, NEW c \in Clients, AdoptSource(c), Others(c)
  PROVE  /\ InOrderOfKinds(sources)'
         /\ \A k \in Clients : k # c => Adopting(k)' /\ Copying(k)'
<1> DEFINE j == job[c]
           x == j.rows[1]
<1>0. Loading /\ Calling /\ pc[c] = "adoptSource"
  BY DEF Order, AdoptSource
<1>1. /\ More(sources', sources, x) /\ x \in SourceRow /\ 1 \in DOMAIN j.rows
      /\ x.by = j.id /\ x.server = j.server /\ j.id # 0 /\ j.server \in Nat
  BY <1>0, AdoptSourceIs, RowsAre, OwnId DEF Order, Requests
<1>2. Adopts(j, sources)
  BY <1>0 DEF Loading, Adopting
<1>3. \A i \in DOMAIN sources : sources[i] \in SourceRow
  BY RowsAre
<1> HIDE DEF j, x
<1>4. \A i \in DOMAIN sources : Mates(sources[i], x) <=> sources[i].by = j.id
  BY <1>1 DEF Mates
<1>5. \A i \in DOMAIN sources : Mates(x, sources[i]) <=> sources[i].by = j.id
  BY <1>1 DEF Mates
<1>6. InOrderOfKinds(sources)'
  <2>1. ASSUME NEW i \in DOMAIN sources, sources[i].server = x.server, Mates(sources[i], x)
        PROVE  Follows(sources[i], x) /\ Follows(x, sources[i])
    <3>1. KindRank(sources[i].kind) <= KindRank(x.kind) /\ sources[i].rank < x.rank
      BY <1>1, <1>2, <1>4, <2>1 DEF Adopts, x
    <3> QED
      BY <1>1, <1>3, <3>1, LaterFollows
  <2> QED
    BY <1>0, <1>1, <2>1, OneMoreInOrder DEF Loading
<1>7. ASSUME NEW k \in Clients, k # c PROVE Adopting(k)' /\ Copying(k)'
  <2>0. Adopting(k) /\ Copying(k) /\ job[k] \in Job /\ job[k].server \in Nat
    BY <1>0, RowsAre DEF Loading
  <2>1. CASE pc[k] = "adoptSource"
    <3>1. x.by # job[k].id
      BY <1>0, <1>1, <1>7, IdsDiffer DEF Requests, j
    <3>2. Adopts(job[k], sources')
      BY <1>1, <2>0, <2>1, <3>1, OneMoreAdopts DEF Adopting
    <3> QED
      BY <1>0, <1>7, <2>1, <3>2, SameFor DEF Adopting, Copying
  <2>2. CASE pc[k] = "listSources"
    <3>1. Lists(job[k], sources)
      BY <2>0, <2>2 DEF Copying
    <3>2. x.server = job[k].server =>
            \A i \in DOMAIN sources : Mates(x, sources[i]) => sources[i].server >= job[k].server
      BY <1>1, <1>2, <1>5 DEF Adopts
    <3>3. ASSUME NEW i \in DOMAIN sources, sources[i].server = job[k].server, Mates(sources[i], x)
          PROVE  x.server >= job[k].server
      <4>1. PICK m \in DOMAIN sources : sources[m].by = j.id /\ sources[m].server = j.server
        BY <1>2, <1>4, <3>3 DEF Adopts
      <4>2. Mates(sources[i], sources[m])
        BY <1>1, <1>4, <3>3, <4>1 DEF Mates
      <4>3. sources[m].server >= job[k].server
        BY <3>1, <3>3, <4>2 DEF Lists
      <4> QED
        BY <1>1, <4>1, <4>3
    <3>4. Lists(job[k], sources')
      BY <1>1, <2>0, <3>1, <3>2, <3>3, OneMoreLists
    <3> QED
      BY <1>0, <1>7, <2>2, <3>4, SameFor DEF Adopting, Copying
  <2>3. CASE pc[k] = "copySource"
    <3>1. CopiesRows(job[k], sources)
      BY <2>0, <2>3 DEF Copying
    <3>2. ASSUME NEW n \in DOMAIN job[k].rows, x.server = job[k].server, Mates(x, job[k].rows[n])
          PROVE  FALSE
      <4>1. job[k].rows[n].server < job[k].server
            /\ \E m \in DOMAIN sources : sources[m] = job[k].rows[n]
        BY <3>1 DEF CopiesRows
      <4>2. PICK m \in DOMAIN sources : sources[m] = job[k].rows[n]
        BY <4>1
      <4>3. sources[m].by = j.id
        BY <1>5, <3>2, <4>2
      <4>4. sources[m].server >= j.server
        BY <1>2, <4>3 DEF Adopts
      <4>5. sources[m].server \in Nat
        BY <1>3, Ranks
      <4> QED
        BY <1>1, <2>0, <3>2, <4>1, <4>2, <4>4, <4>5
    <3>3. CopiesRows(job[k], sources')
      BY <1>1, <2>0, <3>1, <3>2, OneMoreCopies
    <3> QED
      BY <1>0, <1>7, <2>3, <3>3, SameFor DEF Adopting, Copying
  <2>4. CASE pc[k] = "taken"
    BY <1>0, <1>7, <2>0, <2>4, SameFor DEF Adopting, Copying
  <2> QED
    BY <1>0, <1>7, <2>1, <2>2, <2>3, <2>4, SameFor DEF Adopting, Copying
<1> QED
  BY <1>6, <1>7

\* What is left of a proposal comes after what was just put in.
LEMMA AdoptsRest ==
  ASSUME NEW old, NEW new, NEW j \in Job, NEW i \in Job, Adopts(j, old), j.rows \in Seq(SourceRow), j.rows # <<>>,
         More(new, old, j.rows[1]), j.rows[1].by = j.id, j.rows[1].server = j.server,
         i.id = j.id, i.server = j.server, i.rows = Tail(j.rows)
  PROVE  Adopts(i, new)
<1> DEFINE x == j.rows[1]
<1>1. /\ Len(j.rows) \in Nat /\ DOMAIN j.rows = 1 .. Len(j.rows) /\ 1 \in DOMAIN j.rows
      /\ DOMAIN i.rows = 1 .. Len(j.rows) - 1 /\ \A n \in DOMAIN i.rows : i.rows[n] = j.rows[n + 1]
  <2>1. Tail(j.rows) \in Seq(SourceRow) /\ Len(Tail(j.rows)) = Len(j.rows) - 1
        /\ \A n \in 1 .. Len(Tail(j.rows)) : Tail(j.rows)[n] = j.rows[n + 1]
    BY HeadTailProperties
  <2>2. DOMAIN Tail(j.rows) = 1 .. Len(Tail(j.rows))
    BY <2>1, LenProperties
  <2> QED
    BY <2>1, <2>2, LenProperties, EmptySeq
<1>2. \A n \in DOMAIN i.rows : n + 1 \in DOMAIN j.rows /\ 1 < n + 1 /\ n \in Nat
  BY <1>1
<1>3. \A m, n \in DOMAIN j.rows : m < n =>
        KindRank(j.rows[m].kind) <= KindRank(j.rows[n].kind) /\ j.rows[m].rank < j.rows[n].rank
  BY DEF Adopts
<1>4. \A m, n \in DOMAIN i.rows : m < n =>
        KindRank(i.rows[m].kind) <= KindRank(i.rows[n].kind) /\ i.rows[m].rank < i.rows[n].rank
  <2> SUFFICES ASSUME NEW m \in DOMAIN i.rows, NEW n \in DOMAIN i.rows, m < n
               PROVE  KindRank(i.rows[m].kind) <= KindRank(i.rows[n].kind) /\ i.rows[m].rank < i.rows[n].rank
    OBVIOUS
  <2>1. m + 1 < n + 1 /\ m + 1 \in DOMAIN j.rows /\ n + 1 \in DOMAIN j.rows
    BY <1>2
  <2> QED
    BY <1>1, <1>3, <2>1
<1>5. \A n \in DOMAIN i.rows : KindRank(x.kind) <= KindRank(i.rows[n].kind) /\ x.rank < i.rows[n].rank
  BY <1>1, <1>2, <1>3
<1>6. ASSUME NEW k \in DOMAIN new, new[k].by = i.id
      PROVE  /\ new[k].server >= i.server
             /\ \E m \in DOMAIN new : new[m].by = i.id /\ new[m].server = i.server
             /\ new[k].server = i.server =>
                  \A n \in DOMAIN i.rows : /\ KindRank(new[k].kind) <= KindRank(i.rows[n].kind)
                                           /\ new[k].rank < i.rows[n].rank
  <2>0. j.server \in Nat
    BY DEF Job
  <2>1. \E m \in DOMAIN new : new[m].by = i.id /\ new[m].server = i.server
    BY DEF More
  <2>2. CASE k \in DOMAIN old
    <3>1. new[k] = old[k]
      BY <2>2 DEF More
    <3>2. /\ old[k].server >= j.server
          /\ old[k].server = j.server =>
               \A n \in DOMAIN j.rows : /\ KindRank(old[k].kind) <= KindRank(j.rows[n].kind)
                                        /\ old[k].rank < j.rows[n].rank
      BY <1>6, <2>2, <3>1 DEF Adopts
    <3> QED
      BY <1>1, <1>2, <2>1, <3>1, <3>2
  <2>3. CASE k = Len(old) + 1
    <3>1. new[k] = x
      BY <2>3 DEF More
    <3> QED
      BY <1>5, <2>0, <2>1, <3>1
  <2> QED
    BY <2>2, <2>3 DEF More
<1> QED
  BY <1>4, <1>6 DEF Adopts

\* A row and its copy have the same mates, and follow alike.
LEMMA CopyIs ==
  ASSUME NEW y \in SourceRow, NEW s \in Nat, NEW x, x = [y EXCEPT !.server = s]
  PROVE  /\ x \in SourceRow /\ x.server = s /\ x.by = y.by
         /\ \A z : /\ Mates(z, x) <=> Mates(z, y)
                   /\ Mates(x, z) <=> Mates(y, z)
                   /\ Follows(z, x) <=> Follows(z, y)
                   /\ Follows(x, z) <=> Follows(y, z)
<1>1. x \in SourceRow /\ x.server = s /\ x.kind = y.kind /\ x.rank = y.rank /\ x.by = y.by
  BY MovedRow
<1> QED
  BY <1>1 DEF Mates, Follows

\* A copied source follows its mates as its original did, and disturbs nobody else.
LEMMA CopySourceLoads ==
  ASSUME Order, NEW c \in Clients, CopySource(c), Others(c)
  PROVE  /\ InOrderOfKinds(sources)'
         /\ \A k \in Clients : k # c => Adopting(k)' /\ Copying(k)'
<1> DEFINE j == job[c]
           y == j.rows[1]
           x == [y EXCEPT !.server = j.server]
<1>0. Loading /\ Calling /\ pc[c] = "copySource"
  BY DEF Order, CopySource
<1>1. /\ More(sources', sources, x) /\ y \in SourceRow /\ 1 \in DOMAIN j.rows
      /\ j.server \in Nat /\ y.server \in Nat
  BY <1>0, CopySourceIs, RowsAre, Ranks DEF Order
<1>2. CopiesRows(j, sources)
  BY <1>0 DEF Loading, Copying
<1>3. \A i \in DOMAIN sources : sources[i] \in SourceRow /\ sources[i].server \in Nat
  BY RowsAre, Ranks
<1> HIDE DEF j, y
<1>4. /\ x \in SourceRow /\ x.server = j.server /\ x.by = y.by
      /\ \A z : /\ Mates(z, x) <=> Mates(z, y)
                /\ Mates(x, z) <=> Mates(y, z)
                /\ Follows(z, x) <=> Follows(z, y)
                /\ Follows(x, z) <=> Follows(y, z)
  BY <1>1, CopyIs
<1> HIDE DEF x
<1>5. PICK m \in DOMAIN sources : sources[m] = y
  BY <1>1, <1>2 DEF CopiesRows, y
<1>6. y.server < j.server
  BY <1>1, <1>2 DEF CopiesRows, y
<1>7. InOrderOfKinds(sources)'
  <2>1. ASSUME NEW i \in DOMAIN sources, sources[i].server = x.server, Mates(sources[i], x)
        PROVE  Follows(sources[i], x) /\ Follows(x, sources[i])
    <3>1. Mates(sources[i], y) /\ sources[i].server = j.server
      BY <1>4, <2>1
    <3>2. Follows(sources[i], y) /\ Follows(y, sources[i])
      BY <1>1, <1>2, <3>1 DEF CopiesRows, y
    <3> QED
      BY <1>4, <3>2
  <2> QED
    BY <1>0, <1>1, <1>4, <2>1, OneMoreInOrder DEF Loading
<1>8. ASSUME NEW k \in Clients, k # c PROVE Adopting(k)' /\ Copying(k)'
  <2>0. Adopting(k) /\ Copying(k) /\ job[k] \in Job /\ job[k].server \in Nat
    BY <1>0, RowsAre DEF Loading
  <2>1. CASE pc[k] = "adoptSource"
    <3>1. Adopts(job[k], sources)
      BY <2>0, <2>1 DEF Adopting
    <3>2. ASSUME x.by = job[k].id
          PROVE  /\ x.server > job[k].server
                 /\ \E i \in DOMAIN sources : sources[i].by = job[k].id /\ sources[i].server = job[k].server
      <4>1. sources[m].by = job[k].id
        BY <1>4, <1>5, <3>2
      <4>2. sources[m].server >= job[k].server
        BY <3>1, <4>1 DEF Adopts
      <4>3. \E i \in DOMAIN sources : sources[i].by = job[k].id /\ sources[i].server = job[k].server
        BY <3>1, <4>1 DEF Adopts
      <4> QED
        BY <1>1, <1>4, <1>5, <1>6, <2>0, <4>2, <4>3
    <3>3. Adopts(job[k], sources')
      BY <1>1, <1>4, <2>0, <3>1, <3>2, OneMoreAdopts
    <3> QED
      BY <1>0, <1>8, <2>1, <3>3, SameFor DEF Adopting, Copying
  <2>2. CASE pc[k] = "listSources"
    <3>1. Lists(job[k], sources) /\ job[k].server # j.server
      BY <1>0, <1>8, <2>0, <2>2 DEF Copying, Loading, j
    <3>2. ASSUME NEW i \in DOMAIN sources, sources[i].server = job[k].server, Mates(sources[i], x)
          PROVE  x.server >= job[k].server
      <4>1. Mates(sources[i], sources[m])
        BY <1>4, <1>5, <3>2
      <4>2. sources[m].server >= job[k].server
        BY <3>1, <3>2, <4>1 DEF Lists
      <4> QED
        BY <1>1, <1>4, <1>5, <1>6, <2>0, <4>2
    <3>3. x.server # job[k].server
      BY <1>4, <3>1
    <3>4. Lists(job[k], sources')
      BY <1>1, <1>4, <2>0, <3>1, <3>2, <3>3, OneMoreLists
    <3> QED
      BY <1>0, <1>8, <2>2, <3>4, SameFor DEF Adopting, Copying
  <2>3. CASE pc[k] = "copySource"
    <3>1. CopiesRows(job[k], sources) /\ job[k].server # j.server
      BY <1>0, <1>8, <2>0, <2>3 DEF Copying, Loading, j
    <3>2. x.server # job[k].server
      BY <1>4, <3>1
    <3>3. CopiesRows(job[k], sources')
      BY <1>1, <1>4, <2>0, <3>1, <3>2, OneMoreCopies
    <3> QED
      BY <1>0, <1>8, <2>3, <3>3, SameFor DEF Adopting, Copying
  <2>4. CASE pc[k] = "taken"
    BY <1>0, <1>8, <2>0, <2>4, SameFor DEF Adopting, Copying
  <2> QED
    BY <1>0, <1>8, <2>1, <2>2, <2>3, <2>4, SameFor DEF Adopting, Copying
<1> QED
  BY <1>7, <1>8

\* What is left to copy came in one order with what was just copied.
LEMMA CopiesRest ==
  ASSUME NEW old, NEW new, NEW j \in Job, NEW i \in Job, CopiesRows(j, old), InOrderOfKinds(old),
         j.rows \in Seq(SourceRow), j.rows # <<>>,
         More(new, old, [j.rows[1] EXCEPT !.server = j.server]),
         i.server = j.server, i.rows = Tail(j.rows)
  PROVE  CopiesRows(i, new)
<1> DEFINE y == j.rows[1]
           x == [y EXCEPT !.server = j.server]
<1>1. /\ Len(j.rows) \in Nat /\ DOMAIN j.rows = 1 .. Len(j.rows) /\ 1 \in DOMAIN j.rows /\ y \in SourceRow
      /\ DOMAIN i.rows = 1 .. Len(j.rows) - 1 /\ \A n \in DOMAIN i.rows : i.rows[n] = j.rows[n + 1]
  <2>1. Tail(j.rows) \in Seq(SourceRow) /\ Len(Tail(j.rows)) = Len(j.rows) - 1
        /\ \A n \in 1 .. Len(Tail(j.rows)) : Tail(j.rows)[n] = j.rows[n + 1]
    BY HeadTailProperties
  <2>2. DOMAIN Tail(j.rows) = 1 .. Len(Tail(j.rows))
    BY <2>1, LenProperties
  <2>3. 1 \in DOMAIN j.rows
    BY LenProperties, EmptySeq
  <2> QED
    BY <2>1, <2>2, <2>3, LenProperties, ElementOfSeq
<1>2. \A n \in DOMAIN i.rows : n + 1 \in DOMAIN j.rows
  BY <1>1
<1>3. j.server \in Nat
  BY DEF Job
<1> HIDE DEF y
<1>4. \A z : /\ Mates(x, z) <=> Mates(y, z)
             /\ Follows(z, x) <=> Follows(z, y)
             /\ Follows(x, z) <=> Follows(y, z)
  BY <1>1, <1>3, CopyIs
<1>5. More(new, old, x)
  BY DEF y
<1> HIDE DEF x
<1>6. \A n \in DOMAIN i.rows : /\ i.rows[n].server < i.server
                               /\ \E k \in DOMAIN new : new[k] = i.rows[n]
  BY <1>1, <1>2, <1>5 DEF CopiesRows, More
<1>7. \A m, n \in DOMAIN i.rows : i.rows[m].server = i.rows[n].server
  BY <1>1, <1>2 DEF CopiesRows
<1>8. ASSUME NEW n \in DOMAIN i.rows, NEW k \in DOMAIN new, new[k].server = i.server, Mates(new[k], i.rows[n])
      PROVE  Follows(new[k], i.rows[n]) /\ Follows(i.rows[n], new[k])
  <2>0. n + 1 \in DOMAIN j.rows /\ i.rows[n] = j.rows[n + 1]
    BY <1>1, <1>2
  <2>1. CASE k \in DOMAIN old
    <3>1. new[k] = old[k]
      BY <1>5, <2>1 DEF More
    <3> QED
      BY <1>8, <2>0, <2>1, <3>1 DEF CopiesRows
  <2>2. CASE k = Len(old) + 1
    <3>1. new[k] = x
      BY <1>5, <2>2 DEF More
    <3>2. Mates(y, i.rows[n]) /\ y.server = i.rows[n].server
      BY <1>1, <1>4, <1>8, <2>0, <3>1 DEF CopiesRows, y
    <3>3. PICK a \in DOMAIN old : old[a] = y
      BY <1>1 DEF CopiesRows, y
    <3>4. PICK b \in DOMAIN old : old[b] = i.rows[n]
      BY <2>0 DEF CopiesRows
    <3>5. Follows(y, i.rows[n]) /\ Follows(i.rows[n], y)
      BY <3>2, <3>3, <3>4, MatesIs DEF InOrderOfKinds
    <3> QED
      BY <1>4, <3>1, <3>5
  <2> QED
    BY <1>5, <2>1, <2>2 DEF More
<1> QED
  BY <1>6, <1>7, <1>8 DEF CopiesRows

\* The steps after which a request is filing sources, or about to.
LEMMA LoadersAre ==
  ASSUME Order, NEW c \in Clients, Handler(c), pc'[c] \in {"taken", "adoptSource", "listSources", "copySource"}
  PROVE  \/ Begins(c) /\ pc'[c] = "taken"
         \/ TakenPaths(c) \/ AdoptSource(c) \/ ListSources(c) \/ CopySource(c)
         \/ CopyServer(c) /\ job[c].id \in projects
<1>0. Calling /\ job[c] \in Job
  BY DEF Order, Calling
<1>1. \A l, j : Step(c, l, j) => pc'[c] = l
  BY <1>0, StepIs
<1>2. \A l : Goto(c, l) => pc'[c] = l
  BY <1>0, <1>1, GotoIs
<1>3. \A l, j : Disturb(c, l, j) => pc'[c] = l
  BY <1>0 DEF Disturb, Calling
<1>4. CASE Begins(c)
  BY <1>4, HandlerIs, BeginsEnter DEF Order, Begun, Starts
<1>5. ~BeginRequest(c)
  BY RequestEnters DEF Order
<1>6. CASE Reads(c)
  BY <1>1, <1>2, <1>6 DEF Reads, CountServers, EnsureStorage, UsedPorts, ListServers, RouteServers,
     CheckClash, RequestServers, Resolve, Forward
<1>7. CASE Writes(c)
  BY <1>1, <1>2, <1>3, <1>7 DEF Writes, FilesProjects, FilesServers, FilesSources, FilesDatabases,
     InsertProject, DeleteProject, CopyProject, Move, InsertServer, RegisterStorage, InsertSource,
     InsertDatabase, DropDatabase, WriteDomain, ClearDomain, CopyServer
<1> QED
  BY <1>4, <1>5, <1>6, <1>7, HandlerCases

\* An adoption starts in order, with nothing put in.
LEMMA TakenPathsLoads ==
  ASSUME Order, NEW c \in Clients, TakenPaths(c)
  PROVE  Adopting(c)' /\ Copying(c)' /\ pc'[c] \notin {"listSources", "copySource"}
<1> DEFINE j    == job[c]
           rows == Ranked(j.server, j.todo, j.id)
           i    == [j EXCEPT !.rows = rows]
<1>0. /\ Tables /\ Calling /\ Loading /\ pc[c] = "taken" /\ j \in Job /\ sources' = sources
      /\ IF rows = <<>> THEN Goto(c, "idle") ELSE Step(c, "adoptSource", i)
  BY DEF TakenPaths, Order, Calling, tables
<1>1. /\ j.todo \in Seq(Roots) /\ j.server \in Nat /\ j.id \in Nat
      /\ \A m, n \in DOMAIN j.todo : m < n => KindRank(j.todo[m].kind) <= KindRank(j.todo[n].kind)
      /\ \A n \in DOMAIN sources : sources[n].by # j.id
  BY <1>0 DEF Order, Keeping, KeptBy, Numbering, Loading, Adopting, Sorted, Job
<1>2. Proposal(rows, j.server, j.id)
  BY <1>0, <1>1, RankedIs
<1> HIDE DEF rows, j
<1>3. CASE rows = <<>>
  <2>1. pc'[c] = "idle"
    BY <1>0, <1>3, LeaveIs
  <2> QED
    BY <2>1 DEF Adopting, Copying
<1>4. CASE rows # <<>>
  <2>1. pc'[c] = "adoptSource" /\ job'[c] = i
    BY <1>0, <1>4, StepIs
  <2>2. i.rows = rows /\ i.id = j.id
    BY <1>0 DEF Job
  <2>3. \A n \in DOMAIN sources' : sources'[n].by # i.id
    BY <1>0, <1>1, <2>2
  <2> HIDE DEF i
  <2>4. Adopts(i, sources')
    BY <1>2, <2>2, <2>3 DEF Adopts, Proposal
  <2> QED
    BY <2>1, <2>4 DEF Adopting, Copying
<1> QED
  BY <1>3, <1>4

\* An adoption goes on in order.
LEMMA AdopterLoads ==
  ASSUME Order, NEW c \in Clients, AdoptSource(c)
  PROVE  Adopting(c)' /\ Copying(c)' /\ pc'[c] \notin {"listSources", "copySource"}
<1> DEFINE j == job[c]
           x == Tail(j.rows)
           i == [j EXCEPT !.rows = x]
<1>0. /\ Tables /\ Calling /\ Keeping /\ Loading /\ pc[c] = "adoptSource" /\ j \in Job
      /\ IF Len(j.rows) > 1 THEN Step(c, "adoptSource", i) ELSE Goto(c, "idle")
  BY DEF AdoptSource, Order, Calling
<1>1. /\ Adopts(j, sources) /\ j.rows \in Seq(SourceRow) /\ j.rows # <<>> /\ x \in Seq(SourceRow)
      /\ j.rows[1].by = j.id /\ j.rows[1].server = j.server /\ More(sources', sources, j.rows[1])
  BY <1>0, RowsAre, AdoptSourceIs, HeadTailProperties DEF Loading, Adopting
<1> HIDE DEF x, j
<1>2. CASE Len(j.rows) > 1
  <2>1. pc'[c] = "adoptSource" /\ job'[c] = i
    BY <1>0, <1>2, StepIs
  <2>2. i \in Job /\ i.rows = x /\ i.id = j.id /\ i.server = j.server
    BY <1>0, <1>1, KeepRows
  <2> HIDE DEF i
  <2>3. Adopts(i, sources')
    BY <1>0, <1>1, <2>2, AdoptsRest DEF x
  <2> QED
    BY <2>1, <2>3 DEF Adopting, Copying
<1>3. CASE ~(Len(j.rows) > 1)
  <2>1. pc'[c] = "idle"
    BY <1>0, <1>3, LeaveIs
  <2> QED
    BY <2>1 DEF Adopting, Copying
<1> QED
  BY <1>2, <1>3

\* A copy goes on in order.
LEMMA CopierLoads ==
  ASSUME Order, NEW c \in Clients, CopySource(c)
  PROVE  /\ Adopting(c)' /\ Copying(c)'
         /\ pc'[c] \in {"listSources", "copySource"} =>
              pc[c] \in {"listSources", "copySource"} /\ job'[c].server = job[c].server
<1> DEFINE j == job[c]
           x == Tail(j.rows)
           i == [j EXCEPT !.rows = x]
<1>0. /\ Tables /\ Calling /\ Keeping /\ Loading /\ pc[c] = "copySource" /\ j \in Job
      /\ IF i.rows # <<>> THEN Step(c, "copySource", i)
         ELSE IF NextServer(i).todo # <<>> THEN Step(c, "copyServer", NextServer(i)) ELSE Goto(c, "idle")
  BY DEF CopySource, Order, Calling
<1>1. /\ CopiesRows(j, sources) /\ j.rows \in Seq(SourceRow) /\ j.rows # <<>> /\ x \in Seq(SourceRow)
      /\ More(sources', sources, [j.rows[1] EXCEPT !.server = j.server]) /\ InOrderOfKinds(sources)
  BY <1>0, RowsAre, CopySourceIs, HeadTailProperties DEF Loading, Copying
<1> HIDE DEF x, j
<1>2. i \in Job /\ i.rows = x /\ i.server = j.server
  BY <1>0, <1>1, KeepRows
<1> HIDE DEF i
<1>3. CASE i.rows # <<>>
  <2>1. pc'[c] = "copySource" /\ job'[c] = i
    BY <1>0, <1>3, StepIs
  <2>2. CopiesRows(i, sources')
    BY <1>0, <1>1, <1>2, CopiesRest DEF x
  <2> QED
    BY <1>0, <1>2, <2>1, <2>2 DEF Adopting, Copying, j
<1>4. CASE i.rows = <<>>
  <2>1. pc'[c] \in {"copyServer", "idle"}
    BY <1>0, <1>4, StepIs, LeaveIs
  <2> QED
    BY <2>1 DEF Adopting, Copying
<1> QED
  BY <1>3, <1>4

\* A copy starts in order: the new server has no mates of the rows it lists.
LEMMA ListerLoads ==
  ASSUME Order, NEW c \in Clients, ListSources(c)
  PROVE  /\ Adopting(c)' /\ Copying(c)'
         /\ pc'[c] \in {"listSources", "copySource"} =>
              pc[c] \in {"listSources", "copySource"} /\ job'[c].server = job[c].server
<1> DEFINE j    == job[c]
           s    == Head(j.todo)
           rows == SourcesOf(s)
           i    == [j EXCEPT !.rows = rows]
<1>0. /\ Tables /\ Calling /\ Keeping /\ Loading /\ pc[c] = "listSources" /\ j \in Job /\ sources' = sources
      /\ IF rows # <<>> THEN Step(c, "copySource", i)
         ELSE IF NextServer(j).todo # <<>> THEN Step(c, "copyServer", NextServer(j)) ELSE Goto(c, "idle")
  BY DEF ListSources, Order, Calling, tables
<1>1. /\ Lists(j, sources) /\ j.todo \in Seq(1 .. Len(servers)) /\ j.todo # <<>> /\ j.server \in Nat
      /\ \A k \in DOMAIN j.todo : j.todo[k] < j.server
  BY <1>0, RowsAre DEF Loading, Copying, Keeping, KeptBy
<1>2. s < j.server /\ s \in Nat
  <2>1. s = j.todo[1] /\ s \in 1 .. Len(servers) /\ 1 \in DOMAIN j.todo
    BY <1>1, HeadTailProperties, LenProperties, EmptySeq
  <2> QED
    BY <1>1, <2>1
<1>3. /\ rows \in Seq(SourceRow)
      /\ \A n \in DOMAIN rows : \E k \in DOMAIN sources : rows[n] = sources[k] /\ sources[k].server = s
  BY <1>0, SourcesOfIs
<1> HIDE DEF rows, s, j
<1>4. i \in Job /\ i.rows = rows /\ i.server = j.server
  BY <1>0, <1>3, KeepRows
<1> HIDE DEF i
<1>5. CASE rows # <<>>
  <2>1. pc'[c] = "copySource" /\ job'[c] = i
    BY <1>0, <1>5, StepIs
  <2>2. \A n \in DOMAIN rows : rows[n].server = s
    BY <1>3
  <2>3. ASSUME NEW n \in DOMAIN rows, NEW k \in DOMAIN sources, sources[k].server = j.server,
               Mates(sources[k], rows[n])
        PROVE  FALSE
    <3>1. PICK m \in DOMAIN sources : rows[n] = sources[m] /\ sources[m].server = s
      BY <1>3
    <3>2. sources[m].server >= j.server
      BY <1>1, <2>3, <3>1 DEF Lists
    <3> QED
      BY <1>1, <1>2, <3>1, <3>2
  <2>4. CopiesRows(i, sources')
    BY <1>0, <1>2, <1>3, <1>4, <2>2, <2>3 DEF CopiesRows
  <2> QED
    BY <1>0, <1>4, <2>1, <2>4 DEF Adopting, Copying, j
<1>6. CASE rows = <<>>
  <2>1. pc'[c] \in {"copyServer", "idle"}
    BY <1>0, <1>6, StepIs, LeaveIs
  <2> QED
    BY <2>1 DEF Adopting, Copying
<1> QED
  BY <1>5, <1>6

\* A new server has no sources.
LEMMA CopyServerLoads ==
  ASSUME Order, NEW c \in Clients, CopyServer(c), job[c].id \in projects
  PROVE  Adopting(c)' /\ Copying(c)' /\ job'[c].server = Len(servers) + 1
<1> DEFINE j    == job[c]
           port == NextFreePort(servers[Head(j.todo)].port, j.used)
           u    == j.used \cup {port}
           i    == [j EXCEPT !.used = u, !.server = Len(servers) + 1]
<1>1. port \in 1 .. MaxPort /\ Disturb(c, "listSources", i) /\ sources' = sources /\ j \in Job /\ Calling
  BY CopyServerIs DEF Order, CopyServer, Calling
<1>2. u \in SUBSET Nat /\ Len(servers) + 1 \in Nat
  <2> HIDE DEF port
  <2>1. port \in Nat
    BY <1>1, WorkspaceAssumption
  <2>2. j.used \in SUBSET Nat
    BY <1>1 DEF Job
  <2>3. Len(servers) \in Nat
    BY RowsAre
  <2> QED
    BY <2>1, <2>2, <2>3
<1> HIDE DEF u, port, j
<1>3. i.server = Len(servers) + 1
  BY <1>1, <1>2, KeepCopy, ZenonT(40)
<1> HIDE DEF i
<1>4. pc'[c] = "listSources" /\ job'[c] = i
  BY <1>1, DisturbIs
<1>5. \A k \in DOMAIN sources' : sources'[k].server # Len(servers) + 1
  BY <1>1, RowsAre
<1>6. Lists(i, sources')
  BY <1>3, <1>5 DEF Lists
<1> QED
  BY <1>3, <1>4, <1>6 DEF Adopting, Copying

\* A request that files sources, or is about to, does so in order.
LEMMA OwnLoads ==
  ASSUME Order, NEW c \in Clients, Handler(c)
  PROVE  /\ Adopting(c)' /\ Copying(c)'
         /\ pc'[c] \in {"listSources", "copySource"} =>
              \/ pc[c] \in {"listSources", "copySource"} /\ job'[c].server = job[c].server
              \/ job'[c].server = Len(servers) + 1
<1>1. CASE pc'[c] \notin {"taken", "adoptSource", "listSources", "copySource"}
  BY <1>1 DEF Adopting, Copying
<1>2. CASE Begins(c) /\ pc'[c] = "taken"
  <2>1. \E root : job'[c].todo = Discovered(root)
    BY <1>2, BeginsEnter DEF Order, Begun
  <2>2. Sorted(job'[c].todo)
    BY <2>1, DiscoveredIs DEF Sorted
  <2> QED
    BY <1>2, <2>2 DEF Adopting, Copying
<1> QED
  BY <1>1, <1>2, LoadersAre, TakenPathsLoads, AdopterLoads, CopierLoads, ListerLoads, CopyServerLoads

\* Every step leaves every proposed load order in order.
LEMMA NextLoading ==
  ASSUME Order, [Next]_vars
  PROVE  Loading'
<1>0. Loading /\ Calling
  BY DEF Order
<1>1. CASE CountOrphans \/ AdoptOrphans \/ Restart
  <2>1. sources' = sources /\ \A c \in Clients : pc'[c] = "idle"
    BY <1>0, <1>1 DEF CountOrphans, AdoptOrphans, Restart, Calling, tables
  <2> QED
    BY <1>0, <2>1 DEF Loading, Adopting, Copying
<1>2. CASE UNCHANGED vars
  <2>1. sources' = sources /\ pc' = pc /\ job' = job
    BY <1>2 DEF vars
  <2>2. \A c \in Clients : Adopting(c) = Adopting(c)' /\ Copying(c) = Copying(c)'
    BY <2>1 DEF Adopting, Copying
  <2> QED
    BY <1>0, <2>1, <2>2 DEF Loading
<1>3. ASSUME NEW c \in Clients, Handler(c) PROVE Loading'
  <2>1. Entered(c) /\ Others(c)
    BY <1>3, HandlerIs DEF Entered
  <2>2. Apart'
    <3>1. Apart
      BY <1>0 DEF Loading, Apart
    <3>2. \A k \in Clients : k # c => pc'[k] = pc[k] /\ job'[k].server = job[k].server
      BY <1>0, <2>1, SameFor
    <3>3. \A k \in Clients : pc[k] \in {"listSources", "copySource"} =>
            job[k].server # Len(servers) + 1
      BY RowsAre DEF Order, Keeping, KeptBy
    <3>4. pc'[c] \in {"listSources", "copySource"} =>
              \/ pc[c] \in {"listSources", "copySource"} /\ job'[c].server = job[c].server
              \/ job'[c].server = Len(servers) + 1
      BY <1>3, OwnLoads
    <3> QED
      BY <3>1, <3>2, <3>3, <3>4 DEF Apart
  <2>3. Adopting(c)' /\ Copying(c)'
    BY <1>3, OwnLoads
  <2>4. CASE InsertSource(c)
    <3>1. pc'[c] = "idle"
      BY <1>0, <2>4, LeaveIs DEF InsertSource
    <3> QED
      BY <2>1, <2>4, <3>1, InsertSourceLoads
  <2>5. CASE AdoptSource(c)
    BY <2>1, <2>2, <2>3, <2>5, AdoptSourceLoads DEF Loading, Apart
  <2>6. CASE CopySource(c)
    BY <2>1, <2>2, <2>3, <2>6, CopySourceLoads DEF Loading, Apart
  <2>7. CASE ~FilesSources(c)
    <3>1. sources' = sources
      BY <1>3, <2>7, HandlerCases, BeginsLeave, ReadsLeave, WritesLeave, RequestEnters DEF Order, Writes
    <3>2. ASSUME NEW k \in Clients, k # c PROVE Adopting(k)' /\ Copying(k)'
      <4>1. Adopting(k) /\ Copying(k)
        BY <1>0 DEF Loading
      <4> QED
        BY <1>0, <2>1, <3>1, <3>2, <4>1, SameFor DEF Adopting, Copying
    <3> QED
      BY <1>0, <2>2, <2>3, <3>1, <3>2 DEF Loading, Apart
  <2> QED
    BY <2>4, <2>5, <2>6, <2>7 DEF FilesSources
<1> QED
  BY <1>1, <1>2, <1>3 DEF Next

-------------------------------------------------------------------------------
(* A workspace as the app left it *)

\* A workspace as the app left it is in order.
LEMMA InitOrder ==
  Init => Order
<1> SUFFICES ASSUME Init PROVE Order
  OBVIOUS
<1>1. PICK w \in Workspaces :
        /\ projects = w.projects /\ servers = w.servers /\ sources = w.sources
        /\ databases = w.databases /\ clusters = w.clusters
  BY DEF Init
<1>2. Wellformed(w)
  BY WorkspaceAssumption
<1>3. /\ MaxGiven \in Nat /\ MaxPort \in Nat
      /\ \A n \in 1 .. MaxGiven : n \in Ids /\ n <= MaxGiven
  BY WorkspaceAssumption DEF Ids
<1>4. /\ projects \subseteq 1 .. MaxGiven /\ clusters \in Nat
      /\ servers \in Seq([project: projects \cup {None}, port: 1 .. MaxPort, cluster: 1 .. clusters])
      /\ sources \in Seq([server: DOMAIN servers, path: Folders \cup Offered, kind: Kinds, rank: Nat, by: {None}])
      /\ databases \in Seq([id: 1 .. MaxGiven, name: Names, server: DOMAIN servers, domain: Hostnames])
      /\ \A d, e \in DOMAIN databases : databases[d].id = databases[e].id => d = e
  BY <1>1, <1>2 DEF Wellformed
<1> DEFINE FirstServers   == [project: projects \cup {None}, port: 1 .. MaxPort, cluster: 1 .. clusters]
           FirstSources   == [server: DOMAIN servers, path: Folders \cup Offered, kind: Kinds, rank: Nat, by: {None}]
           FirstDatabases == [id: 1 .. MaxGiven, name: Names, server: DOMAIN servers, domain: Hostnames]
<1>5. DOMAIN servers = 1 .. Len(servers) /\ Len(servers) \in Nat /\ \A s \in DOMAIN servers : servers[s] \in FirstServers
  <2> HIDE DEF FirstServers
  <2>1. servers \in Seq(FirstServers)
    BY <1>4 DEF FirstServers
  <2> QED
    BY <2>1, LenProperties, ElementOfSeq
<1>6. \A i \in DOMAIN sources : sources[i] \in FirstSources
  <2> HIDE DEF FirstSources
  <2>1. sources \in Seq(FirstSources)
    BY <1>4 DEF FirstSources
  <2> QED
    BY <2>1, LenProperties, ElementOfSeq
<1>7. \A d \in DOMAIN databases : databases[d] \in FirstDatabases
  <2> HIDE DEF FirstDatabases
  <2>1. databases \in Seq(FirstDatabases)
    BY <1>4 DEF FirstDatabases
  <2> QED
    BY <2>1, LenProperties, ElementOfSeq
<1>8. /\ pc = [c \in Clients |-> "idle"] /\ job = [c \in Clients |-> NoJob]
      /\ boot = "count" /\ born = Len(servers) /\ asked = 0 /\ restarts = 0
      /\ unchecked = {p \in SUBSET Ids : \E d, e \in DOMAIN databases :
                        /\ d # e /\ Hostname(databases[d]) = Hostname(databases[e])
                        /\ p = {databases[d].id, databases[e].id}}
  BY DEF Init
<1>9. \A c \in Clients : pc[c] = "idle" /\ job[c] = NoJob
  BY <1>8
<1>10. Tables
  <2>1. projects \subseteq Ids
    BY <1>3, <1>4
  <2>2. servers \in Seq(ServerRow)
    <3>1. ASSUME NEW s \in FirstServers PROVE s \in ServerRow
      <4>1. s.project \in Ids \cup {None}
        BY <2>1
      <4>2. s.cluster \in Nat
        BY <1>4
      <4> QED
        BY <4>1, <4>2 DEF ServerRow
    <3> QED
      BY <1>4, <3>1, SeqMonotonic
  <2>3. sources \in Seq(SourceRow)
    <3>1. FirstSources \subseteq SourceRow
      BY <1>5 DEF SourceRow, None
    <3> QED
      BY <1>4, <3>1, SeqMonotonic
  <2>4. databases \in Seq(DatabaseRow)
    <3>1. FirstDatabases \subseteq DatabaseRow
      BY <1>3, <1>5 DEF DatabaseRow
    <3> QED
      BY <1>4, <3>1, SeqMonotonic
  <2> QED
    BY <1>4, <2>1, <2>2, <2>3, <2>4 DEF Tables
<1>11. Calling
  BY <1>8, <1>9, NoJobIs, WorkspaceAssumption DEF Calling, Locs
<1>12. References
  BY <1>5, <1>6, <1>7 DEF References
<1>13. Keeping
  BY <1>9 DEF Keeping, KeptBy
<1>14. Numbering
  <2>1. \A d \in DOMAIN databases : databases[d].id \in 1 .. MaxGiven
    BY <1>7
  <2>2. \A i \in DOMAIN sources : sources[i].by = 0
    BY <1>6 DEF None
  <2>3. \A c \in Clients : job[c].id = 0
    BY <1>9 DEF NoJob
  <2> QED
    BY <1>3, <1>4, <1>8, <1>9, <2>1, <2>2, <2>3, SMTT(30) DEF Numbering
<1>15. Filing
  <2>1. \A s \in DOMAIN servers : servers[s].project \in projects \cup {None}
    BY <1>5
  <2> QED
    BY <1>5, <1>8, <2>1 DEF Filing, ServersAreFiled
<1>16. Porting
  BY <1>9 DEF Porting, Copies
<1>17. Hosting
  <2>1. ASSUME NEW d \in DOMAIN databases, NEW e \in DOMAIN databases,
               d # e, Hostname(databases[d]) = Hostname(databases[e])
        PROVE  {databases[d].id, databases[e].id} \in unchecked
    <3>1. {databases[d].id, databases[e].id} \in SUBSET Ids
      BY <1>3, <1>7
    <3> QED
      BY <1>8, <2>1, <3>1
  <2>2. unchecked \subseteq SUBSET Ids
    BY <1>8
  <2> QED
    BY <1>9, <2>1, <2>2 DEF Hosting
<1>18. Loading
  <2>1. InOrderOfKinds(sources)
    BY <1>6 DEF InOrderOfKinds, Mates, None
  <2> QED
    BY <1>9, <2>1 DEF Loading, Adopting, Copying
<1> QED
  BY <1>10, <1>11, <1>12, <1>13, <1>14, <1>15, <1>16, <1>17, <1>18 DEF Order

-------------------------------------------------------------------------------
(* The theorems *)

\* Every reachable state is in order.
THEOREM OrderHolds ==
  Spec => []Order
<1>1. Order /\ [Next]_vars => Order'
  BY NextTables, NextCalling, NextReferences, NextNumbering, NextFiling, NextPorting, NextHosting, NextLoading
     DEF Order
<1> QED
  BY <1>1, InitOrder, PTL DEF Spec

\* Rows keep their types and refer to what is there, ids are their own, and only a
\* request under way keeps anything.
THEOREM TypeCorrect ==
  Spec => []TypeOK
<1>1. Order => TypeOK
  <2> SUFFICES ASSUME Order PROVE TypeOK
    OBVIOUS
  <2>1. /\ \A s \in DOMAIN servers : servers[s] \in ServerRow
        /\ \A i \in DOMAIN sources : sources[i] \in SourceRow
        /\ \A d \in DOMAIN databases : databases[d] \in DatabaseRow
    BY LenProperties, ElementOfSeq DEF Order, Tables
  <2>2. \A s \in DOMAIN servers :
          /\ servers[s].project \in Ids \cup {None} /\ servers[s].port \in 1 .. MaxPort
          /\ servers[s].cluster \in 1 .. clusters
    BY <2>1 DEF Order, References, ServerRow
  <2>3. \A i \in DOMAIN sources : sources[i].server \in DOMAIN servers /\ sources[i].rank \in Nat
    BY <2>1 DEF Order, References, SourceRow
  <2>4. \A d \in DOMAIN databases :
          databases[d].server \in DOMAIN servers /\ databases[d].name \in Names
    BY <2>1 DEF Order, References, DatabaseRow
  <2> QED
    BY <2>2, <2>3, <2>4 DEF TypeOK, Order, Tables, Calling, Numbering, Hosting
<1> QED
  BY <1>1, OrderHolds, PTL

\* However delete_project's count interleaves with what files servers, no Odoo
\* outlives its project.
THEOREM NothingUnfiled ==
  Spec => []ServersAreFiled
<1>1. Order => ServersAreFiled
  BY DEF Order, Filing
<1> QED
  BY <1>1, OrderHolds, PTL

\* A copy's port is free, whoever copied or added Odoos before its ports were read,
\* unless it is the last port there is.
THEOREM FreePorts ==
  Spec => CopiesGetFreePorts
<1> DEFINE port == servers'[Len(servers')].port
<1>1. ASSUME Order, NEW c \in Clients, CopyServer(c), Len(servers') > Len(servers), ~job[c].mixed
      PROVE  port = MaxPort \/ \A s \in DOMAIN servers : servers[s].port # port
  <2>1. job[c].id \in projects
    <3>1. Len(servers) \in Nat
      BY LenProperties DEF Order, Tables
    <3> QED
      BY <1>1, <3>1 DEF CopyServer
  <2> DEFINE new == NextFreePort(servers[Head(job[c].todo)].port, job[c].used)
  <2>2. Len(servers') = Len(servers) + 1 /\ servers'[Len(servers) + 1].port = new
        /\ (new = MaxPort \/ new \notin job[c].used)
    BY <1>1, <2>1, CopyServerIs DEF Order
  <2>3. port = new
    BY <2>2
  <2>4. pc[c] = "copyServer"
    BY <1>1 DEF CopyServer
  <2>5. \A s \in DOMAIN servers : servers[s].port \in job[c].used
    BY <1>1, <2>4 DEF Order, Porting, Copies
  <2> HIDE DEF new, port
  <2> QED
    BY <2>2, <2>3, <2>5
<1>2. Order /\ [Next]_vars =>
        [\A c \in Clients :
           CopyServer(c) /\ Len(servers') > Len(servers) /\ ~job[c].mixed =>
             port = MaxPort \/ \A s \in DOMAIN servers : servers[s].port # port]_vars
  BY <1>1
<1> QED
  BY <1>2, OrderHolds, PTL DEF Spec, CopiesGetFreePorts

\* Only resolve() finds where a request goes.
LEMMA OnlyResolve ==
  ASSUME Order, [Next]_vars, NEW c \in Clients, pc[c] = "resolve", pc'[c] = "forward"
  PROVE  Resolve(c)
<1>1. ASSUME NEW k \in Clients, Handler(k) PROVE Resolve(c)
  <2>1. k = c
    BY <1>1, HandlerIs DEF Entered, Others
  <2>2. ~Begins(c) /\ ~BeginRequest(c)
    BY BeginsLeave DEF BeginRequest
  <2>3. CASE Reads(c)
    BY <2>3 DEF Reads, CountServers, EnsureStorage, UsedPorts, ListServers, ListSources, TakenPaths,
       RouteServers, CheckClash, RequestServers, Forward
  <2>4. CASE Writes(c)
    BY <2>4 DEF Writes, FilesProjects, FilesServers, FilesSources, FilesDatabases, InsertProject,
       DeleteProject, CopyProject, Move, InsertServer, CopyServer, RegisterStorage, CopySource,
       InsertSource, AdoptSource, InsertDatabase, DropDatabase, WriteDomain, ClearDomain
  <2> QED
    BY <1>1, <2>1, <2>2, <2>3, <2>4, HandlerCases
<1>2. CASE CountOrphans \/ AdoptOrphans \/ UNCHANGED vars
  BY <1>2 DEF CountOrphans, AdoptOrphans, vars
<1>3. CASE Restart
  BY <1>3 DEF Restart
<1> QED
  BY <1>1, <1>2, <1>3 DEF Next

\* What a request is sent to, in the tables it was resolved by.
LEMMA ResolveIs ==
  ASSUME Order, NEW c \in Clients, Resolve(c), pc'[c] = "forward"
  PROVE  \E d \in DOMAIN databases :
           /\ databases[d].id = job'[c].route
           /\ \/ Hostname(databases[d]) = job[c].host
              \/ /\ Hostname(databases[d]) = DefaultHost(databases[d].name)
                 /\ \A e \in DOMAIN databases : Hostname(databases[e]) = job[c].host =>
                      databases[e].server > job[c].seen
<1> DEFINE host   == job[c].host
           seen   == job[c].seen
           routes == Routes(seen)
           route  == FindRoute(routes, host)
<1>0. Tables /\ Calling /\ job[c] \in Job /\ seen \in Nat
  BY DEF Order, Calling, Job
<1>1. IF route = None THEN Goto(c, "idle") ELSE Step(c, "forward", [job[c] EXCEPT !.route = route])
  BY DEF Resolve
<1>2. /\ routes \in Seq(DatabaseRow)
      /\ \A n \in DOMAIN routes : \E d \in DOMAIN databases : routes[n] = databases[d]
      /\ \A d \in DOMAIN databases : databases[d].server <= seen =>
           \E n \in DOMAIN routes : routes[n] = databases[d]
  BY <1>0, RoutesIs
<1> HIDE DEF routes
<1>3. route # None
  <2>1. route = None => pc'[c] = "idle"
    BY <1>0, <1>1, LeaveIs
  <2> QED
    BY <2>1
<1>4. PICK i \in DOMAIN routes :
        /\ routes[i].id = route
        /\ \/ Hostname(routes[i]) = host
           \/ /\ Hostname(routes[i]) = DefaultHost(routes[i].name)
              /\ \A k \in DOMAIN routes : Hostname(routes[k]) # host
  BY <1>2, <1>3, FindRouteIs
<1> HIDE DEF route
<1>5. job'[c].route = route
  BY <1>0, <1>1, <1>3, StepIs DEF Job
<1>6. PICK d \in DOMAIN databases : routes[i] = databases[d]
  BY <1>2
<1>7. \A e \in DOMAIN databases : databases[e].server \in Nat
  <2>1. \A e \in DOMAIN databases : databases[e] \in DatabaseRow
    BY <1>0, LenProperties, ElementOfSeq DEF Tables
  <2> QED
    BY <2>1 DEF DatabaseRow
<1>8. ASSUME \A k \in DOMAIN routes : Hostname(routes[k]) # host,
             NEW e \in DOMAIN databases, Hostname(databases[e]) = host
      PROVE  databases[e].server > seen
  <2>1. ~(databases[e].server <= seen)
    BY <1>2, <1>8
  <2> QED
    BY <1>0, <1>7, <2>1
<1> QED
  BY <1>4, <1>5, <1>6, <1>8

\* No request is sent to a database while another answers on its hostname, unless one of
\* the two got its name without a comparison with the other.
THEOREM RightBooks ==
  Spec => NeverTheWrongBooks
<1> DEFINE claims(c) == {d \in DOMAIN databases : Hostname(databases[d]) = job[c].host}
           sent(c)   == CHOOSE d \in DOMAIN databases : databases[d].id = job'[c].route
<1>1. ASSUME Order, [Next]_vars, NEW c \in Clients, pc[c] = "resolve", pc'[c] = "forward"
      PROVE  /\ \/ sent(c) \in claims(c)
                \/ Hostname(databases[sent(c)]) = DefaultHost(databases[sent(c)].name)
                     /\ \A d \in claims(c) : databases[d].server > job[c].seen
             /\ \A d \in claims(c) \ {sent(c)} :
                  \/ sent(c) \notin claims(c)
                  \/ {databases[d].id, databases[sent(c)].id} \in unchecked
  <2>1. PICK d \in DOMAIN databases :
           /\ databases[d].id = job'[c].route
           /\ \/ Hostname(databases[d]) = job[c].host
              \/ /\ Hostname(databases[d]) = DefaultHost(databases[d].name)
                 /\ \A e \in DOMAIN databases : Hostname(databases[e]) = job[c].host =>
                      databases[e].server > job[c].seen
    BY <1>1, OnlyResolve, ResolveIs
  <2>2. sent(c) = d
    BY <1>1, <2>1 DEF Order, Numbering
  <2>3. ASSUME NEW e \in claims(c), e # d, d \in claims(c)
        PROVE  {databases[e].id, databases[d].id} \in unchecked
    BY <1>1, <2>3 DEF Order, Hosting
  <2> HIDE DEF sent
  <2> QED
    BY <2>1, <2>2, <2>3
<1>2. Order /\ [Next]_vars =>
        [\A c \in Clients :
           pc[c] = "resolve" /\ pc'[c] = "forward" =>
             /\ \/ sent(c) \in claims(c)
                \/ Hostname(databases[sent(c)]) = DefaultHost(databases[sent(c)].name)
                     /\ \A d \in claims(c) : databases[d].server > job[c].seen
             /\ \A d \in claims(c) \ {sent(c)} :
                  \/ sent(c) \notin claims(c)
                  \/ {databases[d].id, databases[sent(c)].id} \in unchecked]_vars
  <2> HIDE DEF sent, claims
  <2> QED
    BY <1>1
<1> QED
  BY <1>2, OrderHolds, PTL DEF Spec, NeverTheWrongBooks

\* Where all sources of an Odoo came from one proposal, or a copy of one, no module of
\* yours is shadowed by OCA's or Odoo's own, nor OCA's by Odoo's.
THEOREM OwnCode ==
  Spec => []OwnCodeWins
<1>1. ASSUME Order PROVE OwnCodeWins
  <2> DEFINE rows(s)   == SourcesOf(s)
             has(s, i, n) == /\ rows(s)[i].path \in Folders
                             /\ \E m \in Disk[rows(s)[i].path] : m.name = n /\ m.depends # Broken
  <2>1. ASSUME NEW s \in DOMAIN servers,
               \A i, k \in DOMAIN rows(s) : rows(s)[i].by = rows(s)[k].by /\ rows(s)[i].by # 0,
               NEW w \in Scan(rows(s)).winners, NEW i \in DOMAIN rows(s), has(s, i, w.name)
        PROVE  <<rows(s)[i].kind, rows(s)[w.source].kind>> \notin
                 {<<"Private", "Oca">>, <<"Private", "Core">>, <<"Oca", "Core">>}
    <3>1. /\ \A n \in DOMAIN rows(s) : rows(s)[n].rank \in Nat /\ rows(s)[n] \in SourceRow
          /\ \A n \in DOMAIN rows(s) : \E k \in DOMAIN sources :
               rows(s)[n] = sources[k] /\ sources[k].server = s
      <4>1. /\ rows(s) \in Seq(SourceRow)
            /\ \A n \in DOMAIN rows(s) : \E k \in DOMAIN sources :
                 rows(s)[n] = sources[k] /\ sources[k].server = s
        BY <1>1, SourcesOfIs DEF Order
      <4> HIDE DEF rows
      <4>2. \A n \in DOMAIN rows(s) : rows(s)[n] \in SourceRow
        BY <4>1, LenProperties, ElementOfSeq
      <4> QED
        BY <4>1, <4>2, Ranks
    <3>2. w.source \in DOMAIN rows(s) /\ rows(s)[w.source].rank <= rows(s)[i].rank
      <4> HIDE DEF rows
      <4> QED
        BY <2>1, <3>1, WinnersAreFirst
    <3> DEFINE a == rows(s)[i]
               b == rows(s)[w.source]
    <3>3. a.by = b.by /\ a.by # 0
      BY <2>1, <3>2
    <3>4. /\ \E k \in DOMAIN sources : a = sources[k] /\ sources[k].server = s
          /\ \E k \in DOMAIN sources : b = sources[k] /\ sources[k].server = s
          /\ a.rank \in Nat /\ b.rank \in Nat
      BY <3>1, <3>2
    <3>5. b.rank <= a.rank
      BY <3>2
    <3> HIDE DEF a, b
    <3>6. Follows(a, b)
      BY <1>1, <3>3, <3>4 DEF Order, Loading, InOrderOfKinds, Mates
    <3>7. ~(KindRank(a.kind) < KindRank(b.kind))
      BY <3>4, <3>5, <3>6 DEF Follows
    <3>8. <<a.kind, b.kind>> \notin {<<"Private", "Oca">>, <<"Private", "Core">>, <<"Oca", "Core">>}
      BY <3>7 DEF KindRank
    <3> QED
      BY <3>8 DEF a, b
  <2> HIDE DEF rows
  <2> QED
    BY <2>1 DEF OwnCodeWins, rows
<1> QED
  BY <1>1, OrderHolds, PTL

\* What scan_modules answers for the sources of an Odoo: an order of just the modules that
\* are in no cycle and depend on none, the others as what is stuck, and no copy of a module
\* passed over for one of a higher rank.
THEOREM ScanSound ==
  Spec => []ScanIsSound
<1>1. ASSUME Order PROVE ScanIsSound
  <2> SUFFICES ASSUME NEW s \in DOMAIN servers
               PROVE  IsOrdered(SourcesOf(s)) /\ FirstWins(SourcesOf(s))
    BY DEF ScanIsSound
  <2> DEFINE rows == SourcesOf(s)
  <2>1. rows \in Seq(SourceRow)
    BY <1>1, SourcesOfIs DEF Order
  <2> HIDE DEF rows
  <2>2. DOMAIN rows = 1 .. Len(rows) /\ Len(rows) \in Nat
    BY <2>1, LenProperties
  <2>3. IsFiniteSet(DOMAIN rows)
    BY <2>2, FS_Interval
  <2>4. \A n \in DOMAIN rows : rows[n] \in SourceRow
    BY <2>1, <2>2, ElementOfSeq
  <2>5. \A n \in DOMAIN rows : rows[n].rank \in Nat
    BY <2>4, Ranks
  <2>6. IsOrdered(rows)
    BY <2>3, ScanIs
  <2>7. FirstWins(rows)
    <3> SUFFICES ASSUME NEW w \in Scan(rows).winners, NEW i \in DOMAIN rows, rows[i].path \in Folders,
                        NEW m \in Disk[rows[i].path], m.name = w.name, m.depends # Broken
                 PROVE  ~(rows[i].rank < w.rank)
      BY DEF FirstWins
    <3>1. w.rank <= rows[i].rank /\ w.rank = rows[w.source].rank /\ w.source \in DOMAIN rows
      BY <2>5, WinnersAreFirst
    <3>2. w.rank \in Nat /\ rows[i].rank \in Nat
      BY <2>5, <3>1
    <3> QED
      BY <3>1, <3>2
  <2> QED
    BY <2>6, <2>7 DEF rows
<1> QED
  BY <1>1, OrderHolds, PTL

===============================================================================
