------------------------------- MODULE Workspace -------------------------------
(***************************************************************************)
(* What the app keeps about the work it runs (lib.rs, db.rs, proxy.rs):    *)
(* projects and the Odoos filed under them, their ports and the cluster    *)
(* they keep their databases on, the folders their modules come from, and  *)
(* the hostnames their databases answer on.  Every step is one section     *)
(* under the lock of the SQLite connection; several requests interleave.   *)
(***************************************************************************)
EXTENDS Addons

CONSTANTS
  Clients,
  Names,        \* database names, [label, upper]: upper if not all lower case
  Domains,      \* the hostnames that are asked for, [label, upper, suffix]
  Offered,      \* the addons folders that are registered one by one
  Hosts,        \* the Host headers of requests
  Ports,        \* the ports a person asks for
  MaxPort,      \* u16::MAX
  Workspaces,   \* the workspaces the app may be opened on
  MaxGiven,     \* the highest id in those
  Calls,        \* the operations that are called
  MaxAsked,     \* how many calls are made
  MaxRequests,  \* how many requests reach the proxy
  MaxRestarts,  \* how often the app ends and comes back
  MaxInputs     \* how many of all these there are together

None   == 0
Ids    == 1 .. MaxGiven + MaxAsked + MaxRestarts + 1
NoHost == [label |-> "", upper |-> FALSE, suffix |-> ""]

Lower(host) == [host EXCEPT !.upper = FALSE]
Hostnames   == {NoHost} \cup {Lower(h) : h \in Domains \cup Hosts}

\* A workspace as the app left it.
Wellformed(w) ==
  /\ w.projects \subseteq 1 .. MaxGiven /\ w.clusters \in Nat
  /\ w.servers \in Seq([project: w.projects \cup {None}, port: 1 .. MaxPort, cluster: 1 .. w.clusters])
  /\ w.sources \in Seq([server: DOMAIN w.servers, path: Folders \cup Offered, kind: Kinds,
                        rank: Nat, by: {None}])
  /\ w.databases \in Seq([id: 1 .. MaxGiven, name: Names, server: DOMAIN w.servers, domain: Hostnames])
  /\ \A d, e \in DOMAIN w.databases : w.databases[d].id = w.databases[e].id => d = e

ASSUME WorkspaceAssumption ==
  /\ \A w \in Workspaces : Wellformed(w)
  /\ \A h \in Domains : Lower(h) # NoHost  \* set_database_domain refuses a blank one
  /\ MaxPort \in Nat /\ Ports \subseteq 1 .. MaxPort
  /\ MaxGiven \in Nat
  /\ MaxAsked \in Nat /\ MaxRequests \in Nat /\ MaxRestarts \in Nat /\ MaxInputs \in Nat

VARIABLES
  projects,   \* the projects there are
  servers,    \* the rows of servers, in the order of created_at; none is ever deleted
  sources,    \* the rows of addons_sources
  databases,  \* the rows of databases
  clusters,   \* how many PostgreSQL instances are registered
  boot,       \* where Core::open is
  pc, job,    \* where each client's request is
  asked, requested, restarts,
  born,       \* history: how many servers there were when the app was opened
  unchecked   \* history: the pairs of databases whose hostnames nobody compared

tables  == <<projects, servers, sources, databases, clusters>>
history == <<boot, requested, restarts, born, unchecked>>
vars    == <<projects, servers, sources, databases, clusters, boot, pc, job, asked, requested, restarts, born,
             unchecked>>

NoJob  == [id |-> 0, project |-> 0, server |-> 0, port |-> 0, cluster |-> 0, database |-> 0,
           host |-> NoHost, route |-> 0, seen |-> 0, used |-> {}, todo |-> <<>>, rows |-> <<>>,
           mixed |-> FALSE]

\* Rows hold values of their columns' types, what they refer to is there, ids are
\* their own, and an operation keeps something only while it is under way.
TypeOK ==
  /\ projects \subseteq Ids
  /\ \A s \in DOMAIN servers :
       /\ servers[s].project \in Ids \cup {None} /\ servers[s].port \in 1 .. MaxPort
       /\ servers[s].cluster \in 1 .. clusters
  /\ \A i \in DOMAIN sources : sources[i].server \in DOMAIN servers /\ sources[i].rank \in Nat
  /\ \A d \in DOMAIN databases :
       databases[d].server \in DOMAIN servers /\ databases[d].name \in Names
  /\ \A d, e \in DOMAIN databases : databases[d].id = databases[e].id => d = e
  /\ boot \in {"count", "adopt", "up"}
  /\ boot # "up" => \A c \in Clients : pc[c] = "idle"
  /\ \A c \in Clients : pc[c] = "idle" => job[c] = NoJob
  /\ unchecked \subseteq SUBSET Ids

DefaultHost(name) == [label |-> name.label, upper |-> name.upper, suffix |-> "localhost"]
Hostname(d)       == IF d.domain = NoHost THEN DefaultHost(d.name) ELSE d.domain

Init ==
  /\ \E w \in Workspaces :
       /\ projects = w.projects /\ servers = w.servers /\ sources = w.sources
       /\ databases = w.databases /\ clusters = w.clusters
  /\ boot = "count" /\ born = Len(servers)
  /\ pc = [c \in Clients |-> "idle"] /\ job = [c \in Clients |-> NoJob]
  /\ asked = 0 /\ requested = 0 /\ restarts = 0
  \* whether a hostname that two share was ever compared is not on record
  /\ unchecked = {p \in SUBSET Ids : \E d, e \in DOMAIN databases :
                    /\ d # e /\ Hostname(databases[d]) = Hostname(databases[e])
                    /\ p = {databases[d].id, databases[e].id}}

-------------------------------------------------------------------------------
MoreInput == asked + requested + restarts < MaxInputs

Goto(c, l) ==
  /\ pc' = [pc EXCEPT ![c] = l]
  /\ job' = IF l = "idle" THEN [job EXCEPT ![c] = NoJob] ELSE job

Step(c, l, j) == pc' = [pc EXCEPT ![c] = l] /\ job' = [job EXCEPT ![c] = j]

Begin(c, call, l, j) ==
  /\ boot = "up" /\ pc[c] = "idle" /\ call \in Calls /\ asked < MaxAsked /\ MoreInput
  /\ asked' = asked + 1
  /\ Step(c, l, [j EXCEPT !.id = MaxGiven + 1 + asked])
  /\ UNCHANGED <<tables, history>>

\* c's request is done with a step that others under way did not see.
Disturb(c, l, j) ==
  /\ pc' = [pc EXCEPT ![c] = l]
  /\ job' = [k \in Clients |-> IF k = c THEN (IF l = "idle" THEN NoJob ELSE j)
                               ELSE IF pc[k] = "idle" THEN NoJob ELSE [job[k] EXCEPT !.mixed = TRUE]]

-------------------------------------------------------------------------------
(* Core::open: adopt_orphan_servers *)

\* The project that is made for them.
Adopter == MaxGiven + MaxAsked + 1 + restarts

CountOrphans ==
  /\ boot = "count"
  /\ IF \E s \in DOMAIN servers : servers[s].project = None
     THEN /\ projects' = projects \cup {Adopter}
          /\ boot' = "adopt"
     ELSE UNCHANGED projects /\ boot' = "up"
  /\ UNCHANGED <<servers, sources, databases, clusters, pc, job, asked, requested, restarts, born, unchecked>>

AdoptOrphans ==
  /\ boot = "adopt"
  /\ servers' = [s \in DOMAIN servers |->
                   IF servers[s].project = None
                   THEN [servers[s] EXCEPT !.project = Adopter] ELSE servers[s]]
  /\ boot' = "up"
  /\ UNCHANGED <<projects, sources, databases, clusters, pc, job, asked, requested, restarts, born, unchecked>>

\* The app ends, at any point, and is opened again.
Restart ==
  /\ restarts < MaxRestarts /\ MoreInput
  /\ restarts' = restarts + 1
  /\ boot' = "count" /\ born' = Len(servers)
  /\ pc' = [c \in Clients |-> "idle"] /\ job' = [c \in Clients |-> NoJob]
  /\ UNCHANGED <<tables, asked, requested, unchecked>>

-------------------------------------------------------------------------------
(* Projects *)

BeginCreateProject(c) == Begin(c, "project", "insertProject", NoJob)

InsertProject(c) ==
  /\ pc[c] = "insertProject"
  /\ projects' = projects \cup {job[c].id}
  /\ Goto(c, "idle")
  /\ UNCHANGED <<servers, sources, databases, clusters, asked, history>>

BeginDeleteProject(c) ==
  \E p \in projects : Begin(c, "project", "count", [NoJob EXCEPT !.project = p])

Filed(p) == {s \in DOMAIN servers : servers[s].project = p}

CountServers(c) ==
  /\ pc[c] = "count"
  /\ Goto(c, IF Filed(job[c].project) # {} THEN "idle" ELSE "delete")
  /\ UNCHANGED <<tables, asked, history>>

\* Mutant: the row goes whatever refers to it (foreign_keys = OFF).
DeleteUnreferenced(c) ==
  /\ pc[c] = "delete"
  /\ projects' = projects \ {job[c].project}
  /\ Goto(c, "idle")
  /\ UNCHANGED <<servers, sources, databases, clusters, asked, history>>

\* A server may be filed under the project after the count; then the foreign key refuses.
DeleteProject(c) ==
  /\ pc[c] = "delete"
  /\ projects' = IF Filed(job[c].project) = {} THEN projects \ {job[c].project} ELSE projects
  /\ Goto(c, "idle")
  /\ UNCHANGED <<servers, sources, databases, clusters, asked, history>>

BeginMove(c) ==
  \E s \in DOMAIN servers, p \in projects :
    Begin(c, "move", "move", [NoJob EXCEPT !.server = s, !.project = p])

Move(c) ==
  /\ pc[c] = "move"
  /\ servers' = IF job[c].project \in projects
                THEN [servers EXCEPT ![job[c].server].project = job[c].project] ELSE servers
  /\ Goto(c, "idle")
  /\ UNCHANGED <<projects, sources, databases, clusters, asked, history>>

-------------------------------------------------------------------------------
(* Servers *)

\* With storage 0 the app's own is used: the first one there is, or a new one.
BeginCreateServer(c) ==
  \E p \in projects \cup {None}, port \in Ports, k \in 0 .. clusters :
    Begin(c, "server", IF k = 0 THEN "storage" ELSE "insertServer",
          [NoJob EXCEPT !.project = p, !.port = port, !.cluster = k])

EnsureStorage(c) ==
  /\ pc[c] = "storage"
  /\ IF clusters > 0 THEN Step(c, "insertServer", [job[c] EXCEPT !.cluster = 1])
     ELSE Goto(c, "register")
  /\ UNCHANGED <<tables, asked, history>>

RegisterStorage(c) ==
  /\ pc[c] = "register"
  /\ clusters' = clusters + 1
  /\ Step(c, "insertServer", [job[c] EXCEPT !.cluster = clusters + 1])
  /\ UNCHANGED <<projects, servers, sources, databases, asked, history>>

\* A project that is gone by now is refused by get_project or by the foreign key.
InsertServer(c) ==
  /\ pc[c] = "insertServer"
  /\ IF job[c].project \in projects \cup {None}
     THEN /\ servers' = Append(servers, [project |-> job[c].project, port |-> job[c].port,
                                         cluster |-> job[c].cluster])
          /\ Disturb(c, "idle", NoJob)
     ELSE UNCHANGED servers /\ Goto(c, "idle")
  /\ UNCHANGED <<projects, sources, databases, clusters, asked, history>>

(* duplicate_project *)

BeginDuplicate(c) ==
  \E p \in projects : Begin(c, "duplicate", "copyProject", [NoJob EXCEPT !.project = p])

CopyProject(c) ==
  /\ pc[c] = "copyProject"
  /\ projects' = projects \cup {job[c].id}
  /\ Goto(c, "usedPorts")
  /\ UNCHANGED <<servers, sources, databases, clusters, asked, history>>

UsedPorts(c) ==
  /\ pc[c] = "usedPorts"
  /\ Step(c, "listed", [job[c] EXCEPT !.used = {servers[s].port : s \in DOMAIN servers}, !.mixed = FALSE])
  /\ UNCHANGED <<tables, asked, history>>

ListServers(c) ==
  /\ pc[c] = "listed"
  /\ LET mine == Ascending(Filed(job[c].project)) IN
     IF mine = <<>> THEN Goto(c, "idle")
     ELSE Step(c, "copyServer", [job[c] EXCEPT !.todo = mine])
  /\ UNCHANGED <<tables, asked, history>>

\* Mutant: the count wraps past the last port.
NextFreePortWrapped(preferred, used) ==
  LET free == {p \in preferred .. MaxPort : p \notin used} \cup {MaxPort + 1}
  IN (CHOOSE p \in free : \A q \in free : p <= q) % (MaxPort + 1)

\* saturating_add: the last port is answered, free or not.
NextFreePort(preferred, used) ==
  LET free == {p \in preferred .. MaxPort : p \notin used} \cup {MaxPort}
  IN CHOOSE p \in free : \A q \in free : p <= q

\* Mutant: the ports that this copy hands out are not remembered.
UsedForgotten(j, port) == j.used
UsedAfter(j, port) == j.used \cup {port}

CopyServer(c) ==
  /\ pc[c] = "copyServer"
  /\ LET j    == job[c]
         old  == servers[Head(j.todo)]
         port == NextFreePort(old.port, j.used)
     IN IF j.id \in projects
        THEN /\ servers' = Append(servers, [project |-> j.id, port |-> port, cluster |-> old.cluster])
             /\ Disturb(c, "listSources", [j EXCEPT !.used = UsedAfter(j, port), !.server = Len(servers) + 1])
        ELSE UNCHANGED servers /\ Goto(c, "idle")
  /\ UNCHANGED <<projects, sources, databases, clusters, asked, history>>

\* The rows of a server in load order, and in the order they were made within a rank.
SourcesOf(s) ==
  LET at == {i \in DOMAIN sources : sources[i].server = s}
      before == {p \in at \X at :
                   \/ sources[p[1]].rank < sources[p[2]].rank
                   \/ sources[p[1]].rank = sources[p[2]].rank /\ p[1] < p[2]}
  IN Along(sources, InOrder(at, before))

NextServer(j) == [j EXCEPT !.todo = Tail(j.todo)]

ListSources(c) ==
  /\ pc[c] = "listSources"
  /\ LET rows == SourcesOf(Head(job[c].todo))
         more == NextServer(job[c])
     IN IF rows # <<>> THEN Step(c, "copySource", [job[c] EXCEPT !.rows = rows])
        ELSE IF more.todo # <<>> THEN Step(c, "copyServer", more) ELSE Goto(c, "idle")
  /\ UNCHANGED <<tables, asked, history>>

CopySource(c) ==
  /\ pc[c] = "copySource"
  /\ sources' = Append(sources, [Head(job[c].rows) EXCEPT !.server = job[c].server])
  /\ LET left == [job[c] EXCEPT !.rows = Tail(@)]
         more == NextServer(left)
     IN IF left.rows # <<>> THEN Step(c, "copySource", left)
        ELSE IF more.todo # <<>> THEN Step(c, "copyServer", more) ELSE Goto(c, "idle")
  /\ UNCHANGED <<projects, servers, databases, clusters, asked, history>>

-------------------------------------------------------------------------------
(* Addons sources *)

\* create_addons_source: whatever path and rank the caller says.
BeginAddSource(c) ==
  \E s \in DOMAIN servers, f \in Offered, r \in 0 .. 1 :
    Begin(c, "source", "insertSource",
          [NoJob EXCEPT !.server = s, !.rows = <<[path |-> f, kind |-> "Private", rank |-> r]>>])

Row(s, root, rank, by) ==
  [server |-> s, path |-> root.path, kind |-> root.kind, rank |-> rank, by |-> by]

InsertSource(c) ==
  /\ pc[c] = "insertSource"
  /\ sources' = Append(sources, Row(job[c].server, Head(job[c].rows), Head(job[c].rows).rank, job[c].id))
  /\ Goto(c, "idle")
  /\ UNCHANGED <<projects, servers, databases, clusters, asked, history>>

\* adopt_addons_roots, with all that discover_addons_roots proposed.
BeginAdoptRoots(c) ==
  \E s \in DOMAIN servers, root \in {f \in Folders : Above[f] = 0} :
    Begin(c, "adopt", "taken", [NoJob EXCEPT !.server = s, !.todo = Discovered(root)])

\* The ranks go on after the highest there is.
Ranked(s, roots, by) ==
  LET rows  == SourcesOf(s)
      taken == {rows[i].path : i \in DOMAIN rows}
      first == IF rows = <<>> THEN 0 ELSE rows[Len(rows)].rank + 1
      new   == Picked(roots, {i \in DOMAIN roots : roots[i].path \notin taken})
  IN [i \in DOMAIN new |-> Row(s, new[i], first + i - 1, by)]

TakenPaths(c) ==
  /\ pc[c] = "taken"
  /\ LET rows == Ranked(job[c].server, job[c].todo, job[c].id)
     IN IF rows = <<>> THEN Goto(c, "idle")
        ELSE Step(c, "adoptSource", [job[c] EXCEPT !.rows = rows])
  /\ UNCHANGED <<tables, asked, history>>

AdoptSource(c) ==
  /\ pc[c] = "adoptSource"
  /\ sources' = Append(sources, Head(job[c].rows))
  /\ IF Len(job[c].rows) > 1 THEN Step(c, "adoptSource", [job[c] EXCEPT !.rows = Tail(@)])
     ELSE Goto(c, "idle")
  /\ UNCHANGED <<projects, servers, databases, clusters, asked, history>>

-------------------------------------------------------------------------------
(* Databases and the names they answer on *)

PairsOf(id) == {{id, databases[d].id} : d \in DOMAIN databases} \ {{id}}

\* A row comes from an adopt, or from a create, a restore, a duplicate, ... once
\* createdb has made its database: nobody looks at its hostname.
BeginInsertDatabase(c) ==
  \E s \in DOMAIN servers, n \in Names, l \in {"insertDatabase", "adoptDatabase"} :
    Begin(c, "database", l, [NoJob EXCEPT !.server = s, !.rows = <<n>>])

\* The cluster may refuse: createdb a name that is taken, an adopt one that is not.
\* Of the rows only an adopt looks at any, and at those of its own server alone.
InsertDatabase(c) ==
  /\ pc[c] \in {"insertDatabase", "adoptDatabase"}
  /\ LET s == job[c].server
         n == Head(job[c].rows)
     IN \/ UNCHANGED <<databases, unchecked>> /\ Goto(c, "idle")
        \/ /\ pc[c] = "adoptDatabase" =>
                ~\E d \in DOMAIN databases : databases[d].name = n /\ databases[d].server = s
           /\ databases' = Append(databases, [id |-> job[c].id, name |-> n, server |-> s, domain |-> NoHost])
           /\ unchecked' = unchecked \cup PairsOf(job[c].id)
           /\ Disturb(c, "idle", NoJob)
  /\ UNCHANGED <<projects, servers, sources, clusters, asked, boot, requested, restarts, born>>

BeginDropDatabase(c) ==
  \E d \in DOMAIN databases : Begin(c, "drop", "drop", [NoJob EXCEPT !.database = databases[d].id])

DropDatabase(c) ==
  /\ pc[c] = "drop"
  /\ databases' = Picked(databases, {d \in DOMAIN databases : databases[d].id # job[c].database})
  /\ UNCHANGED unchecked
  /\ Goto(c, "idle")
  /\ UNCHANGED <<projects, servers, sources, clusters, asked, boot, requested, restarts, born>>

\* routing_table lists the servers, then the databases, and leaves out those of a
\* server it did not see.
Routes(seen) == Picked(databases, {d \in DOMAIN databases : databases[d].server <= seen})

BeginSetDomain(c) ==
  \E d \in DOMAIN databases :
    \/ \E h \in Domains :
         Begin(c, "domain", "routeServers", [NoJob EXCEPT !.database = databases[d].id, !.host = Lower(h)])
    \/ Begin(c, "domain", "clearDomain", [NoJob EXCEPT !.database = databases[d].id])

RouteServers(c) ==
  /\ pc[c] = "routeServers"
  /\ Step(c, "clash", [job[c] EXCEPT !.seen = Len(servers)])
  /\ UNCHANGED <<tables, asked, history>>

\* Mutant: the domain is compared with the domains alone.
ClashOfDomains(routes, host, id) ==
  \E r \in DOMAIN routes : routes[r].domain = host /\ routes[r].id # id
Clash(routes, host, id) ==
  \E r \in DOMAIN routes : Hostname(routes[r]) = host /\ routes[r].id # id

CheckClash(c) ==
  /\ pc[c] = "clash"
  /\ IF Clash(Routes(job[c].seen), job[c].host, job[c].database) THEN Goto(c, "idle")
     ELSE Goto(c, "writeDomain")
  /\ UNCHANGED <<tables, asked, history>>

SetDomain(id, host) ==
  databases' = [d \in DOMAIN databases |->
                  IF databases[d].id = id THEN [databases[d] EXCEPT !.domain = host] ELSE databases[d]]

WriteDomain(c) ==
  /\ pc[c] = "writeDomain"
  /\ SetDomain(job[c].database, job[c].host)
  /\ unchecked' = IF job[c].mixed THEN unchecked \cup PairsOf(job[c].database)
                  ELSE unchecked \ PairsOf(job[c].database)
  /\ Disturb(c, "idle", NoJob)
  /\ UNCHANGED <<projects, servers, sources, clusters, asked, boot, requested, restarts, born>>

ClearDomain(c) ==
  /\ pc[c] = "clearDomain"
  /\ SetDomain(job[c].database, NoHost)
  /\ unchecked' = unchecked \cup PairsOf(job[c].database)
  /\ Disturb(c, "idle", NoJob)
  /\ UNCHANGED <<projects, servers, sources, clusters, asked, boot, requested, restarts, born>>

(* The proxy *)

First(routes, I) == IF I = {} THEN None ELSE routes[CHOOSE i \in I : \A k \in I : i <= k].id

\* An exact match wins; else the first label is the name of a database that still
\* answers on its default address.  A bare label is no address.
FindRoute(routes, host) ==
  LET exact  == {i \in DOMAIN routes : Hostname(routes[i]) = host}
      labels == {i \in DOMAIN routes : /\ ~routes[i].name.upper /\ routes[i].name.label = host.label
                                        /\ Hostname(routes[i]) = DefaultHost(routes[i].name)}
  IN IF exact # {} \/ host.suffix = "" THEN First(routes, exact) ELSE First(routes, labels)

BeginRequest(c) ==
  /\ boot = "up" /\ pc[c] = "idle" /\ requested < MaxRequests /\ MoreInput
  /\ requested' = requested + 1
  /\ \E h \in Hosts : Step(c, "requestServers", [NoJob EXCEPT !.host = Lower(h)])
  /\ UNCHANGED <<tables, asked, boot, restarts, born, unchecked>>

RequestServers(c) ==
  /\ pc[c] = "requestServers"
  /\ Step(c, "resolve", [job[c] EXCEPT !.seen = Len(servers)])
  /\ UNCHANGED <<tables, asked, history>>

Resolve(c) ==
  /\ pc[c] = "resolve"
  /\ LET route == FindRoute(Routes(job[c].seen), job[c].host)
     IN IF route = None THEN Goto(c, "idle") ELSE Step(c, "forward", [job[c] EXCEPT !.route = route])
  /\ UNCHANGED <<tables, asked, history>>

Forward(c) ==
  /\ pc[c] = "forward"
  /\ Goto(c, "idle")
  /\ UNCHANGED <<tables, asked, history>>

-------------------------------------------------------------------------------
Handler(c) ==
  \/ BeginCreateProject(c) \/ InsertProject(c)
  \/ BeginDeleteProject(c) \/ CountServers(c) \/ DeleteProject(c)
  \/ BeginMove(c) \/ Move(c)
  \/ BeginCreateServer(c) \/ EnsureStorage(c) \/ RegisterStorage(c) \/ InsertServer(c)
  \/ BeginDuplicate(c) \/ CopyProject(c) \/ UsedPorts(c) \/ ListServers(c) \/ CopyServer(c)
  \/ ListSources(c) \/ CopySource(c)
  \/ BeginAddSource(c) \/ InsertSource(c)
  \/ BeginAdoptRoots(c) \/ TakenPaths(c) \/ AdoptSource(c)
  \/ BeginInsertDatabase(c) \/ InsertDatabase(c) \/ BeginDropDatabase(c) \/ DropDatabase(c)
  \/ BeginSetDomain(c) \/ RouteServers(c) \/ CheckClash(c) \/ WriteDomain(c) \/ ClearDomain(c)
  \/ BeginRequest(c) \/ RequestServers(c) \/ Resolve(c) \/ Forward(c)

Next == CountOrphans \/ AdoptOrphans \/ Restart \/ \E c \in Clients : Handler(c)

Spec == Init /\ [][Next]_vars

-------------------------------------------------------------------------------
(* Properties *)

\* A project is never taken from under its Odoos, whatever interleaves with the
\* count that delete_project relies on; and once the app is open, every Odoo that
\* was there before it is filed under one.
ServersAreFiled ==
  \A s \in DOMAIN servers :
    /\ servers[s].project \in projects \cup {None}
    /\ boot = "up" /\ s <= born => servers[s].project # None

\* Duplicating a project gives "every copy a port nothing else is using": no Odoo
\* there is has the port of a new copy, unless one was added or copied by others
\* since the ports were read, or the last port there is was reached.
CopiesGetFreePorts ==
  [][\A c \in Clients :
       CopyServer(c) /\ Len(servers') > Len(servers) /\ ~job[c].mixed =>
         LET port == servers'[Len(servers')].port
         IN port = MaxPort \/ \A s \in DOMAIN servers : servers[s].port # port]_vars

\* "Two databases behind one name is a silent mis-route": a request is sent to a
\* database that answers on the hostname, or to one that still has its default
\* address when nobody answers on it; and nobody else answers there, unless one of
\* the two got its name without a comparison with the other: a new row, a cleared
\* domain, a set that overlapped another change.
NeverTheWrongBooks ==
  [][\A c \in Clients :
       pc[c] = "resolve" /\ pc'[c] = "forward" =>
         LET host   == job[c].host
             claims == {d \in DOMAIN databases : Hostname(databases[d]) = host}
             sent   == CHOOSE d \in DOMAIN databases : databases[d].id = job'[c].route
         IN /\ \/ sent \in claims
               \/ Hostname(databases[sent]) = DefaultHost(databases[sent].name)
                    /\ \A d \in claims : databases[d].server > job[c].seen
            /\ \A d \in claims \ {sent} :
                 \/ sent \notin claims
                 \/ {databases[d].id, databases[sent].id} \in unchecked]_vars

\* What scan_modules answers for the sources of an Odoo: every module that Odoo loads
\* has an order in which each comes after what it depends on, or what is reported as
\* a cycle is just the modules that are in one or depend on one; and no copy with a
\* lower rank is passed over.
ScanIsSound ==
  \A s \in DOMAIN servers : IsOrdered(SourcesOf(s)) /\ FirstWins(SourcesOf(s))

\* The proposed load order holds: where all sources of an Odoo came from one
\* adopted proposal (or a copy of it), a module of your own that Odoo or OCA has
\* too is loaded from your code.
OwnCodeWins ==
  \A s \in DOMAIN servers :
    LET rows   == SourcesOf(s)
        has(i, n) == rows[i].path \in Folders /\ \E m \in Disk[rows[i].path] : m.name = n /\ m.depends # Broken
    IN (\A i, k \in DOMAIN rows : rows[i].by = rows[k].by /\ rows[i].by # 0) =>
         \A w \in Scan(rows).winners, i \in DOMAIN rows :
           has(i, w.name) => <<rows[i].kind, rows[w.source].kind>> \notin
             {<<"Private", "Oca">>, <<"Private", "Core">>, <<"Oca", "Core">>}
===============================================================================
