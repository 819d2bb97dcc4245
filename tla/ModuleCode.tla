------------------------------ MODULE ModuleCode ------------------------------
(***************************************************************************)
(* Which code each database runs (lib.rs, modules.rs, db.rs): one-shot     *)
(* odoo-bin commands install, upgrade and uninstall modules, hashes note   *)
(* what was on disk afterwards, templates keyed by such hashes save later  *)
(* boots, and neutralization makes a restored copy safe.  The code on disk *)
(* is edited, and Odoo and reverts change databases, at any moment.        *)
(***************************************************************************)
EXTENDS Naturals, SequencesExt

CONSTANTS
  Clients,     \* who asks for operations, one at a time each
  Modules,     \* technical names
  Needs,       \* what each module depends on, in its manifest
  Requests,    \* sets of modules operations are asked for,
  Starters,    \* and those that new databases are made with
  Versions,    \* contents a module's folder may have
  Names,       \* names databases are given
  Absent,      \* no database, module or record
  Faults,      \* which failures the environment produces
  MaxOutside,  \* how often code is edited and databases changed from outside
  MaxAsked     \* how many operations are asked for

\* fail: a one-shot command fails, after some of its modules were committed;
\* query: a psql query fails; cut: an operation ends between two steps.
FaultKinds == {"fail", "query", "cut"}

Code     == Versions \cup {Absent}
Contents == [odoo: BOOLEAN, safe: BOOLEAN, inst: [Modules -> Code]]

\* template_key: the modules by name, and what each one's files hash to.
Keys   == UNION {[M -> Code] : M \in Starters}
Ids    == 1 .. MaxAsked
Places == Names \cup Keys
Rows   == [id: Ids, name: Names]

ASSUME ConstantsAssumption ==
  /\ Needs \in [Modules -> SUBSET Modules]
  /\ Requests \cup Starters \subseteq (SUBSET Modules) \ {{}}
  /\ Absent \notin Versions /\ Absent \notin Keys /\ Absent \notin Rows /\ Absent \notin Contents
  /\ Names \cap Keys = {}  \* template_name's prefix is its own
  /\ IsFiniteSet(Modules)
  /\ Faults \subseteq FaultKinds
  /\ MaxOutside \in Nat /\ MaxAsked \in Nat

VARIABLES
  code,      \* what is on the addons path
  rows,      \* databases this app lists: [id, name]
  cluster,   \* what each database holds, templates included
  installs,  \* module_installs: the hash noted for a row and a module
  pc, job,   \* where each operation is, and what it keeps across its awaits
  asked,     \* operations so far; the row an operation makes takes this id
  outside,   \* edits and changes from outside so far
  held,      \* history: operations during which nobody else changed the code,
             \* or the database they work on
  unmoved,   \* history: modules of an operation's command that nobody edited, or
             \* changed in its database, since the command ended
  trusted,   \* history: notes that were made of such a module, while nothing but
             \* a new note of it came with a change of it in the database
  sound      \* history: templates an operation so held kept

history == <<held, unmoved, trusted, sound>>
vars == <<code, rows, cluster, installs, pc, job, asked, outside, history>>

OpKinds  == {"install", "upgrade", "batch", "uninstall", "make", "clear",
             "neutralize", "restore", "freshness", "drop"}
WorkLocs == {"run", "record", "look", "copy", "create", "row", "keep", "clear",
             "load", "ask", "neutralize", "states", "hash", "dropDb", "forget"}

\* How an operation ended; blind: Ok, though a question it asked was not answered.
EndLocs  == {"ok", "blind", "error"}

NoModules == [m \in Modules |-> Absent]
Bare      == [odoo |-> FALSE, safe |-> FALSE, inst |-> NoModules]
Restored  == [Bare EXCEPT !.odoo = TRUE]

NoJob == [op |-> "clear", row |-> Absent, all |-> {}, now |-> {}, queue |-> <<>>,
          failed |-> FALSE, key |-> Absent, seen |-> {}, noted |-> NoModules]

TypeOK ==
  /\ code \in [Modules -> Code]
  /\ rows \subseteq Rows
  /\ cluster \in [Places -> Contents \cup {Absent}]
  /\ installs \in [Ids -> [Modules -> Code]]
  /\ pc \in [Clients -> EndLocs \cup WorkLocs]
  /\ \A c \in Clients :
       /\ job[c].op \in OpKinds
       /\ job[c].row \in Rows \cup {Absent}
       /\ job[c].now \subseteq job[c].all /\ job[c].all \subseteq Modules
       /\ ToSet(job[c].queue) \subseteq job[c].all
       /\ job[c].key \in Keys \cup {Absent}
       /\ job[c].seen \subseteq Modules /\ job[c].noted \in [Modules -> Code]
       /\ job[c].failed \in BOOLEAN
  /\ asked \in 0 .. MaxAsked /\ outside \in 0 .. MaxOutside
  /\ held \subseteq Clients /\ unmoved \subseteq Clients \X Modules
  /\ trusted \subseteq Ids \X Modules /\ sound \subseteq Keys

Init ==
  /\ code \in {[m \in Modules |-> v] : v \in Versions}  \* versions have no order
  /\ rows = {}
  /\ cluster = [p \in Places |-> Absent]
  /\ installs = [i \in Ids |-> NoModules]
  /\ pc = [c \in Clients |-> "ok"]
  /\ job = [c \in Clients |-> NoJob]
  /\ asked = 0 /\ outside = 0
  /\ held = {} /\ unmoved = {} /\ trusted = {} /\ sound = {}

-------------------------------------------------------------------------------
(* Odoo's own part: what its commands do to a database *)

\* -i: the named modules as they are on disk, and what they need if missing.
Wanted(M) == M \cup UNION {Needs[m] : m \in M}
Installed(d, M) ==
  [d EXCEPT !.odoo = TRUE,
            !.inst = [m \in Modules |->
               IF m \in M \/ (m \in Wanted(M) /\ d.inst[m] = Absent) THEN code[m] ELSE d.inst[m]]]

\* -u: those of the named modules and of their dependants that are installed.
Upgraded(d, M) ==
  [d EXCEPT !.inst = [m \in Modules |->
     IF d.inst[m] # Absent /\ (m \in M \/ Needs[m] \cap M # {}) THEN code[m] ELSE d.inst[m]]]

Uninstalled(d, M) ==
  [d EXCEPT !.inst = [m \in Modules |-> IF m \in M \/ Needs[m] \cap M # {} THEN Absent ELSE d.inst[m]]]

\* What a command leaves of the database when it got as far as the modules M.
Ran(op, d, M) ==
  CASE op \in {"install", "make"}  -> Installed(d, M)
    [] op \in {"upgrade", "batch"} -> Upgraded(d, M)
    [] op = "uninstall"            -> Uninstalled(d, M)

-------------------------------------------------------------------------------
Works(c)    == pc[c] \in WorkLocs
NameOf(c)   == job[c].row.name
There(c)    == cluster[NameOf(c)] # Absent
Known(c)    == job[c].row \in rows
Becomes(n, d) == cluster' = [cluster EXCEPT ![n] = d]

With(c, l, j) == pc' = [pc EXCEPT ![c] = l] /\ job' = [job EXCEPT ![c] = j]
Goto(c, l)    == With(c, l, IF l \in WorkLocs THEN job[c] ELSE NoJob)

Begin(c, l, j) ==
  /\ ~Works(c)
  /\ asked < MaxAsked
  /\ asked' = asked + 1
  /\ With(c, l, j)
  /\ UNCHANGED <<code, rows, cluster, installs, outside>>

\* Mutant: the id of the last operation is used again.
FreshReused(n) == [id |-> asked, name |-> n]
Fresh(n) == [id |-> asked + 1, name |-> n]

\* install_modules_here, upgrade_modules_here, upgrade_modules_batched and
\* uninstall_modules_here; a batch of one is an upgrade.
BeginRun(c) ==
  \E op \in {"install", "upgrade", "batch", "uninstall"}, r \in rows, M \in Requests :
    /\ op = "batch" => \A m \in M : M # {m}
    /\ Begin(c, "run", [NoJob EXCEPT !.op = op, !.row = r, !.all = M, !.now = M])

\* Mutant: the template is keyed by names alone.
BeginMakeByName(c) ==
  \E n \in Names, M \in Starters :
    Begin(c, "look", [NoJob EXCEPT !.op = "make", !.row = Fresh(n), !.all = M, !.now = M,
                        !.key = [m \in M |-> Absent]])

\* create_database_with_modules: the key is taken before anything is built.
BeginMake(c) ==
  \E n \in Names, M \in Starters :
    Begin(c, "look", [NoJob EXCEPT !.op = "make", !.row = Fresh(n), !.all = M, !.now = M,
                        !.key = [m \in M |-> code[m]]])

BeginRestore(c) ==
  \E n \in Names : Begin(c, "load", [NoJob EXCEPT !.op = "restore", !.row = Fresh(n)])

BeginNeutralize(c) ==
  \E r \in rows : Begin(c, "ask", [NoJob EXCEPT !.op = "neutralize", !.row = r])

BeginDrop(c) ==
  \E r \in rows : Begin(c, "dropDb", [NoJob EXCEPT !.op = "drop", !.row = r])

BeginClear(c) == Begin(c, "clear", NoJob)

\* module_freshness: which modules are on disk, and what is noted of them, is read
\* before the database is asked; what is in their folders, after.
BeginFreshness(c) ==
  \E r \in rows :
    Begin(c, "states", [NoJob EXCEPT !.op = "freshness", !.row = r,
                          !.seen = {m \in Modules : code[m] # Absent},
                          !.noted = installs[r.id]])

-------------------------------------------------------------------------------
(* run_module_flag_command and what follows it *)

Run(c) ==
  /\ pc[c] = "run" /\ job[c].op # "uninstall"
  /\ Known(c) /\ There(c)
  /\ Becomes(NameOf(c), Ran(job[c].op, cluster[NameOf(c)], job[c].now))
  /\ Goto(c, "record")
  /\ UNCHANGED <<code, rows, installs, asked, outside>>

\* uninstall_modules: nothing is taken off the record.
Uninstall(c) ==
  /\ pc[c] = "run" /\ job[c].op = "uninstall"
  /\ Known(c) /\ There(c)
  /\ Becomes(NameOf(c), Ran("uninstall", cluster[NameOf(c)], job[c].now))
  /\ Goto(c, "ok")
  /\ UNCHANGED <<code, rows, installs, asked, outside>>

\* Mutant: a command that failed is recorded too.
RunFailsRecorded(c) ==
  /\ pc[c] = "run" /\ "fail" \in Faults
  /\ Known(c) /\ There(c)
  /\ \E M \in SUBSET job[c].now : Becomes(NameOf(c), Ran(job[c].op, cluster[NameOf(c)], M))
  /\ Goto(c, "record")
  /\ UNCHANGED <<code, rows, installs, asked, outside>>

\* The command exits with an error.  A batch then tries its modules one at a
\* time, in the order asked for, to name the culprit.
RunFails(c) ==
  /\ pc[c] = "run" /\ "fail" \in Faults
  /\ Known(c) /\ There(c)
  /\ \E M \in SUBSET job[c].now : Becomes(NameOf(c), Ran(job[c].op, cluster[NameOf(c)], M))
  /\ IF job[c].op = "batch" /\ ~job[c].failed
     THEN \E order \in SetToSeqs(job[c].all) :
            With(c, "run", [job[c] EXCEPT !.failed = TRUE, !.now = {Head(order)}, !.queue = Tail(order)])
     ELSE Goto(c, "error")
  /\ UNCHANGED <<code, rows, installs, asked, outside>>

OnDisk(c) == {m \in job[c].now : code[m] # Absent}

\* remember_module_contents: the row is looked up again, the folders are hashed
\* now, after the command.
Remember(c) ==
  installs' = [installs EXCEPT ![job[c].row.id] =
                 [m \in Modules |-> IF m \in OnDisk(c) THEN code[m] ELSE @[m]]]

\* Mutant: a batch whose modules succeeded one by one, some of them, is Ok.
RecordLeniently(c) ==
  /\ pc[c] = "record"
  /\ Known(c)
  /\ Remember(c)
  /\ IF job[c].queue # <<>> THEN Goto(c, "ok") ELSE Goto(c, IF job[c].op = "make" THEN "keep" ELSE "ok")
  /\ UNCHANGED <<code, rows, cluster, asked, outside>>

\* A batch that failed is an error even if each module then succeeded alone.
Record(c) ==
  /\ pc[c] = "record"
  /\ Known(c)
  /\ Remember(c)
  /\ IF job[c].queue # <<>>
     THEN With(c, "run", [job[c] EXCEPT !.now = {Head(job[c].queue)}, !.queue = Tail(@)])
     ELSE Goto(c, IF job[c].op = "make" THEN "keep" ELSE IF job[c].failed THEN "error" ELSE "ok")
  /\ UNCHANGED <<code, rows, cluster, asked, outside>>

-------------------------------------------------------------------------------
(* create_database_with_modules and the template cache *)

Look(c) ==
  /\ pc[c] = "look"
  /\ IF cluster[job[c].key] = Absent
     THEN Goto(c, "create")
     ELSE With(c, "copy", [job[c] EXCEPT !.now = {}])
  /\ UNCHANGED <<code, rows, cluster, installs, asked, outside>>

\* The cached way: the modules of the copy are not recorded.
Copy(c) ==
  /\ pc[c] = "copy"
  /\ cluster[job[c].key] # Absent /\ ~There(c)
  /\ Becomes(NameOf(c), cluster[job[c].key])
  /\ Goto(c, "row")
  /\ UNCHANGED <<code, rows, installs, asked, outside>>

Create(c) ==
  /\ pc[c] = "create"
  /\ ~There(c)
  /\ Becomes(NameOf(c), Bare)
  /\ Goto(c, "row")
  /\ UNCHANGED <<code, rows, installs, asked, outside>>

InsertRow(c) ==
  /\ pc[c] = "row"
  /\ rows' = rows \cup {job[c].row}
  /\ Goto(c, IF job[c].op = "restore" THEN "ask" ELSE IF job[c].now = {} THEN "ok" ELSE "run")
  /\ UNCHANGED <<code, cluster, installs, asked, outside>>

\* Not fatal: another call may have kept its own, or the database may be gone.
Keep(c) ==
  /\ pc[c] = "keep"
  /\ IF cluster[job[c].key] = Absent /\ There(c)
     THEN Becomes(job[c].key, cluster[NameOf(c)])
     ELSE UNCHANGED cluster
  /\ Goto(c, "ok")
  /\ UNCHANGED <<code, rows, installs, asked, outside>>

\* clear_template_cache; any of the drops may be refused.
Clear(c) ==
  /\ pc[c] = "clear"
  /\ \E T \in SUBSET {k \in Keys : cluster[k] # Absent} :
       cluster' = [p \in Places |-> IF p \in T THEN Absent ELSE cluster[p]]
  /\ Goto(c, "ok")
  /\ UNCHANGED <<code, rows, installs, asked, outside>>

-------------------------------------------------------------------------------
(* restore, neutralize, module_freshness, drop *)

\* restore_database, in one: a database of real data, or of a bare dump.
Load(c) ==
  /\ pc[c] = "load"
  /\ ~There(c)
  /\ \E d \in {Bare, Restored} : Becomes(NameOf(c), d)
  /\ Goto(c, "row")
  /\ UNCHANGED <<code, rows, installs, asked, outside>>

\* A query that fails counts as "no Odoo here", which is a success.
AskOdoo(c) ==
  /\ pc[c] = "ask"
  /\ Known(c) /\ There(c)
  /\ \/ Goto(c, IF cluster[NameOf(c)].odoo THEN "neutralize" ELSE "ok")
     \/ "query" \in Faults /\ Goto(c, "blind")
  /\ UNCHANGED <<code, rows, cluster, installs, asked, outside>>

Neutralize(c) ==
  /\ pc[c] = "neutralize"
  /\ There(c)
  /\ Becomes(NameOf(c), [cluster[NameOf(c)] EXCEPT !.safe = TRUE])
  /\ Goto(c, "ok")
  /\ UNCHANGED <<code, rows, installs, asked, outside>>

\* The command exits with an error: before or after it changed the database.
NeutralizeFails(c) ==
  /\ pc[c] = "neutralize" /\ "fail" \in Faults
  /\ There(c)
  /\ \/ Becomes(NameOf(c), [cluster[NameOf(c)] EXCEPT !.safe = TRUE])
     \/ UNCHANGED cluster
  /\ Goto(c, "error")
  /\ UNCHANGED <<code, rows, installs, asked, outside>>

\* The database says which modules are installed; a module's code is not in it.
States(c) ==
  /\ pc[c] = "states"
  /\ There(c)
  /\ Goto(c, "hash")
  /\ UNCHANGED <<code, rows, cluster, installs, asked, outside>>

\* What module_freshness says of a module, from the note it read before and the
\* folder as it is now; a folder that came since is not looked at.
FreshnessOf(c, m) ==
  CASE m \notin job[c].seen \/ code[m] = Absent -> "NotOnDisk"
    [] OTHER -> CASE job[c].noted[m] = Absent  -> "Unrecorded"
                  [] job[c].noted[m] = code[m] -> "Live"
                  [] OTHER                     -> "Changed"

Hash(c) ==
  /\ pc[c] = "hash"
  /\ Goto(c, "ok")
  /\ UNCHANGED <<code, rows, cluster, installs, asked, outside>>

DropDb(c) ==
  /\ pc[c] = "dropDb"
  /\ Becomes(NameOf(c), Absent)
  /\ Goto(c, "forget")
  /\ UNCHANGED <<code, rows, installs, asked, outside>>

ForgetInstalls(c) ==
  /\ pc[c] = "forget"
  /\ rows' = rows \ {job[c].row}
  /\ installs' = [installs EXCEPT ![job[c].row.id] = NoModules]
  /\ Goto(c, "ok")
  /\ UNCHANGED <<code, cluster, asked, outside>>

-------------------------------------------------------------------------------
(* What happens outside this app, and what goes wrong *)

\* Somebody edits a module, pulls, or takes it off the addons path.
Edit(m) ==
  /\ outside < MaxOutside
  /\ outside' = outside + 1
  /\ \E v \in Code \ {code[m]} : code' = [code EXCEPT ![m] = v]
  /\ UNCHANGED <<rows, cluster, installs, pc, job, asked>>

\* Odoo's own Apps screen updates a module, or a revert brings back a database
\* from before Odoo was in it.
Change(n) ==
  /\ outside < MaxOutside
  /\ outside' = outside + 1
  /\ cluster[n] # Absent /\ \E r \in rows : r.name = n
  /\ \E d \in {Bare} \cup {Upgraded(cluster[n], {m}) : m \in Modules} : Becomes(n, d)
  /\ UNCHANGED <<code, rows, installs, pc, job, asked>>

\* What the step an operation is at needs; without it the step is an error.
Possible(c) ==
  CASE pc[c] = "run"                     -> Known(c) /\ There(c)
    [] pc[c] = "record"                  -> Known(c)
    [] pc[c] = "copy"                    -> cluster[job[c].key] # Absent /\ ~There(c)
    [] pc[c] \in {"create", "load"}       -> ~There(c)
    [] pc[c] = "ask"                     -> Known(c) /\ There(c)
    [] pc[c] \in {"neutralize", "states"} -> There(c)
    [] OTHER                             -> TRUE

CutShort(c) ==
  /\ Works(c)
  /\ "cut" \in Faults \/ ~Possible(c)
  /\ Goto(c, "error")
  /\ UNCHANGED <<code, rows, cluster, installs, asked, outside>>

-------------------------------------------------------------------------------
(* What the properties remember of the steps *)

Acts(c)   == pc'[c] # pc[c] \/ job'[c] # job[c]
Same(n)   == cluster'[n] = cluster[n]

Witness ==
  /\ held' = {c \in Clients :
       /\ pc'[c] \in WorkLocs
       /\ Works(c) => c \in held /\ code' = code /\ (Acts(c) \/ job[c].row = Absent \/ Same(NameOf(c)))}
  /\ unmoved' = {u \in Clients \X Modules :
       LET c == u[1]
           m == u[2]
       IN  /\ pc'[c] = "record" /\ m \in job'[c].now
           /\ \/ pc[c] = "run"
              \/ /\ u \in unmoved /\ code'[m] = code[m]
                 /\ cluster'[NameOf(c)] # Absent
                 /\ cluster'[NameOf(c)].inst[m] = cluster[NameOf(c)].inst[m]}
  /\ trusted' = {t \in Ids \X Modules :
       \/ \E c \in Clients : /\ pc[c] = "record" /\ Acts(c) /\ Known(c) /\ Remember(c)
                             /\ job[c].row.id = t[1] /\ t[2] \in OnDisk(c)
                             /\ <<c, t[2]>> \in unmoved
       \/ /\ t \in trusted /\ installs'[t[1]] = installs[t[1]]
          /\ \A r \in rows : r.id = t[1] /\ ~Same(r.name) =>
               /\ cluster'[r.name] # Absent
               /\ cluster'[r.name].inst[t[2]] = cluster[r.name].inst[t[2]]}
  /\ sound' = {k \in Keys : /\ cluster'[k] # Absent
                            /\ k \in sound \/ (~Same(k) /\ \E c \in held : Acts(c) /\ job[c].key = k)}

Step(c) ==
  \/ BeginRun(c) \/ BeginMake(c) \/ BeginRestore(c) \/ BeginNeutralize(c)
  \/ BeginDrop(c) \/ BeginClear(c) \/ BeginFreshness(c)
  \/ Run(c) \/ Uninstall(c) \/ RunFails(c) \/ Record(c)
  \/ Look(c) \/ Copy(c) \/ Create(c) \/ InsertRow(c) \/ Keep(c) \/ Clear(c)
  \/ Load(c) \/ AskOdoo(c) \/ Neutralize(c) \/ NeutralizeFails(c)
  \/ States(c) \/ Hash(c)
  \/ DropDb(c) \/ ForgetInstalls(c)
  \/ CutShort(c)

Next ==
  /\ \/ \E c \in Clients : Step(c)
     \/ \E m \in Modules : Edit(m)
     \/ \E n \in Names : Change(n)
  /\ Witness

Spec == Init /\ [][Next]_vars

-------------------------------------------------------------------------------
(* Properties *)

Ends(c) == Works(c) /\ pc'[c] = "ok"

\* "Hashing the module's files answers it properly": when module_freshness says a
\* module is Live, the database has the code that is on disk as it says so, however
\* much was edited, upgraded or noted while the database was asked.  What the code
\* cannot know is left out: a folder edited, or a database changed, between a command
\* and the hash that notes it; a module that a failed command or a click in Odoo
\* changed without a note; a note that was replaced after it was read.
LiveIsLive ==
  [][\A c \in Clients, m \in Modules :
       /\ Ends(c) /\ job[c].op = "freshness"
       /\ cluster[NameOf(c)] # Absent /\ cluster[NameOf(c)].inst[m] # Absent
       /\ FreshnessOf(c, m) = "Live"
       /\ <<job[c].row.id, m>> \in trusted /\ installs[job[c].row.id][m] = job[c].noted[m]
       => cluster[NameOf(c)].inst[m] = code[m]]_vars

\* "Change any of the three and the old template is the wrong answer": a copy of a
\* template has each module that was asked for as it is on disk, if nobody edited
\* since it was asked for, nor while the template was made.
ServedIsCurrent ==
  [][\A c \in Clients :
       pc[c] = "copy" /\ pc'[c] = "row" /\ c \in held /\ job[c].key \in sound =>
         \A m \in job[c].all : cluster'[NameOf(c)].inst[m] = code[m]]_vars

\* An install, an upgrade or a batch of them that answers Ok, undisturbed, leaves
\* every module it was asked for (an upgrade: every one that was installed) at the
\* code on disk, and noted so: a batch never hides the one that failed.
OkMeansCurrent ==
  [][\A c \in Clients :
       Ends(c) /\ job[c].op \in {"install", "upgrade", "batch"} /\ c \in held =>
         \A m \in job[c].all :
           code[m] # Absent =>
             /\ cluster[NameOf(c)].inst[m] \in {code[m]} \cup (IF job[c].op = "install" THEN {} ELSE {Absent})
             /\ installs'[job[c].row.id][m] = code[m]]_vars

===============================================================================
