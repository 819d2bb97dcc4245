--------------------------- MODULE ModuleCodeProofs ---------------------------
(***************************************************************************)
(* Proofs about ModuleCode, for all sets of clients, modules, versions and *)
(* names, whatever depends on what, and all bounds.  The three properties  *)
(* are about the last step of an operation; the invariant is what the      *)
(* operation, the records and the templates have to show for by then.      *)
(***************************************************************************)
EXTENDS ModuleCode, TLAPS, FiniteSetTheorems, SequenceTheorems

-------------------------------------------------------------------------------
(* The inductive invariant *)

Commands == {"install", "upgrade", "batch", "make"}

Job == [op: OpKinds, row: Rows \cup {Absent}, all: SUBSET Modules, now: SUBSET Modules,
        queue: Seq(Modules), failed: BOOLEAN, key: Keys \cup {Absent},
        seen: SUBSET Modules, noted: [Modules -> Code]]

\* Where every variable lives.
World ==
  /\ code \in [Modules -> Code]
  /\ rows \subseteq Rows
  /\ cluster \in [Places -> Contents \cup {Absent}]
  /\ installs \in [Ids -> [Modules -> Code]]
  /\ pc \in [Clients -> EndLocs \cup WorkLocs]
  /\ job \in [Clients -> Job]
  /\ asked \in 0 .. MaxAsked /\ outside \in 0 .. MaxOutside

Shapes ==
  World /\ held \subseteq Clients /\ unmoved \subseteq Clients \X Modules
  /\ trusted \subseteq Ids \X Modules /\ sound \subseteq Keys

\* Which operations come to step l, and what they are at there.
OpsOf(l, j) ==
  /\ j.now \subseteq j.all /\ ToSet(j.queue) \subseteq j.all
  /\ l \in WorkLocs /\ l # "clear" => j.row # Absent
  /\ l = "run" => j.op \in Commands \cup {"uninstall"}
  /\ l = "record" => j.op \in Commands
  /\ l \in {"look", "copy", "create", "keep"} => j.op = "make"
  /\ l = "row" => j.op \in {"make", "restore"}
  /\ l = "clear" => j.op = "clear"
  /\ l = "load" => j.op = "restore"
  /\ l \in {"ask", "neutralize"} => j.op \in {"neutralize", "restore"}
  /\ l \in {"states", "hash"} => j.op = "freshness"
  /\ l \in {"dropDb", "forget"} => j.op = "drop"

\* What a command has to do: all of it, or, in a batch that failed, one module at a time.
WorkOf(l, j) ==
  /\ j.op \in Commands => j.all # {}
  /\ j.op = "make" => j.key \in Keys /\ j.key \in [j.all -> Code]
  /\ j.op # "make" => j.key = Absent
  /\ j.failed => j.op = "batch"
  /\ ~j.failed => j.queue = <<>>
  /\ ~j.failed /\ l \in {"run", "record"} => j.now = j.all
  /\ j.op = "make" /\ l = "row" /\ j.now # {} => j.now = j.all
  /\ l \in {"look", "create"} => j.now = j.all
  /\ l = "copy" => j.now = {}

Ops == \A c \in Clients : OpsOf(pc[c], job[c]) /\ WorkOf(pc[c], job[c])

\* Ids are given out once: a row is known by its id, and one that is not there yet is
\* nobody's.
Begetting == {"look", "copy", "create", "load", "row"}

RowIds ==
  /\ \A r \in rows : r.id <= asked
  /\ \A c \in Clients : job[c].row # Absent => job[c].row.id <= asked
  /\ \A r, s \in rows : r.id = s.id => r = s
  /\ \A c \in Clients, r \in rows : job[c].row # Absent /\ job[c].row.id = r.id => job[c].row = r
  /\ \A c \in Clients : pc[c] \in Begetting =>
       /\ \A r \in rows : r.id # job[c].row.id
       /\ \A k \in Clients \ {c} : job[k].row # Absent => job[k].row.id # job[c].row.id

\* An operation nobody interfered with still sees what it saw.
HeldOf(c) ==
  /\ Works(c)
  /\ job[c].op = "make" => \A m \in job[c].all : job[c].key[m] = code[m]
  /\ pc[c] = "record" =>
       /\ There(c)
       /\ \A m \in job[c].now :
            \/ cluster[NameOf(c)].inst[m] = code[m]
            \/ job[c].op \in {"upgrade", "batch"} /\ cluster[NameOf(c)].inst[m] = Absent
  /\ pc[c] = "keep" =>
       There(c) /\ \A m \in job[c].all : cluster[NameOf(c)].inst[m] = code[m]

Held == \A c \in held : HeldOf(c)

\* What a command did to a module that nobody moved since is still so.
Unmoved ==
  \A c \in Clients, m \in Modules :
    <<c, m>> \in unmoved =>
      /\ pc[c] = "record" /\ m \in job[c].now /\ There(c)
      /\ cluster[NameOf(c)].inst[m] \in {code[m], Absent}

\* A sound template holds what its key says.
Templates ==
  \A k \in sound :
    cluster[k] # Absent /\ \A m \in DOMAIN k : cluster[k].inst[m] = k[m]

\* A trusted record is of a database that has that code of the module, or none.
Records ==
  \A t \in trusted :
    /\ installs[t[1]][t[2]] # Absent
    /\ \E r \in rows :
         /\ r.id = t[1] /\ cluster[r.name] # Absent
         /\ cluster[r.name].inst[t[2]] \in {installs[t[1]][t[2]], Absent}

Custody == Shapes /\ Ops /\ RowIds /\ Held /\ Unmoved /\ Templates /\ Records

-------------------------------------------------------------------------------
(* Odoo's commands, and jobs *)

\* Whatever modules a command gets to, it leaves a database.
LEMMA InstalledType ==
  ASSUME Shapes, NEW d \in Contents, NEW M \in SUBSET Modules
  PROVE  /\ Installed(d, M) \in Contents
         /\ \A m \in M : Installed(d, M).inst[m] = code[m]
<1> DEFINE inst == [m \in Modules |->
               IF m \in M \/ (m \in Wanted(M) /\ d.inst[m] = Absent) THEN code[m] ELSE d.inst[m]]
<1>1. inst \in [Modules -> Code] /\ \A m \in M : inst[m] = code[m]
  BY DEF Shapes, World, Contents
<1>2. Installed(d, M) = [d EXCEPT !.odoo = TRUE, !.inst = inst]
  BY DEF Installed
<1> HIDE DEF inst
<1> QED
  BY <1>1, <1>2 DEF Contents

\* An upgrade leaves the named modules at the code on disk, or not there at all.
LEMMA UpgradedType ==
  ASSUME Shapes, NEW d \in Contents, NEW M \in SUBSET Modules
  PROVE  /\ Upgraded(d, M) \in Contents
         /\ \A m \in M : Upgraded(d, M).inst[m] \in {code[m], Absent}
<1> DEFINE inst == [m \in Modules |->
     IF d.inst[m] # Absent /\ (m \in M \/ Needs[m] \cap M # {}) THEN code[m] ELSE d.inst[m]]
<1>1. inst \in [Modules -> Code] /\ \A m \in M : inst[m] \in {code[m], Absent}
  BY DEF Shapes, World, Contents
<1>2. Upgraded(d, M) = [d EXCEPT !.inst = inst]
  BY DEF Upgraded
<1> HIDE DEF inst
<1> QED
  BY <1>1, <1>2 DEF Contents

\* An uninstall leaves a database too.
LEMMA UninstalledType ==
  ASSUME Shapes, NEW d \in Contents, NEW M \in SUBSET Modules
  PROVE  Uninstalled(d, M) \in Contents
<1> DEFINE inst == [m \in Modules |-> IF m \in M \/ Needs[m] \cap M # {} THEN Absent ELSE d.inst[m]]
<1>1. inst \in [Modules -> Code]
  BY DEF Contents, Code
<1>2. Uninstalled(d, M) = [d EXCEPT !.inst = inst]
  BY DEF Uninstalled
<1> HIDE DEF inst
<1> QED
  BY <1>1, <1>2 DEF Contents

\* What any command leaves, in a word.
LEMMA RanType ==
  ASSUME Shapes, NEW d \in Contents, NEW M \in SUBSET Modules,
         NEW op \in Commands \cup {"uninstall"}
  PROVE  /\ Ran(op, d, M) \in Contents
         /\ op # "uninstall" => \A m \in M :
              \/ Ran(op, d, M).inst[m] = code[m]
              \/ op \in {"upgrade", "batch"} /\ Ran(op, d, M).inst[m] = Absent
<1>1. CASE op \in {"install", "make"}
  <2>1. Ran(op, d, M) = Installed(d, M)
    BY <1>1 DEF Ran
  <2> QED
    BY <2>1, InstalledType
<1>2. CASE op \in {"upgrade", "batch"}
  <2>1. Ran(op, d, M) = Upgraded(d, M)
    BY <1>2 DEF Ran
  <2> QED
    BY <1>2, <2>1, UpgradedType
<1>3. CASE op = "uninstall"
  <2>1. Ran(op, d, M) = Uninstalled(d, M)
    BY <1>3 DEF Ran
  <2> QED
    BY <1>3, <2>1, UninstalledType
<1> QED
  BY <1>1, <1>2, <1>3 DEF Commands

\* A database as created, and one that was restored.
LEMMA BareType == Bare \in Contents /\ Restored \in Contents /\ NoModules \in [Modules -> Code]
<1>1. NoModules \in [Modules -> Code]
  BY DEF NoModules, Code
<1>2. Bare \in Contents
  BY <1>1 DEF Bare, Contents
<1>3. Restored \in Contents
  BY <1>2 DEF Restored, Contents
<1> QED
  BY <1>1, <1>2, <1>3

\* The job of an operation that is over.
LEMMA NoJobType ==
  /\ NoJob \in Job
  /\ NoJob.op = "clear" /\ NoJob.row = Absent /\ NoJob.all = {} /\ NoJob.now = {}
  /\ NoJob.queue = <<>> /\ ~NoJob.failed /\ NoJob.key = Absent
<1>1. <<>> \in Seq(Modules)
  OBVIOUS
<1> QED
  BY <1>1, BareType DEF NoJob, Job, OpKinds

\* Moving one operation.
LEMMA WithMoves ==
  ASSUME Shapes, NEW c \in Clients, NEW l \in EndLocs \cup WorkLocs, NEW j \in Job, With(c, l, j)
  PROVE  /\ pc' \in [Clients -> EndLocs \cup WorkLocs] /\ job' \in [Clients -> Job]
         /\ pc'[c] = l /\ job'[c] = j
         /\ \A k \in Clients \ {c} : pc'[k] = pc[k] /\ job'[k] = job[k]
BY DEF Shapes, World, With

\* How an operation ended is no step of it.
LEMMA LocsDiffer == \A l \in EndLocs : l \notin WorkLocs
BY DEF EndLocs, WorkLocs

\* Moving one operation with what it has, or to its end.
LEMMA GotoMoves ==
  ASSUME Shapes, NEW c \in Clients, NEW l \in EndLocs \cup WorkLocs, Goto(c, l)
  PROVE  /\ pc' \in [Clients -> EndLocs \cup WorkLocs] /\ job' \in [Clients -> Job]
         /\ pc'[c] = l /\ job'[c] = (IF l \in WorkLocs THEN job[c] ELSE NoJob)
         /\ \A k \in Clients \ {c} : pc'[k] = pc[k] /\ job'[k] = job[k]
<1> DEFINE j == IF l \in WorkLocs THEN job[c] ELSE NoJob
<1>1. j \in Job
  BY NoJobType DEF Shapes, World
<1>2. With(c, l, j)
  BY DEF Goto
<1> HIDE DEF j
<1>3. /\ pc' \in [Clients -> EndLocs \cup WorkLocs] /\ job' \in [Clients -> Job]
      /\ pc'[c] = l /\ job'[c] = j
      /\ \A k \in Clients \ {c} : pc'[k] = pc[k] /\ job'[k] = job[k]
  BY <1>1, <1>2, WithMoves
<1> QED
  BY <1>3 DEF j

-------------------------------------------------------------------------------
(* The invariant after a step, in terms of what the step may do *)

\* Everybody but the client whose step it is stays where it is.
Alone(c) == \A k \in Clients \ {c} : pc'[k] = pc[k] /\ job'[k] = job[k]

\* Rows come and go with the operations that make and drop them.
RowStep(c) ==
  /\ asked' \in {asked, asked + 1}
  /\ \/ rows' \subseteq rows
     \/ /\ pc[c] = "row" /\ rows' = rows \cup {job[c].row}
        /\ pc'[c] \notin Begetting /\ job'[c].row \in {job[c].row, Absent}
  /\ \/ job'[c].row = Absent /\ pc'[c] \notin Begetting
     \/ job'[c].row = job[c].row /\ (pc'[c] \in Begetting => pc[c] \in Begetting)
     \/ job'[c].row \in rows /\ rows' = rows /\ pc'[c] \notin Begetting
     \/ job'[c].row # Absent /\ job'[c].row.id = asked + 1 /\ asked' = asked + 1 /\ rows' = rows

\* remember_module_contents, and an operation that ends instead of it, touches neither
\* the code nor the databases.
Noting ==
  \A a \in Clients : pc[a] = "record" /\ Acts(a) => UNCHANGED <<code, rows, cluster>>

\* A command comes to its end with its modules as they are on disk, those that were not
\* installed excepted.
Leaves(c) ==
  /\ pc[c] = "run" /\ job'[c].row = job[c].row
  /\ cluster'[NameOf(c)] # Absent
  /\ \A m \in job'[c].now : cluster'[NameOf(c)].inst[m] \in {code'[m], Absent}

\* A row that goes takes its records along.
Forgetting ==
  \/ rows \subseteq rows'
  \/ \E r \in rows : rows' = rows \ {r} /\ installs'[r.id] = NoModules

\* A template is kept under a key that was free, by the operation whose key it is.
Keeping ==
  \A k \in Keys :
    \/ cluster'[k] \in {cluster[k], Absent}
    \/ \E a \in Clients :
         /\ pc[a] = "keep" /\ job[a].key = k /\ cluster[k] = Absent /\ cluster'[k] = cluster[NameOf(a)]
         /\ \A b \in Clients \ {a} : ~Acts(b)

\* A record that is trusted was before, or has just been made.
LEMMA TrustedFrom ==
  ASSUME Custody, Witness, NEW t \in trusted'
  PROVE  \/ \E a \in Clients : /\ pc[a] = "record" /\ Acts(a) /\ Known(a) /\ Remember(a)
                               /\ job[a].row.id = t[1] /\ t[2] \in OnDisk(a)
                               /\ <<a, t[2]>> \in unmoved
         \/ /\ t \in trusted /\ installs'[t[1]] = installs[t[1]]
            /\ \A r \in rows : r.id = t[1] /\ ~Same(r.name) =>
                 /\ cluster'[r.name] # Absent
                 /\ cluster'[r.name].inst[t[2]] = cluster[r.name].inst[t[2]]
BY DEF Witness

\* An operation is held only if it was, and nobody changed the code or its database.
LEMMA HeldFrom ==
  ASSUME Custody, Witness, NEW c \in held'
  PROVE  /\ c \in Clients /\ pc'[c] \in WorkLocs
         /\ Works(c) => /\ c \in held /\ code' = code
                        /\ Acts(c) \/ job[c].row = Absent \/ Same(NameOf(c))
BY DEF Witness

\* What a held operation sees stays, whatever the others do.
LEMMA HeldStays ==
  ASSUME Custody, Witness, NEW k \in held', pc'[k] = pc[k], job'[k] = job[k]
  PROVE  HeldOf(k)'
<1> USE DEF Custody
<1>1. k \in Clients /\ Works(k) /\ pc'[k] \in WorkLocs /\ ~Acts(k)
  BY HeldFrom DEF Works, Acts
<1>2. k \in held /\ code' = code /\ (job[k].row = Absent \/ Same(NameOf(k)))
  BY <1>1, HeldFrom
<1>3. HeldOf(k)
  BY <1>2 DEF Held
<1>4. Works(k)'
  BY <1>1 DEF Works
<1>5. job'[k].op = "make" => \A m \in job'[k].all : job'[k].key[m] = code'[m]
  BY <1>2, <1>3 DEF HeldOf
<1>6. OpsOf(pc[k], job[k])
  BY <1>1 DEF Ops
<1>7. pc[k] \in {"record", "keep"} => cluster'[NameOf(k)] = cluster[NameOf(k)] /\ job[k].row # Absent
  BY <1>1, <1>2, <1>6 DEF Same, OpsOf, Works
<1>8. NameOf(k)' = NameOf(k)
  BY DEF NameOf
<1>9. pc'[k] = "record" =>
       /\ There(k)'
       /\ \A m \in job'[k].now :
            \/ cluster'[NameOf(k)'].inst[m] = code'[m]
            \/ job'[k].op \in {"upgrade", "batch"} /\ cluster'[NameOf(k)'].inst[m] = Absent
  BY <1>2, <1>3, <1>7, <1>8 DEF HeldOf, There
<1>10. pc'[k] = "keep" =>
       There(k)' /\ \A m \in job'[k].all : cluster'[NameOf(k)'].inst[m] = code'[m]
  BY <1>2, <1>3, <1>7, <1>8 DEF HeldOf, There
<1> QED
  BY <1>4, <1>5, <1>9, <1>10 DEF HeldOf

\* Templates are what their keys say: one that is kept by a held operation is.
LEMMA TemplatesStay ==
  ASSUME Custody, Witness, Keeping
  PROVE  Templates'
<1> USE DEF Custody
<1> SUFFICES ASSUME NEW k \in sound'
             PROVE  cluster'[k] # Absent /\ \A m \in DOMAIN k : cluster'[k].inst[m] = k[m]
  BY DEF Templates
<1>1. /\ k \in Keys /\ cluster'[k] # Absent
      /\ k \in sound \/ (~Same(k) /\ \E c \in held : Acts(c) /\ job[c].key = k)
  BY DEF Witness
<1>2. CASE cluster'[k] = cluster[k]
  BY <1>1, <1>2 DEF Templates, Same
<1>3. CASE \E a \in Clients :
         /\ pc[a] = "keep" /\ job[a].key = k /\ cluster[k] = Absent /\ cluster'[k] = cluster[NameOf(a)]
         /\ \A b \in Clients \ {a} : ~Acts(b)
  <2>1. PICK a \in Clients :
         /\ pc[a] = "keep" /\ job[a].key = k /\ cluster[k] = Absent /\ cluster'[k] = cluster[NameOf(a)]
         /\ \A b \in Clients \ {a} : ~Acts(b)
    BY <1>3
  <2>2. k \notin sound
    BY <2>1 DEF Templates
  <2>3. a \in held
    BY <1>1, <2>1, <2>2 DEF Shapes
  <2>4. job[a].op = "make" /\ k \in [job[a].all -> Code]
    BY <2>1 DEF Ops, OpsOf, WorkOf
  <2>5. \A m \in job[a].all : cluster[NameOf(a)].inst[m] = code[m] /\ k[m] = code[m]
    BY <2>1, <2>3, <2>4 DEF Held, HeldOf
  <2>6. DOMAIN k = job[a].all
    BY <2>4
  <2> QED
    BY <1>1, <2>1, <2>5, <2>6
<1> QED
  BY <1>1, <1>2, <1>3 DEF Keeping

\* What was not moved is as it was; a command that just ended left its modules so.
LEMMA UnmovedStay ==
  ASSUME Custody, Witness,
         \A c \in Clients : pc'[c] = "record" =>
           (pc[c] = "record" /\ job'[c].row = job[c].row) \/ Leaves(c)
  PROVE  Unmoved'
<1> SUFFICES ASSUME NEW c \in Clients, NEW m \in Modules, <<c, m>> \in unmoved'
             PROVE  /\ pc'[c] = "record" /\ m \in job'[c].now /\ There(c)'
                    /\ cluster'[NameOf(c)'].inst[m] \in {code'[m], Absent}
  BY DEF Unmoved
<1>1. /\ pc'[c] = "record" /\ m \in job'[c].now
      /\ \/ pc[c] = "run"
         \/ /\ <<c, m>> \in unmoved /\ code'[m] = code[m]
            /\ cluster'[NameOf(c)] # Absent
            /\ cluster'[NameOf(c)].inst[m] = cluster[NameOf(c)].inst[m]
  <2> DEFINE u == <<c, m>>
  <2>1. u[1] = c /\ u[2] = m /\ u \in unmoved'
    OBVIOUS
  <2> HIDE DEF u
  <2>2. /\ pc'[u[1]] = "record" /\ u[2] \in job'[u[1]].now
        /\ \/ pc[u[1]] = "run"
           \/ /\ u \in unmoved /\ code'[u[2]] = code[u[2]]
              /\ cluster'[NameOf(u[1])] # Absent
              /\ cluster'[NameOf(u[1])].inst[u[2]] = cluster[NameOf(u[1])].inst[u[2]]
    BY <2>1 DEF Witness
  <2>3. u = <<c, m>>
    BY DEF u
  <2> QED
    BY <2>1, <2>2, <2>3
<1>2. job'[c].row = job[c].row
  BY <1>1 DEF Leaves
<1>3. NameOf(c)' = NameOf(c)
  BY <1>2 DEF NameOf
<1>4. CASE pc[c] = "run"
  BY <1>1, <1>3, <1>4 DEF Leaves, There
<1>5. CASE pc[c] # "run"
  BY <1>1, <1>3, <1>5 DEF Custody, Unmoved, There
<1> QED
  BY <1>4, <1>5

\* A trusted record stays true: what it is about is on record, and nobody touched it.
LEMMA RecordsStay ==
  ASSUME Custody, Witness, Noting, Forgetting
  PROVE  Records'
<1> USE DEF Custody
<1> SUFFICES ASSUME NEW t \in trusted'
             PROVE  /\ installs'[t[1]][t[2]] # Absent
                    /\ \E r \in rows' :
                         /\ r.id = t[1] /\ cluster'[r.name] # Absent
                         /\ cluster'[r.name].inst[t[2]] \in {installs'[t[1]][t[2]], Absent}
  BY DEF Records
<1>1. CASE \E a \in Clients : /\ pc[a] = "record" /\ Acts(a) /\ Known(a) /\ Remember(a)
                              /\ job[a].row.id = t[1] /\ t[2] \in OnDisk(a)
                              /\ <<a, t[2]>> \in unmoved
  <2>1. PICK a \in Clients : /\ pc[a] = "record" /\ Acts(a) /\ Known(a) /\ Remember(a)
                             /\ job[a].row.id = t[1] /\ t[2] \in OnDisk(a)
                             /\ <<a, t[2]>> \in unmoved
    BY <1>1
  <2>2. rows' = rows /\ cluster' = cluster /\ job[a].row \in rows
    BY <2>1 DEF Noting, Known
  <2>3. code[t[2]] # Absent /\ t[2] \in job[a].now
    BY <2>1 DEF OnDisk
  <2>4. t[1] \in Ids /\ t[2] \in Modules
    BY <2>1, <2>2, <2>3 DEF Shapes, World, Job, Rows
  <2>5. installs'[t[1]][t[2]] = code[t[2]]
    BY <2>1, <2>4 DEF Remember, Shapes, World
  <2>6. /\ cluster[job[a].row.name] # Absent
        /\ cluster[job[a].row.name].inst[t[2]] \in {code[t[2]], Absent}
    BY <2>1, <2>4 DEF Unmoved, There, NameOf
  <2> QED
    BY <2>1, <2>2, <2>3, <2>5, <2>6
<1>2. CASE /\ t \in trusted /\ installs'[t[1]] = installs[t[1]]
           /\ \A r \in rows : r.id = t[1] /\ ~Same(r.name) =>
                 /\ cluster'[r.name] # Absent
                 /\ cluster'[r.name].inst[t[2]] = cluster[r.name].inst[t[2]]
  <2>1. installs'[t[1]][t[2]] # Absent /\ installs[t[1]][t[2]] # Absent
    BY <1>2 DEF Records
  <2>2. PICK r \in rows : /\ r.id = t[1] /\ cluster[r.name] # Absent
                          /\ cluster[r.name].inst[t[2]] \in {installs[t[1]][t[2]], Absent}
    BY <1>2 DEF Records
  <2>3. r \in rows'
    <3>1. ASSUME NEW s \in rows, rows' = rows \ {s}, installs'[s.id] = NoModules, r = s
          PROVE  FALSE
      <4>1. installs'[t[1]] = NoModules /\ t[2] \in Modules
        BY <1>2, <2>2, <3>1 DEF Shapes
      <4> QED
        BY <2>1, <4>1 DEF NoModules
    <3> QED
      BY <3>1 DEF Forgetting
  <2>4. /\ cluster'[r.name] # Absent
        /\ cluster'[r.name].inst[t[2]] \in {installs'[t[1]][t[2]], Absent}
    BY <1>2, <2>2 DEF Same
  <2> QED
    BY <2>1, <2>2, <2>3, <2>4
<1> QED
  BY <1>1, <1>2, TrustedFrom

\* Ids stay unique: a row is inserted once, by the operation its id was given to.
LEMMA RowIdsStay ==
  ASSUME Custody, NEW c \in Clients, World', Alone(c), RowStep(c)
  PROVE  RowIds'
<1> USE DEF Custody
<1>1. asked \in Nat /\ asked' \in Nat /\ asked <= asked'
  BY DEF Shapes, World, RowStep
<1>2. \A k \in Clients : job[k].row = Absent \/ job[k].row \in Rows
  BY DEF Shapes, World, Job
<1>3. \A k \in Clients : job'[k].row = Absent \/ job'[k].row \in Rows
  BY DEF World, Job
<1>4. \A r \in Rows : r.id \in Nat
  BY DEF Rows, Ids
<1>5. rows \subseteq Rows /\ rows' \subseteq Rows
  BY DEF Shapes, World
<1>6. \A k \in Clients : pc[k] \in Begetting => job[k].row # Absent
  BY DEF Ops, OpsOf, Begetting, WorkLocs
<1>7. \A r \in rows' : r \in rows \/ (pc[c] = "row" /\ r = job[c].row /\ rows' = rows \cup {job[c].row}
                                       /\ pc'[c] \notin Begetting /\ job'[c].row \in {job[c].row, Absent})
  BY DEF RowStep
<1>8. \A r \in rows' : r.id <= asked'
  <2> SUFFICES ASSUME NEW r \in rows' PROVE r.id <= asked'
    OBVIOUS
  <2>1. r.id <= asked
    BY <1>6, <1>7 DEF RowIds, Begetting
  <2> QED
    BY <1>1, <1>4, <1>5, <2>1
<1>9. \A k \in Clients : job'[k].row # Absent => job'[k].row.id <= asked'
  <2> SUFFICES ASSUME NEW k \in Clients, job'[k].row # Absent PROVE job'[k].row.id <= asked'
    OBVIOUS
  <2>1. CASE k # c
    <3>1. job[k].row.id <= asked /\ job'[k].row = job[k].row
      BY <2>1 DEF Alone, RowIds
    <3> QED
      BY <1>1, <1>3, <1>4, <3>1
  <2>2. CASE k = c
    <3>1. job'[c].row.id <= asked \/ job'[c].row.id = asked'
      BY <2>2 DEF RowStep, RowIds
    <3> QED
      BY <1>1, <1>3, <1>4, <2>2, <3>1
  <2> QED
    BY <2>1, <2>2
<1>10. \A r, s \in rows' : r.id = s.id => r = s
  BY <1>7 DEF RowIds, Begetting
<1>11. \A k \in Clients, r \in rows' : job'[k].row # Absent /\ job'[k].row.id = r.id => job'[k].row = r
  <2> SUFFICES ASSUME NEW k \in Clients, NEW r \in rows', job'[k].row # Absent, job'[k].row.id = r.id
               PROVE  job'[k].row = r
    OBVIOUS
  <2>1. CASE k # c
    <3>1. job'[k].row = job[k].row
      BY <2>1 DEF Alone
    <3>2. CASE r \in rows
      BY <3>1, <3>2 DEF RowIds
    <3>3. CASE pc[c] = "row" /\ r = job[c].row
      BY <2>1, <3>1, <3>3 DEF RowIds, Begetting
    <3> QED
      BY <1>7, <3>2, <3>3
  <2>2. CASE k = c
    <3>1. CASE r \in rows
      <4>1. CASE job'[c].row = job[c].row
        BY <2>2, <3>1, <4>1 DEF RowIds
      <4>2. CASE job'[c].row \in rows
        BY <2>2, <3>1, <4>2 DEF RowIds
      <4>3. CASE job'[c].row.id = asked + 1
        <5>1. r.id <= asked /\ r.id \in Nat
          BY <1>4, <1>5, <3>1 DEF RowIds
        <5> QED
          BY <1>1, <2>2, <4>3, <5>1
      <4> QED
        BY <2>2, <4>1, <4>2, <4>3 DEF RowStep
    <3>2. CASE r \notin rows
      BY <1>7, <2>2, <3>2
    <3> QED
      BY <3>1, <3>2
  <2> QED
    BY <2>1, <2>2
<1>12. ASSUME NEW k \in Clients, pc'[k] \in Begetting
       PROVE  /\ \A r \in rows' : r.id # job'[k].row.id
              /\ \A b \in Clients \ {k} : job'[b].row # Absent => job'[b].row.id # job'[k].row.id
  <2>1. CASE k # c
    <3>1. pc[k] \in Begetting /\ job'[k].row = job[k].row /\ job[k].row # Absent
      BY <1>6, <1>12, <2>1 DEF Alone
    <3>2. \A r \in rows' : r.id # job[k].row.id
      BY <1>6, <1>7, <2>1, <3>1 DEF RowIds, Begetting
    <3>3. \A b \in Clients \ {k, c} : job'[b].row # Absent => job'[b].row.id # job[k].row.id
      BY <3>1 DEF Alone, RowIds
    <3>4. job'[c].row # Absent => job'[c].row.id # job[k].row.id
      <4>1. job[k].row.id <= asked /\ job[k].row.id \in Nat
        BY <1>2, <1>4, <3>1 DEF RowIds
      <4>2. job'[c].row = job[c].row /\ job[c].row # Absent => job'[c].row.id # job[k].row.id
        BY <2>1, <3>1 DEF RowIds
      <4>3. job'[c].row \in rows => job'[c].row.id # job[k].row.id
        BY <3>1 DEF RowIds
      <4>4. job'[c].row.id = asked + 1 => job'[c].row.id # job[k].row.id
        BY <1>1, <4>1
      <4> QED
        BY <4>2, <4>3, <4>4 DEF RowStep
    <3> QED
      BY <2>1, <3>1, <3>2, <3>3, <3>4
  <2>2. CASE k = c
    <3>1. CASE job'[c].row = job[c].row /\ pc[c] \in Begetting
      <4>1. rows' \subseteq rows
        BY <1>12, <2>2 DEF RowStep
      <4> QED
        BY <1>6, <2>2, <3>1, <4>1 DEF RowIds, Alone
    <3>2. CASE job'[c].row.id = asked + 1 /\ rows' = rows
      <4>1. \A r \in rows : r.id <= asked /\ r.id \in Nat
        BY <1>4, <1>5 DEF RowIds
      <4>2. \A b \in Clients : job[b].row # Absent => job[b].row.id <= asked /\ job[b].row.id \in Nat
        BY <1>2, <1>4 DEF RowIds
      <4> QED
        BY <1>1, <2>2, <3>2, <4>1, <4>2 DEF Alone
    <3> QED
      BY <1>12, <2>2, <3>1, <3>2 DEF RowStep
  <2> QED
    BY <2>1, <2>2
<1> QED
  BY <1>8, <1>9, <1>10, <1>11, <1>12 DEF RowIds

\* What every step of a client amounts to.
Good(c) ==
  /\ World' /\ Alone(c)
  /\ OpsOf(pc'[c], job'[c]) /\ WorkOf(pc'[c], job'[c])
  /\ RowStep(c)
  /\ Noting /\ Forgetting /\ Keeping
  /\ c \in held' => HeldOf(c)'
  /\ pc'[c] = "record" => Leaves(c)

\* Such a step keeps the invariant.
LEMMA StepCustody ==
  ASSUME Custody, Witness, NEW c \in Clients, Good(c)
  PROVE  Custody'
<1>1. Shapes'
  BY DEF Good, Shapes, Witness
<1>2. Ops'
  BY DEF Good, Alone, Ops, Custody
<1>3. RowIds'
  BY RowIdsStay DEF Good
<1>4. Held'
  <2> SUFFICES ASSUME NEW k \in held' PROVE HeldOf(k)'
    BY DEF Held
  <2>1. CASE k = c
    BY <2>1 DEF Good
  <2>2. CASE k # c
    BY <2>2, HeldFrom, HeldStays DEF Good, Alone
  <2> QED
    BY <2>1, <2>2
<1>5. Templates' /\ Records'
  BY TemplatesStay, RecordsStay DEF Good
<1>6. Unmoved'
  BY UnmovedStay DEF Good, Alone
<1> QED
  BY <1>1, <1>2, <1>3, <1>4, <1>5, <1>6 DEF Custody

-------------------------------------------------------------------------------
(* What steps have in common *)

\* What the step c is at promises of its job.
LEMMA JobOf ==
  ASSUME Custody, NEW c \in Clients
  PROVE  /\ job[c] \in Job /\ OpsOf(pc[c], job[c]) /\ WorkOf(pc[c], job[c])
         /\ job[c].row # Absent => job[c].row \in Rows /\ NameOf(c) \in Names /\ NameOf(c) \in Places
BY DEF Custody, Shapes, World, Ops, Job, NameOf, Rows, Places

\* Nothing is in a queue without entries.
LEMMA EmptyQueue == ToSet(<<>>) = {}
BY DEF ToSet

\* Of an operation that is over nothing is promised.
LEMMA EndOps == ASSUME NEW l \in EndLocs PROVE OpsOf(l, NoJob) /\ WorkOf(l, NoJob)
<1>1. l \notin WorkLocs
  BY LocsDiffer
<1>2. l \notin {"run", "record", "look", "copy", "create", "keep", "row", "clear", "load", "ask",
                "neutralize", "states", "hash", "dropDb", "forget"}
  BY DEF EndLocs
<1> QED
  BY <1>1, <1>2, NoJobType, EmptyQueue DEF OpsOf, WorkOf, Commands

\* Only an operation that is to record is in question.
LEMMA NotesNothing ==
  ASSUME NEW c \in Clients, Alone(c), pc[c] = "record" => UNCHANGED <<code, rows, cluster>>
  PROVE  Noting
BY DEF Alone, Noting, Acts

\* One database becomes another.
LEMMA BecomesMoves ==
  ASSUME Custody, NEW n \in Places, NEW d \in Contents \cup {Absent}, Becomes(n, d)
  PROVE  /\ cluster' \in [Places -> Contents \cup {Absent}]
         /\ cluster'[n] = d
         /\ \A p \in Places : p # n => cluster'[p] = cluster[p]
BY DEF Custody, Shapes, World, Becomes

\* A database that is listed or asked for is no template.
LEMMA NamesKeep ==
  ASSUME Custody, NEW n \in Names, NEW d \in Contents \cup {Absent}, Becomes(n, d)
  PROVE  Keeping /\ cluster' \in [Places -> Contents \cup {Absent}] /\ cluster'[n] = d
<1>1. \A k \in Keys : k # n /\ k \in Places
  BY ConstantsAssumption DEF Places
<1>2. n \in Places
  BY DEF Places
<1> QED
  BY <1>1, <1>2, BecomesMoves DEF Keeping

\* A step that leaves the databases alone keeps no template.
LEMMA SameKeeps == ASSUME cluster' = cluster PROVE Keeping
BY DEF Keeping

\* An operation that ends.
LEMMA EndGood ==
  ASSUME Custody, Witness, NEW c \in Clients, Works(c), NEW l \in EndLocs, Goto(c, l),
         code' = code, asked' = asked, outside' = outside,
         rows' \subseteq rows, cluster' \in [Places -> Contents \cup {Absent}],
         installs' \in [Ids -> [Modules -> Code]],
         pc[c] = "record" => UNCHANGED <<rows, cluster>>,
         Forgetting, Keeping
  PROVE  Good(c)
<1> USE DEF Custody
<1>1. l \notin WorkLocs
  BY LocsDiffer
<1>2. /\ pc' \in [Clients -> EndLocs \cup WorkLocs] /\ job' \in [Clients -> Job]
      /\ pc'[c] = l /\ job'[c] = NoJob
      /\ \A k \in Clients \ {c} : pc'[k] = pc[k] /\ job'[k] = job[k]
  BY <1>1, GotoMoves
<1>3. World' /\ Alone(c)
  BY <1>2 DEF World, Alone, Shapes
<1>4. OpsOf(pc'[c], job'[c]) /\ WorkOf(pc'[c], job'[c])
  BY <1>2, EndOps
<1>5. RowStep(c)
  <2>1. l \notin Begetting
    BY <1>1 DEF Begetting, WorkLocs
  <2> QED
    BY <1>2, <2>1, NoJobType DEF RowStep
<1>6. Noting
  BY <1>2, <1>3, NotesNothing
<1>7. c \notin held'
  BY <1>1, <1>2, HeldFrom
<1>8. pc'[c] # "record"
  BY <1>1, <1>2 DEF WorkLocs
<1> QED
  BY <1>3, <1>4, <1>5, <1>6, <1>7, <1>8 DEF Good

\* An operation that goes on.
LEMMA GoOnGood ==
  ASSUME Custody, Witness, NEW c \in Clients, Works(c), NEW l \in WorkLocs, NEW j \in Job, With(c, l, j),
         j.row = job[c].row, l \in Begetting => pc[c] \in Begetting,
         OpsOf(l, j), WorkOf(l, j),
         code' = code, asked' = asked, outside' = outside,
         rows' \subseteq rows, cluster' \in [Places -> Contents \cup {Absent}],
         installs' \in [Ids -> [Modules -> Code]],
         pc[c] = "record" => UNCHANGED <<rows, cluster>>,
         l = "record" => pc[c] = "run" /\ cluster'[NameOf(c)] # Absent
                         /\ \A m \in j.now : cluster'[NameOf(c)].inst[m] \in {code[m], Absent},
         Forgetting, Keeping,
         c \in held' => HeldOf(c)'
  PROVE  Good(c)
<1> USE DEF Custody
<1>1. /\ pc' \in [Clients -> EndLocs \cup WorkLocs] /\ job' \in [Clients -> Job]
      /\ pc'[c] = l /\ job'[c] = j
      /\ \A k \in Clients \ {c} : pc'[k] = pc[k] /\ job'[k] = job[k]
  BY WithMoves
<1>2. World' /\ Alone(c)
  BY <1>1 DEF World, Alone, Shapes
<1>3. RowStep(c)
  BY <1>1 DEF RowStep
<1>4. Noting
  BY <1>2, NotesNothing
<1>5. pc'[c] = "record" => Leaves(c)
  BY <1>1 DEF Leaves
<1> QED
  BY <1>1, <1>2, <1>3, <1>4, <1>5 DEF Good

\* One that begins.
LEMMA BeginGood ==
  ASSUME Custody, Witness, NEW c \in Clients, NEW l \in WorkLocs \ {"record"}, NEW j \in Job, Begin(c, l, j),
         OpsOf(l, j), WorkOf(l, j),
         \/ (j.row = Absent \/ j.row \in rows) /\ l \notin Begetting
         \/ j.row # Absent /\ j.row.id = asked + 1,
         c \in held' => HeldOf(c)'
  PROVE  Good(c)
<1> USE DEF Custody
<1>1. /\ ~Works(c) /\ asked < MaxAsked /\ asked' = asked + 1 /\ With(c, l, j)
      /\ UNCHANGED <<code, rows, cluster, installs, outside>>
  BY DEF Begin
<1>2. /\ pc' \in [Clients -> EndLocs \cup WorkLocs] /\ job' \in [Clients -> Job]
      /\ pc'[c] = l /\ job'[c] = j
      /\ \A k \in Clients \ {c} : pc'[k] = pc[k] /\ job'[k] = job[k]
  BY <1>1, WithMoves
<1>3. World' /\ Alone(c)
  <2>1. asked' \in 0 .. MaxAsked
    BY <1>1, ConstantsAssumption DEF Shapes, World
  <2> QED
    BY <1>1, <1>2, <2>1 DEF World, Alone, Shapes
<1>4. RowStep(c)
  BY <1>1, <1>2 DEF RowStep
<1>5. Noting
  <2>1. pc[c] # "record"
    BY <1>1 DEF Works, WorkLocs
  <2> QED
    BY <1>3, <2>1, NotesNothing
<1>6. Forgetting /\ Keeping
  BY <1>1, SameKeeps DEF Forgetting
<1> QED
  BY <1>2, <1>3, <1>4, <1>5, <1>6 DEF Good

\* What a held operation that acts had seen by then.
LEMMA HeldActs ==
  ASSUME Custody, Witness, NEW c \in Clients, Works(c), c \in held',
         job'[c].op = job[c].op, job'[c].all = job[c].all, job'[c].key = job[c].key
  PROVE  /\ c \in held /\ HeldOf(c) /\ code' = code
         /\ Works(c)'
         /\ job'[c].op = "make" => \A m \in job'[c].all : job'[c].key[m] = code'[m]
<1> USE DEF Custody
<1>1. c \in held /\ code' = code /\ pc'[c] \in WorkLocs
  BY HeldFrom
<1>2. HeldOf(c)
  BY <1>1 DEF Held
<1> QED
  BY <1>1, <1>2 DEF HeldOf, Works

\* On its way to a step that nothing is known of, it has seen enough.
LEMMA HeldGoesOn ==
  ASSUME Custody, Witness, NEW c \in Clients, Works(c), c \in held',
         job'[c].op = job[c].op, job'[c].all = job[c].all, job'[c].key = job[c].key,
         pc'[c] \notin {"record", "keep"}
  PROVE  HeldOf(c)'
BY HeldActs DEF HeldOf

-------------------------------------------------------------------------------
(* The steps that begin an operation *)

\* What is asked for is something.
LEMMA Asks ==
  ASSUME NEW M \in Requests \cup Starters
  PROVE  M \in SUBSET Modules /\ M # {}
<1>1. M \in (SUBSET Modules) \ {{}}
  BY ConstantsAssumption
<1>2. M \in SUBSET Modules
  BY <1>1
<1>3. M \notin {{}}
  BY <1>1
<1>4. M # {}
  BY <1>3
<1> QED
  BY <1>2, <1>4

\* An install, an upgrade, a batch or an uninstall is asked for.
LEMMA BeginRunGood ==
  ASSUME Custody, Witness, NEW c \in Clients, BeginRun(c)
  PROVE  Good(c)
<1>1. PICK op \in {"install", "upgrade", "batch", "uninstall"}, r \in rows, M \in Requests :
        Begin(c, "run", [NoJob EXCEPT !.op = op, !.row = r, !.all = M, !.now = M])
  BY DEF BeginRun
<1> DEFINE j == [NoJob EXCEPT !.op = op, !.row = r, !.all = M, !.now = M]
<1>2. M \in SUBSET Modules /\ M # {} /\ r \in Rows /\ r # Absent
  BY Asks, ConstantsAssumption DEF Custody, Shapes, World
<1>3. /\ j \in Job /\ j.op = op /\ j.row = r /\ j.all = M /\ j.now = M
      /\ j.queue = <<>> /\ ~j.failed /\ j.key = Absent
  BY <1>2, NoJobType DEF Job, OpKinds
<1> HIDE DEF j
<1>4. OpsOf("run", j) /\ WorkOf("run", j)
  BY <1>2, <1>3, EmptyQueue DEF OpsOf, WorkOf, Commands
<1>5. "run" \in WorkLocs /\ "run" \notin Begetting /\ Begin(c, "run", j)
  BY <1>1 DEF WorkLocs, Begetting, j
<1>6. pc'[c] = "run" /\ job'[c] = j
  BY <1>3, <1>5, WithMoves DEF Begin, Custody
<1>7. HeldOf(c)'
  BY <1>3, <1>6 DEF HeldOf, Works, WorkLocs
<1> QED
  BY <1>3, <1>4, <1>5, <1>7, BeginGood

\* The id an operation's row will have is new.
LEMMA FreshRow ==
  ASSUME Custody, NEW n \in Names, asked < MaxAsked
  PROVE  Fresh(n) \in Rows /\ Fresh(n) # Absent /\ Fresh(n).id = asked + 1
<1>1. asked + 1 \in Ids
  BY ConstantsAssumption DEF Custody, Shapes, World, Ids
<1>2. Fresh(n) \in Rows /\ Fresh(n).id = asked + 1
  BY <1>1 DEF Fresh, Rows
<1> QED
  BY <1>2, ConstantsAssumption

\* A new database with modules is asked for: the key is taken now.
LEMMA BeginMakeGood ==
  ASSUME Custody, Witness, NEW c \in Clients, BeginMake(c)
  PROVE  Good(c)
<1>1. PICK n \in Names, M \in Starters :
        Begin(c, "look", [NoJob EXCEPT !.op = "make", !.row = Fresh(n), !.all = M, !.now = M,
                            !.key = [m \in M |-> code[m]]])
  BY DEF BeginMake
<1> DEFINE key == [m \in M |-> code[m]]
<1>2. M \in SUBSET Modules /\ M # {}
  BY Asks
<1>3. key \in [M -> Code] /\ key \in Keys /\ \A m \in M : key[m] = code[m]
  BY <1>2 DEF Custody, Shapes, World, Keys
<1> HIDE DEF key
<1> DEFINE j == [NoJob EXCEPT !.op = "make", !.row = Fresh(n), !.all = M, !.now = M, !.key = key]
<1>4. Begin(c, "look", j)
  BY <1>1 DEF key
<1>5. Fresh(n) \in Rows /\ Fresh(n) # Absent /\ Fresh(n).id = asked + 1
  BY <1>4, FreshRow DEF Begin
<1>6. /\ j \in Job /\ j.op = "make" /\ j.row = Fresh(n) /\ j.all = M /\ j.now = M
      /\ j.queue = <<>> /\ ~j.failed /\ j.key = key
  BY <1>2, <1>3, <1>5, NoJobType DEF Job, OpKinds
<1> HIDE DEF j
<1>7. OpsOf("look", j) /\ WorkOf("look", j)
  BY <1>2, <1>3, <1>5, <1>6, EmptyQueue DEF OpsOf, WorkOf, Commands
<1>8. "look" \in WorkLocs
  BY DEF WorkLocs
<1>9. pc'[c] = "look" /\ job'[c] = j /\ code' = code
  BY <1>4, <1>6, <1>8, WithMoves DEF Begin, Custody
<1>10. HeldOf(c)'
  BY <1>3, <1>6, <1>9 DEF HeldOf, Works, WorkLocs
<1> QED
  BY <1>4, <1>5, <1>6, <1>7, <1>8, <1>10, BeginGood

\* A restore is asked for,
LEMMA BeginRestoreGood ==
  ASSUME Custody, Witness, NEW c \in Clients, BeginRestore(c)
  PROVE  Good(c)
<1>1. PICK n \in Names : Begin(c, "load", [NoJob EXCEPT !.op = "restore", !.row = Fresh(n)])
  BY DEF BeginRestore
<1> DEFINE j == [NoJob EXCEPT !.op = "restore", !.row = Fresh(n)]
<1>2. Fresh(n) \in Rows /\ Fresh(n) # Absent /\ Fresh(n).id = asked + 1
  BY <1>1, FreshRow DEF Begin
<1>3. /\ j \in Job /\ j.op = "restore" /\ j.row = Fresh(n) /\ j.all = {} /\ j.now = {}
      /\ j.queue = <<>> /\ ~j.failed /\ j.key = Absent
  BY <1>2, NoJobType DEF Job, OpKinds
<1> HIDE DEF j
<1>4. OpsOf("load", j) /\ WorkOf("load", j)
  BY <1>2, <1>3, EmptyQueue DEF OpsOf, WorkOf, Commands
<1>5. "load" \in WorkLocs /\ Begin(c, "load", j)
  BY <1>1 DEF WorkLocs, j
<1>6. pc'[c] = "load" /\ job'[c] = j
  BY <1>3, <1>5, WithMoves DEF Begin, Custody
<1>7. HeldOf(c)'
  BY <1>3, <1>6 DEF HeldOf, Works, WorkLocs
<1> QED
  BY <1>2, <1>3, <1>4, <1>5, <1>7, BeginGood

\* a neutralization of a database that is listed,
LEMMA BeginNeutralizeGood ==
  ASSUME Custody, Witness, NEW c \in Clients, BeginNeutralize(c)
  PROVE  Good(c)
<1>1. PICK r \in rows : Begin(c, "ask", [NoJob EXCEPT !.op = "neutralize", !.row = r])
  BY DEF BeginNeutralize
<1> DEFINE j == [NoJob EXCEPT !.op = "neutralize", !.row = r]
<1>2. r \in Rows /\ r # Absent
  BY ConstantsAssumption DEF Custody, Shapes, World
<1>3. /\ j \in Job /\ j.op = "neutralize" /\ j.row = r /\ j.all = {} /\ j.now = {}
      /\ j.queue = <<>> /\ ~j.failed /\ j.key = Absent
  BY <1>2, NoJobType DEF Job, OpKinds
<1> HIDE DEF j
<1>4. OpsOf("ask", j) /\ WorkOf("ask", j)
  BY <1>2, <1>3, EmptyQueue DEF OpsOf, WorkOf, Commands
<1>5. "ask" \in WorkLocs /\ "ask" \notin Begetting /\ Begin(c, "ask", j)
  BY <1>1 DEF WorkLocs, Begetting, j
<1>6. pc'[c] = "ask" /\ job'[c] = j
  BY <1>3, <1>5, WithMoves DEF Begin, Custody
<1>7. HeldOf(c)'
  BY <1>3, <1>6 DEF HeldOf, Works, WorkLocs
<1> QED
  BY <1>3, <1>4, <1>5, <1>7, BeginGood

\* the end of one,
LEMMA BeginDropGood ==
  ASSUME Custody, Witness, NEW c \in Clients, BeginDrop(c)
  PROVE  Good(c)
<1>1. PICK r \in rows : Begin(c, "dropDb", [NoJob EXCEPT !.op = "drop", !.row = r])
  BY DEF BeginDrop
<1> DEFINE j == [NoJob EXCEPT !.op = "drop", !.row = r]
<1>2. r \in Rows /\ r # Absent
  BY ConstantsAssumption DEF Custody, Shapes, World
<1>3. /\ j \in Job /\ j.op = "drop" /\ j.row = r /\ j.all = {} /\ j.now = {}
      /\ j.queue = <<>> /\ ~j.failed /\ j.key = Absent
  BY <1>2, NoJobType DEF Job, OpKinds
<1> HIDE DEF j
<1>4. OpsOf("dropDb", j) /\ WorkOf("dropDb", j)
  BY <1>2, <1>3, EmptyQueue DEF OpsOf, WorkOf, Commands
<1>5. "dropDb" \in WorkLocs /\ "dropDb" \notin Begetting /\ Begin(c, "dropDb", j)
  BY <1>1 DEF WorkLocs, Begetting, j
<1>6. pc'[c] = "dropDb" /\ job'[c] = j
  BY <1>3, <1>5, WithMoves DEF Begin, Custody
<1>7. HeldOf(c)'
  BY <1>3, <1>6 DEF HeldOf, Works, WorkLocs
<1> QED
  BY <1>3, <1>4, <1>5, <1>7, BeginGood

\* an empty template cache,
LEMMA BeginClearGood ==
  ASSUME Custody, Witness, NEW c \in Clients, BeginClear(c)
  PROVE  Good(c)
<1>1. "clear" \in WorkLocs /\ "clear" \notin Begetting /\ Begin(c, "clear", NoJob)
  BY DEF WorkLocs, Begetting, BeginClear
<1>2. OpsOf("clear", NoJob) /\ WorkOf("clear", NoJob)
  BY NoJobType, EmptyQueue DEF OpsOf, WorkOf, Commands
<1>3. pc'[c] = "clear" /\ job'[c] = NoJob
  BY <1>1, NoJobType, WithMoves DEF Begin, Custody
<1>4. HeldOf(c)'
  BY <1>3, NoJobType DEF HeldOf, Works, WorkLocs
<1> QED
  BY <1>1, <1>2, <1>4, NoJobType, BeginGood

\* and what is live: which modules there are, and what is noted of them, is read now.
LEMMA BeginFreshnessGood ==
  ASSUME Custody, Witness, NEW c \in Clients, BeginFreshness(c)
  PROVE  Good(c)
<1> DEFINE there == {m \in Modules : code[m] # Absent}
<1>1. PICK r \in rows :
        Begin(c, "states", [NoJob EXCEPT !.op = "freshness", !.row = r, !.seen = there,
                              !.noted = installs[r.id]])
  BY DEF BeginFreshness
<1> DEFINE j == [NoJob EXCEPT !.op = "freshness", !.row = r, !.seen = there, !.noted = installs[r.id]]
<1>2. /\ r \in Rows /\ r # Absent /\ r.id \in Ids
      /\ there \in SUBSET Modules /\ installs[r.id] \in [Modules -> Code]
  BY ConstantsAssumption DEF Custody, Shapes, World, Rows
<1> HIDE DEF there
<1>3. /\ j \in Job /\ j.op = "freshness" /\ j.row = r /\ j.all = {} /\ j.now = {}
      /\ j.queue = <<>> /\ ~j.failed /\ j.key = Absent
  BY <1>2, NoJobType DEF Job, OpKinds
<1> HIDE DEF j
<1>4. OpsOf("states", j) /\ WorkOf("states", j)
  BY <1>2, <1>3, EmptyQueue DEF OpsOf, WorkOf, Commands
<1>5. "states" \in WorkLocs \ {"record"} /\ "states" \notin Begetting /\ Begin(c, "states", j)
  BY <1>1 DEF WorkLocs, Begetting, j
<1>6. pc'[c] = "states" /\ job'[c] = j
  BY <1>3, <1>5, WithMoves DEF Begin, Custody
<1>7. HeldOf(c)'
  BY <1>3, <1>6 DEF HeldOf, Works, WorkLocs
<1> QED
  BY <1>3, <1>4, <1>5, <1>7, BeginGood

-------------------------------------------------------------------------------
(* The commands and what follows them *)

\* The database an operation is at, as it is.
LEMMA ThereType ==
  ASSUME Custody, NEW c \in Clients, job[c].row # Absent, There(c)
  PROVE  cluster[NameOf(c)] \in Contents
BY JobOf DEF Custody, Shapes, World, There

\* What a command leaves of it.
LEMMA CommandLeaves ==
  ASSUME Custody, NEW c \in Clients, job[c].row # Absent, There(c), NEW M \in SUBSET job[c].now,
         job[c].op \in Commands \cup {"uninstall"},
         Becomes(NameOf(c), Ran(job[c].op, cluster[NameOf(c)], M))
  PROVE  /\ Keeping /\ cluster' \in [Places -> Contents \cup {Absent}]
         /\ cluster'[NameOf(c)] # Absent
         /\ job[c].op # "uninstall" => \A m \in M :
              \/ cluster'[NameOf(c)].inst[m] = code[m]
              \/ job[c].op \in {"upgrade", "batch"} /\ cluster'[NameOf(c)].inst[m] = Absent
<1> DEFINE d == Ran(job[c].op, cluster[NameOf(c)], M)
<1>1. cluster[NameOf(c)] \in Contents
  BY ThereType
<1>2. M \in SUBSET Modules
  BY JobOf DEF Job
<1>3. /\ d \in Contents
      /\ job[c].op # "uninstall" => \A m \in M :
              \/ d.inst[m] = code[m]
              \/ job[c].op \in {"upgrade", "batch"} /\ d.inst[m] = Absent
  BY <1>1, <1>2, RanType DEF Custody
<1> HIDE DEF d
<1>4. Becomes(NameOf(c), d)
  BY DEF d
<1>5. Keeping /\ cluster' \in [Places -> Contents \cup {Absent}] /\ cluster'[NameOf(c)] = d
  BY <1>3, <1>4, JobOf, NamesKeep
<1>6. d # Absent
  BY <1>3, ConstantsAssumption
<1> QED
  BY <1>3, <1>5, <1>6

\* run_module_flag_command: its modules are there as they are on disk.
LEMMA RunGood ==
  ASSUME Custody, Witness, NEW c \in Clients, Run(c)
  PROVE  Good(c)
<1>1. /\ pc[c] = "run" /\ job[c].op # "uninstall" /\ There(c) /\ Goto(c, "record")
      /\ Becomes(NameOf(c), Ran(job[c].op, cluster[NameOf(c)], job[c].now))
      /\ UNCHANGED <<code, rows, installs, asked, outside>>
  BY DEF Run
<1>2. /\ Works(c) /\ "record" \in WorkLocs /\ "record" \notin Begetting /\ pc[c] # "record"
      /\ With(c, "record", job[c])
  BY <1>1 DEF Works, WorkLocs, Begetting, Goto
<1>3. job[c] \in Job /\ job[c].row # Absent /\ job[c].op \in Commands
  BY <1>1, <1>2, JobOf DEF OpsOf, Works
<1>4. /\ Keeping /\ cluster' \in [Places -> Contents \cup {Absent}]
      /\ cluster'[NameOf(c)] # Absent
      /\ \A m \in job[c].now :
              \/ cluster'[NameOf(c)].inst[m] = code[m]
              \/ job[c].op \in {"upgrade", "batch"} /\ cluster'[NameOf(c)].inst[m] = Absent
  BY <1>1, <1>3, CommandLeaves
<1>5. OpsOf("record", job[c]) /\ WorkOf("record", job[c])
  BY <1>1, <1>3, JobOf DEF OpsOf, WorkOf
<1>6. pc'[c] = "record" /\ job'[c] = job[c]
  BY <1>2, <1>3, WithMoves DEF Custody
<1>7. ASSUME c \in held' PROVE HeldOf(c)'
  <2>1. Works(c)' /\ code' = code /\ (job'[c].op = "make" => \A m \in job'[c].all : job'[c].key[m] = code'[m])
    BY <1>2, <1>6, <1>7, HeldActs
  <2>2. There(c)' /\ NameOf(c)' = NameOf(c)
    BY <1>4, <1>6 DEF There, NameOf
  <2> QED
    BY <1>4, <1>6, <2>1, <2>2 DEF HeldOf
<1>8. Forgetting /\ installs' \in [Ids -> [Modules -> Code]] /\ rows' \subseteq rows
  BY <1>1 DEF Forgetting, Custody, Shapes, World
<1> QED
  BY <1>1, <1>2, <1>3, <1>4, <1>5, <1>7, <1>8, GoOnGood

\* uninstall_modules: whatever it leaves, it ends there.
LEMMA UninstallGood ==
  ASSUME Custody, Witness, NEW c \in Clients, Uninstall(c)
  PROVE  Good(c)
<1>1. /\ pc[c] = "run" /\ There(c) /\ Goto(c, "ok") /\ job[c].op = "uninstall"
      /\ Becomes(NameOf(c), Ran(job[c].op, cluster[NameOf(c)], job[c].now))
      /\ UNCHANGED <<code, rows, installs, asked, outside>>
  BY DEF Uninstall
<1>2. Works(c) /\ "ok" \in EndLocs /\ pc[c] # "record"
  BY <1>1 DEF Works, WorkLocs, EndLocs
<1>3. job[c].row # Absent
  BY <1>1, <1>2, JobOf DEF OpsOf, Works
<1>4. Keeping /\ cluster' \in [Places -> Contents \cup {Absent}]
  BY <1>1, <1>3, CommandLeaves
<1>5. Forgetting /\ installs' \in [Ids -> [Modules -> Code]] /\ rows' \subseteq rows
  BY <1>1 DEF Forgetting, Custody, Shapes, World
<1> QED
  BY <1>1, <1>2, <1>4, <1>5, EndGood

\* An order of the modules of a batch begins with one of them.
LEMMA OrderType ==
  ASSUME NEW S \in SUBSET Modules, S # {}, NEW order \in SetToSeqs(S)
  PROVE  /\ order \in Seq(S) /\ order # <<>> /\ Head(order) \in S
         /\ Tail(order) \in Seq(S)
<1>1. IsFiniteSet(S)
  BY ConstantsAssumption, FS_Subset
<1>2. Cardinality(S) \in Nat /\ Cardinality(S) # 0
  BY <1>1, FS_CardinalityType, FS_EmptySet
<1>3. order \in [1 .. Cardinality(S) -> S]
  BY DEF SetToSeqs
<1>4. order \in Seq(S) /\ Len(order) = Cardinality(S)
  BY <1>2, <1>3
<1>5. order # <<>>
  BY <1>2, <1>4
<1> QED
  BY <1>4, <1>5

\* What is in a sequence.
LEMMA ToSetType ==
  ASSUME NEW S, NEW s \in Seq(S)
  PROVE  ToSet(s) \subseteq S
BY DEF ToSet

\* A sequence over a set is one over any larger set.
LEMMA SeqOfSubset ==
  ASSUME NEW S, NEW T, S \subseteq T, NEW s \in Seq(S)
  PROVE  s \in Seq(T)
<1>1. s \in [1 .. Len(s) -> S] /\ Len(s) \in Nat
  OBVIOUS
<1>2. s \in [1 .. Len(s) -> T]
  BY <1>1
<1> QED
  BY <1>1, <1>2

\* A command that failed is over, or its batch goes on one by one.
LEMMA RunFailsGood ==
  ASSUME Custody, Witness, NEW c \in Clients, RunFails(c)
  PROVE  Good(c)
<1>1. /\ pc[c] = "run" /\ There(c)
      /\ UNCHANGED <<code, rows, installs, asked, outside>>
  BY DEF RunFails
<1>2. Works(c) /\ "run" \in WorkLocs /\ "run" \notin Begetting /\ pc[c] # "record" /\ "error" \in EndLocs
  BY <1>1 DEF Works, WorkLocs, EndLocs, Begetting
<1>3. /\ job[c] \in Job /\ job[c].row # Absent /\ job[c].op \in Commands \cup {"uninstall"}
      /\ OpsOf(pc[c], job[c]) /\ WorkOf(pc[c], job[c])
  BY <1>1, <1>2, JobOf DEF OpsOf, Works
<1>4. PICK M \in SUBSET job[c].now : Becomes(NameOf(c), Ran(job[c].op, cluster[NameOf(c)], M))
  BY DEF RunFails
<1>5. Keeping /\ cluster' \in [Places -> Contents \cup {Absent}]
  BY <1>1, <1>3, <1>4, CommandLeaves
<1>6. Forgetting /\ installs' \in [Ids -> [Modules -> Code]] /\ rows' \subseteq rows
  BY <1>1 DEF Forgetting, Custody, Shapes, World
<1>7. CASE job[c].op = "batch" /\ ~job[c].failed
  <2>1. PICK order \in SetToSeqs(job[c].all) :
          With(c, "run", [job[c] EXCEPT !.failed = TRUE, !.now = {Head(order)}, !.queue = Tail(order)])
    BY <1>7 DEF RunFails
  <2>2. job[c].all \in SUBSET Modules /\ job[c].all # {}
    BY <1>3, <1>7 DEF Job, WorkOf, Commands
  <2>3. Head(order) \in job[c].all /\ Tail(order) \in Seq(job[c].all)
    BY <2>2, OrderType
  <2>4. Tail(order) \in Seq(Modules) /\ ToSet(Tail(order)) \subseteq job[c].all
    BY <2>2, <2>3, SeqOfSubset, ToSetType
  <2> DEFINE now == {Head(order)}
             queue == Tail(order)
             j == [job[c] EXCEPT !.failed = TRUE, !.now = now, !.queue = queue]
  <2>5. /\ now \in SUBSET Modules /\ now \subseteq job[c].all
        /\ queue \in Seq(Modules) /\ ToSet(queue) \subseteq job[c].all
    BY <2>2, <2>3, <2>4
  <2>6. With(c, "run", j)
    BY <2>1
  <2> HIDE DEF now, queue
  <2>7. /\ j \in Job /\ j.op = job[c].op /\ j.row = job[c].row /\ j.all = job[c].all /\ j.now = now
        /\ j.queue = queue /\ j.failed /\ j.key = job[c].key
    BY <1>3, <2>5 DEF Job
  <2> HIDE DEF j
  <2>8. OpsOf("run", j)
    BY <1>1, <1>3, <2>5, <2>7 DEF OpsOf
  <2>9. WorkOf("run", j)
    BY <1>3, <1>7, <2>7 DEF WorkOf
  <2>10. pc'[c] = "run" /\ job'[c] = j
    BY <1>2, <2>6, <2>7, WithMoves DEF Custody
  <2>11. ASSUME c \in held' PROVE HeldOf(c)'
    BY <1>2, <2>7, <2>10, <2>11, HeldGoesOn
  <2> QED
    BY <1>1, <1>2, <1>5, <1>6, <2>6, <2>7, <2>8, <2>9, <2>11, GoOnGood
<1>8. CASE ~(job[c].op = "batch" /\ ~job[c].failed)
  <2>1. Goto(c, "error")
    BY <1>8 DEF RunFails
  <2> QED
    BY <1>1, <1>2, <1>5, <1>6, <2>1, EndGood
<1> QED
  BY <1>7, <1>8

\* remember_module_contents: what is on disk now is what the row is noted to have.
LEMMA RecordGood ==
  ASSUME Custody, Witness, NEW c \in Clients, Record(c)
  PROVE  Good(c)
<1>1. /\ pc[c] = "record" /\ Known(c) /\ Remember(c)
      /\ UNCHANGED <<code, rows, cluster, asked, outside>>
  BY DEF Record
<1>2. Works(c) /\ {"run", "keep"} \subseteq WorkLocs \ Begetting /\ {"error", "ok"} \subseteq EndLocs
  BY <1>1 DEF Works, WorkLocs, EndLocs, Begetting
<1>3. /\ job[c] \in Job /\ job[c].row # Absent /\ job[c].row \in Rows /\ job[c].op \in Commands
      /\ OpsOf(pc[c], job[c]) /\ WorkOf(pc[c], job[c])
  BY <1>1, <1>2, JobOf DEF OpsOf, Works
<1>4. job[c].row.id \in Ids
  BY <1>3 DEF Rows
<1>5. /\ installs' \in [Ids -> [Modules -> Code]]
      /\ \A m \in OnDisk(c) : installs'[job[c].row.id][m] = code[m]
  <2> DEFINE noted == [m \in Modules |-> IF m \in OnDisk(c) THEN code[m] ELSE installs[job[c].row.id][m]]
  <2>1. OnDisk(c) \subseteq Modules
    BY <1>3 DEF OnDisk, Job
  <2>2. noted \in [Modules -> Code] /\ \A m \in OnDisk(c) : noted[m] = code[m]
    BY <1>4, <2>1 DEF Custody, Shapes, World
  <2>3. installs' = [installs EXCEPT ![job[c].row.id] = noted]
    BY <1>1 DEF Remember
  <2> HIDE DEF noted
  <2> QED
    BY <1>4, <2>2, <2>3 DEF Custody, Shapes, World
<1>6. Forgetting /\ Keeping /\ rows' \subseteq rows /\ cluster' \in [Places -> Contents \cup {Absent}]
  BY <1>1, SameKeeps DEF Forgetting, Custody, Shapes, World
<1>8. CASE job[c].queue # <<>>
  <2> DEFINE now == {Head(job[c].queue)}
             queue == Tail(job[c].queue)
             j == [job[c] EXCEPT !.now = now, !.queue = queue]
  <2>1. With(c, "run", j)
    BY <1>8 DEF Record
  <2>2. job[c].queue \in Seq(Modules) /\ ToSet(job[c].queue) \subseteq job[c].all
    BY <1>3 DEF Job, OpsOf
  <2>3. now \in SUBSET Modules /\ now \subseteq job[c].all /\ queue \in Seq(Modules)
    BY <1>8, <2>2 DEF ToSet
  <2>4. ToSet(queue) \subseteq job[c].all
    <3>1. \A i \in DOMAIN queue : queue[i] = job[c].queue[i + 1] /\ i + 1 \in DOMAIN job[c].queue
      BY <1>8, <2>2
    <3> QED
      BY <2>2, <3>1 DEF ToSet
  <2> HIDE DEF now, queue
  <2>5. /\ j \in Job /\ j.op = job[c].op /\ j.row = job[c].row /\ j.all = job[c].all /\ j.now = now
        /\ j.queue = queue /\ j.key = job[c].key
    BY <1>3, <2>3 DEF Job
  <2>6. j.failed <=> job[c].failed
    BY <1>3 DEF Job
  <2> HIDE DEF j
  <2>7. OpsOf("run", j)
    BY <1>3, <2>3, <2>4, <2>5 DEF OpsOf
  <2>8. WorkOf("run", j)
    BY <1>3, <1>8, <2>5, <2>6 DEF WorkOf
  <2>9. pc'[c] = "run" /\ job'[c] = j /\ Alone(c)
    BY <1>2, <2>1, <2>5, WithMoves DEF Custody, Alone
  <2>10. ASSUME c \in held' PROVE HeldOf(c)'
    BY <1>2, <2>5, <2>9, <2>10, HeldGoesOn
  <2> QED
    BY <1>1, <1>2, <1>5, <1>6, <2>1, <2>5, <2>7, <2>8, <2>9, <2>10, GoOnGood
<1>9. CASE job[c].queue = <<>> /\ job[c].op = "make"
  <2>1. With(c, "keep", job[c])
    BY <1>2, <1>9 DEF Record, Goto
  <2>2. pc'[c] = "keep" /\ job'[c] = job[c] /\ Alone(c)
    BY <1>2, <1>3, <2>1, WithMoves DEF Custody, Alone
  <2>3. OpsOf("keep", job[c]) /\ WorkOf("keep", job[c]) /\ job[c].now = job[c].all
    BY <1>1, <1>3, <1>9 DEF OpsOf, WorkOf
  <2>4. ASSUME c \in held' PROVE HeldOf(c)'
    <3>1. /\ HeldOf(c) /\ Works(c)' /\ code' = code
          /\ job'[c].op = "make" => \A m \in job'[c].all : job'[c].key[m] = code'[m]
      BY <1>2, <2>2, <2>4, HeldActs
    <3>2. There(c) /\ \A m \in job[c].all : cluster[NameOf(c)].inst[m] = code[m]
      BY <1>1, <1>9, <2>3, <3>1 DEF HeldOf
    <3>3. There(c)' /\ NameOf(c)' = NameOf(c) /\ cluster' = cluster
      BY <1>1, <2>2, <3>2 DEF There, NameOf
    <3> QED
      BY <2>2, <3>1, <3>2, <3>3 DEF HeldOf
  <2> QED
    BY <1>1, <1>2, <1>3, <1>5, <1>6, <2>1, <2>2, <2>3, <2>4, GoOnGood
<1>10. CASE job[c].queue = <<>> /\ job[c].op # "make"
  <2> DEFINE l == IF job[c].failed THEN "error" ELSE "ok"
  <2>1. Goto(c, l) /\ l \in EndLocs
    BY <1>2, <1>10 DEF Record
  <2> HIDE DEF l
  <2>2. Alone(c)
    BY <2>1, GotoMoves DEF Custody, Alone
  <2> QED
    BY <1>1, <1>2, <1>5, <1>6, <2>1, <2>2, EndGood
<1> QED
  BY <1>8, <1>9, <1>10

-------------------------------------------------------------------------------
(* The template cache *)

\* An operation that goes on with what it has, to a step nothing need be known of.
LEMMA GotoGood ==
  ASSUME Custody, Witness, NEW c \in Clients, Works(c), pc[c] # "record",
         NEW l \in WorkLocs \ {"record", "keep"}, Goto(c, l),
         l \in Begetting => pc[c] \in Begetting,
         OpsOf(l, job[c]), WorkOf(l, job[c]),
         UNCHANGED <<code, rows, installs, asked, outside>>,
         cluster' \in [Places -> Contents \cup {Absent}], Keeping
  PROVE  Good(c)
<1>1. With(c, l, job[c])
  BY DEF Goto
<1>2. job[c] \in Job
  BY JobOf
<1>3. pc'[c] = l /\ job'[c] = job[c]
  BY <1>1, <1>2, WithMoves DEF Custody
<1>4. ASSUME c \in held' PROVE HeldOf(c)'
  BY <1>3, <1>4, HeldGoesOn
<1>5. Forgetting /\ installs' \in [Ids -> [Modules -> Code]] /\ rows' \subseteq rows
  BY DEF Forgetting, Custody, Shapes, World
<1> QED
  BY <1>1, <1>2, <1>4, <1>5, GoOnGood

\* An operation that ends, and leaves rows and records as they are.
LEMMA GotoEndGood ==
  ASSUME Custody, Witness, NEW c \in Clients, Works(c),
         NEW l \in EndLocs, Goto(c, l), pc[c] = "record" => UNCHANGED cluster,
         UNCHANGED <<code, rows, installs, asked, outside>>,
         cluster' \in [Places -> Contents \cup {Absent}], Keeping
  PROVE  Good(c)
<1>1. Forgetting /\ installs' \in [Ids -> [Modules -> Code]] /\ rows' \subseteq rows
  BY DEF Forgetting, Custody, Shapes, World
<1> QED
  BY <1>1, EndGood

\* The template is looked up: nothing changes.
LEMMA LookGood ==
  ASSUME Custody, Witness, NEW c \in Clients, Look(c)
  PROVE  Good(c)
<1>1. pc[c] = "look" /\ UNCHANGED <<code, rows, cluster, installs, asked, outside>>
  BY DEF Look
<1>2. /\ Works(c) /\ {"create", "copy"} \subseteq WorkLocs \ {"record", "keep"}
      /\ pc[c] \in Begetting
  BY <1>1 DEF Works, WorkLocs, Begetting
<1>3. job[c] \in Job /\ OpsOf("look", job[c]) /\ WorkOf("look", job[c])
  BY <1>1, JobOf
<1>4. Keeping /\ cluster' \in [Places -> Contents \cup {Absent}]
  BY <1>1, SameKeeps DEF Custody, Shapes, World
<1>5. CASE cluster[job[c].key] = Absent
  <2>1. Goto(c, "create")
    BY <1>5 DEF Look
  <2>2. OpsOf("create", job[c]) /\ WorkOf("create", job[c])
    BY <1>2, <1>3 DEF OpsOf, WorkOf, WorkLocs
  <2> QED
    BY <1>1, <1>2, <1>4, <2>1, <2>2, GotoGood
<1>6. CASE cluster[job[c].key] # Absent
  <2> DEFINE j == [job[c] EXCEPT !.now = {}]
  <2>1. With(c, "copy", j)
    BY <1>6 DEF Look
  <2>2. /\ j \in Job /\ j.op = job[c].op /\ j.row = job[c].row /\ j.all = job[c].all /\ j.now = {}
        /\ j.queue = job[c].queue /\ j.key = job[c].key
    BY <1>3 DEF Job
  <2>3. j.failed <=> job[c].failed
    BY <1>3 DEF Job
  <2> HIDE DEF j
  <2>4. OpsOf("copy", j) /\ WorkOf("copy", j)
    BY <1>2, <1>3, <2>2, <2>3 DEF OpsOf, WorkOf, WorkLocs
  <2>5. pc'[c] = "copy" /\ job'[c] = j
    BY <1>2, <2>1, <2>2, WithMoves DEF Custody
  <2>6. ASSUME c \in held' PROVE HeldOf(c)'
    BY <1>2, <2>2, <2>5, <2>6, HeldGoesOn
  <2>7. Forgetting /\ installs' \in [Ids -> [Modules -> Code]] /\ rows' \subseteq rows
    BY <1>1 DEF Forgetting, Custody, Shapes, World
  <2> QED
    BY <1>1, <1>2, <1>4, <2>1, <2>2, <2>4, <2>6, <2>7, GoOnGood
<1> QED
  BY <1>5, <1>6

\* A job on its way to a row of its own.
LEMMA MakingOf ==
  ASSUME Custody, NEW c \in Clients, pc[c] \in {"copy", "create", "keep"}
  PROVE  /\ job[c].op = "make" /\ job[c].key \in Keys /\ job[c].key \in Places
         /\ job[c].key \in [job[c].all -> Code]
         /\ job[c].row # Absent /\ NameOf(c) \in Names
<1>1. OpsOf(pc[c], job[c]) /\ WorkOf(pc[c], job[c]) /\ pc[c] \in WorkLocs /\ pc[c] # "clear"
  BY JobOf DEF WorkLocs
<1> QED
  BY <1>1, JobOf DEF OpsOf, WorkOf, Places

\* The template is copied under the new database's name.
LEMMA CopyGood ==
  ASSUME Custody, Witness, NEW c \in Clients, Copy(c)
  PROVE  Good(c)
<1>1. /\ pc[c] = "copy" /\ Becomes(NameOf(c), cluster[job[c].key]) /\ Goto(c, "row")
      /\ UNCHANGED <<code, rows, installs, asked, outside>>
  BY DEF Copy
<1>2. /\ Works(c) /\ "row" \in WorkLocs \ {"record", "keep"} /\ pc[c] \in Begetting
  BY <1>1 DEF Works, WorkLocs, Begetting
<1>3. OpsOf("row", job[c]) /\ WorkOf("row", job[c])
  BY <1>1, <1>2, JobOf DEF OpsOf, WorkOf, WorkLocs
<1>4. cluster[job[c].key] \in Contents \cup {Absent} /\ NameOf(c) \in Names
  BY <1>1, MakingOf DEF Custody, Shapes, World
<1>5. Keeping /\ cluster' \in [Places -> Contents \cup {Absent}]
  BY <1>1, <1>4, NamesKeep
<1> QED
  BY <1>1, <1>2, <1>3, <1>5, GotoGood

\* Without a template the database starts empty.
LEMMA CreateGood ==
  ASSUME Custody, Witness, NEW c \in Clients, Create(c)
  PROVE  Good(c)
<1>1. /\ pc[c] = "create" /\ Becomes(NameOf(c), Bare) /\ Goto(c, "row")
      /\ UNCHANGED <<code, rows, installs, asked, outside>>
  BY DEF Create
<1>2. /\ Works(c) /\ "row" \in WorkLocs \ {"record", "keep"} /\ pc[c] \in Begetting
  BY <1>1 DEF Works, WorkLocs, Begetting
<1>3. OpsOf("row", job[c]) /\ WorkOf("row", job[c])
  BY <1>1, <1>2, JobOf DEF OpsOf, WorkOf, WorkLocs
<1>4. Keeping /\ cluster' \in [Places -> Contents \cup {Absent}]
  BY <1>1, BareType, MakingOf, NamesKeep
<1> QED
  BY <1>1, <1>2, <1>3, <1>4, GotoGood

\* A row is listed under an id nobody else has.
LEMMA InsertRowGood ==
  ASSUME Custody, Witness, NEW c \in Clients, InsertRow(c)
  PROVE  Good(c)
<1> DEFINE l == IF job[c].op = "restore" THEN "ask" ELSE IF job[c].now = {} THEN "ok" ELSE "run"
<1>1. /\ pc[c] = "row" /\ rows' = rows \cup {job[c].row} /\ Goto(c, l)
      /\ UNCHANGED <<code, cluster, installs, asked, outside>>
  BY DEF InsertRow
<1>2. /\ l \in EndLocs \cup WorkLocs /\ l \notin Begetting \cup {"record", "keep", "states", "row"}
      /\ Works(c)
  BY <1>1 DEF Works, WorkLocs, EndLocs, Begetting
<1>3. /\ job[c] \in Job /\ OpsOf("row", job[c]) /\ WorkOf("row", job[c])
      /\ job[c].row # Absent /\ job[c].row \in Rows
  BY <1>1, <1>2, JobOf DEF OpsOf, Works
<1>4. /\ pc' \in [Clients -> EndLocs \cup WorkLocs] /\ job' \in [Clients -> Job]
      /\ pc'[c] = l /\ job'[c] = (IF l \in WorkLocs THEN job[c] ELSE NoJob)
      /\ \A k \in Clients \ {c} : pc'[k] = pc[k] /\ job'[k] = job[k]
  BY <1>1, <1>2, GotoMoves DEF Custody
<1>5. World' /\ Alone(c)
  BY <1>1, <1>3, <1>4 DEF World, Alone, Custody, Shapes
<1>6. OpsOf(pc'[c], job'[c]) /\ WorkOf(pc'[c], job'[c])
  <2>1. CASE l = "ok"
    <3>1. l \in EndLocs /\ l \notin WorkLocs
      BY <2>1 DEF EndLocs, WorkLocs
    <3> QED
      BY <1>4, <3>1, EndOps
  <2>2. CASE l = "ask"
    <3>1. l \in WorkLocs /\ job[c].op = "restore"
      BY <2>2 DEF WorkLocs
    <3> QED
      BY <1>2, <1>3, <1>4, <2>2, <3>1 DEF OpsOf, WorkOf, Commands
  <2>3. CASE l = "run"
    <3>1. l \in WorkLocs /\ job[c].op # "restore" /\ job[c].now # {}
      BY <2>3 DEF WorkLocs
    <3> QED
      BY <1>2, <1>3, <1>4, <2>3, <3>1 DEF OpsOf, WorkOf, Commands
  <2> QED
    BY <2>1, <2>2, <2>3
<1>7. RowStep(c)
  BY <1>1, <1>2, <1>4, NoJobType DEF RowStep
<1>8. Noting /\ Forgetting /\ Keeping
  BY <1>1, <1>5, NotesNothing, SameKeeps DEF Forgetting
<1>9. ASSUME c \in held' PROVE HeldOf(c)'
  <2>1. l \in WorkLocs
    BY <1>4, <1>9, HeldFrom
  <2> QED
    BY <1>2, <1>4, <1>9, <2>1, HeldGoesOn
<1> QED
  BY <1>2, <1>4, <1>5, <1>6, <1>7, <1>8, <1>9 DEF Good

\* A finished database is kept under its key, unless one is there already.
LEMMA KeepGood ==
  ASSUME Custody, Witness, NEW c \in Clients, Keep(c)
  PROVE  Good(c)
<1>1. /\ pc[c] = "keep" /\ Goto(c, "ok")
      /\ UNCHANGED <<code, rows, installs, asked, outside>>
  BY DEF Keep
<1>2. Works(c) /\ "ok" \in EndLocs
  BY <1>1 DEF Works, WorkLocs, EndLocs
<1>3. Alone(c)
  BY <1>1, <1>2, GotoMoves DEF Custody, Alone
<1>4. CASE cluster[job[c].key] = Absent /\ There(c)
  <2>1. Becomes(job[c].key, cluster[NameOf(c)])
    BY <1>4 DEF Keep
  <2>2. cluster[NameOf(c)] \in Contents /\ job[c].key \in Places
    BY <1>1, <1>4, MakingOf, ThereType
  <2>3. /\ cluster' \in [Places -> Contents \cup {Absent}]
        /\ cluster'[job[c].key] = cluster[NameOf(c)]
        /\ \A p \in Places : p # job[c].key => cluster'[p] = cluster[p]
    BY <2>1, <2>2, BecomesMoves
  <2>4. \A b \in Clients \ {c} : ~Acts(b)
    BY <1>3 DEF Alone, Acts
  <2>5. Keeping
    BY <1>1, <1>4, <2>3, <2>4 DEF Keeping, Places
  <2> QED
    BY <1>1, <1>2, <2>3, <2>5, GotoEndGood
<1>5. CASE ~(cluster[job[c].key] = Absent /\ There(c))
  <2>1. Keeping /\ cluster' \in [Places -> Contents \cup {Absent}]
    BY <1>5, SameKeeps DEF Keep, Custody, Shapes, World
  <2> QED
    BY <1>1, <1>2, <2>1, GotoEndGood
<1> QED
  BY <1>4, <1>5

\* Clearing the cache drops templates and nothing else.
LEMMA ClearGood ==
  ASSUME Custody, Witness, NEW c \in Clients, Clear(c)
  PROVE  Good(c)
<1>1. pc[c] = "clear" /\ Goto(c, "ok") /\ UNCHANGED <<code, rows, installs, asked, outside>>
  BY DEF Clear
<1>2. Works(c) /\ "ok" \in EndLocs
  BY <1>1 DEF Works, WorkLocs, EndLocs
<1>3. PICK T \in SUBSET {k \in Keys : cluster[k] # Absent} :
        cluster' = [p \in Places |-> IF p \in T THEN Absent ELSE cluster[p]]
  BY DEF Clear
<1>4. Keeping /\ cluster' \in [Places -> Contents \cup {Absent}]
  BY <1>3 DEF Keeping, Custody, Shapes, World, Places
<1> QED
  BY <1>1, <1>2, <1>4, GotoEndGood

-------------------------------------------------------------------------------
(* Restoring, neutralizing, asking, dropping *)

\* A restored database is there before its row is.
LEMMA LoadGood ==
  ASSUME Custody, Witness, NEW c \in Clients, Load(c)
  PROVE  Good(c)
<1>1. pc[c] = "load" /\ Goto(c, "row") /\ UNCHANGED <<code, rows, installs, asked, outside>>
  BY DEF Load
<1>2. /\ Works(c) /\ "row" \in WorkLocs \ {"record", "keep"} /\ pc[c] \in Begetting
  BY <1>1 DEF Works, WorkLocs, Begetting
<1>3. OpsOf("row", job[c]) /\ WorkOf("row", job[c]) /\ job[c].row # Absent
  BY <1>1, <1>2, JobOf DEF OpsOf, WorkOf, WorkLocs, Commands
<1>4. PICK d \in {Bare, Restored} : Becomes(NameOf(c), d)
  BY DEF Load
<1>5. d \in Contents \cup {Absent} /\ NameOf(c) \in Names
  BY <1>3, BareType, JobOf
<1>6. Keeping /\ cluster' \in [Places -> Contents \cup {Absent}]
  BY <1>4, <1>5, NamesKeep
<1> QED
  BY <1>1, <1>2, <1>3, <1>6, GotoGood

\* Whether Odoo is in it is asked; an answer that does not come ends it as a success.
LEMMA AskOdooGood ==
  ASSUME Custody, Witness, NEW c \in Clients, AskOdoo(c)
  PROVE  Good(c)
<1>1. pc[c] = "ask" /\ UNCHANGED <<code, rows, cluster, installs, asked, outside>>
  BY DEF AskOdoo
<1>2. /\ Works(c) /\ "neutralize" \in WorkLocs \ {"record", "keep"}
      /\ "neutralize" \notin Begetting /\ {"ok", "blind"} \subseteq EndLocs
  BY <1>1 DEF Works, WorkLocs, Begetting, EndLocs
<1>3. OpsOf("neutralize", job[c]) /\ WorkOf("neutralize", job[c])
  BY <1>1, <1>2, JobOf DEF OpsOf, WorkOf, WorkLocs
<1>4. Keeping /\ cluster' \in [Places -> Contents \cup {Absent}]
  BY <1>1, SameKeeps DEF Custody, Shapes, World
<1>5. Goto(c, "neutralize") \/ Goto(c, "ok") \/ Goto(c, "blind")
  BY DEF AskOdoo
<1>6. CASE Goto(c, "neutralize")
  BY <1>1, <1>2, <1>3, <1>4, <1>6, GotoGood
<1>7. CASE Goto(c, "ok") \/ Goto(c, "blind")
  BY <1>1, <1>2, <1>4, <1>7, GotoEndGood
<1> QED
  BY <1>5, <1>6, <1>7

\* A database that is made safe is a database.
LEMMA NeutralizeLeaves ==
  ASSUME Custody, NEW c \in Clients, pc[c] = "neutralize", There(c),
         Becomes(NameOf(c), [cluster[NameOf(c)] EXCEPT !.safe = TRUE])
  PROVE  Keeping /\ cluster' \in [Places -> Contents \cup {Absent}]
<1>1. job[c].row # Absent
  BY JobOf DEF OpsOf, WorkLocs
<1> DEFINE d == [cluster[NameOf(c)] EXCEPT !.safe = TRUE]
<1>2. d \in Contents
  BY <1>1, ThereType DEF Contents
<1>3. Becomes(NameOf(c), d)
  OBVIOUS
<1> HIDE DEF d
<1> QED
  BY <1>1, <1>2, <1>3, JobOf, NamesKeep

\* With that it ends, well or, when the command fails, not.
LEMMA NeutralizeGood ==
  ASSUME Custody, Witness, NEW c \in Clients, Neutralize(c) \/ NeutralizeFails(c)
  PROVE  Good(c)
<1>1. pc[c] = "neutralize" /\ There(c) /\ (Goto(c, "ok") \/ Goto(c, "error"))
      /\ UNCHANGED <<code, rows, installs, asked, outside>>
  BY DEF Neutralize, NeutralizeFails
<1>2. Works(c) /\ {"ok", "error"} \subseteq EndLocs
  BY <1>1 DEF Works, WorkLocs, EndLocs
<1>3. CASE UNCHANGED cluster
  <2>1. Keeping /\ cluster' \in [Places -> Contents \cup {Absent}]
    BY <1>3, SameKeeps DEF Custody, Shapes, World
  <2> QED
    BY <1>1, <1>2, <2>1, GotoEndGood
<1>4. CASE Becomes(NameOf(c), [cluster[NameOf(c)] EXCEPT !.safe = TRUE])
  <2>1. Keeping /\ cluster' \in [Places -> Contents \cup {Absent}]
    BY <1>1, <1>4, NeutralizeLeaves
  <2> QED
    BY <1>1, <1>2, <2>1, GotoEndGood
<1> QED
  BY <1>3, <1>4 DEF Neutralize, NeutralizeFails

\* The database says what is installed; with that module_freshness goes on to the disk,
LEMMA StatesGood ==
  ASSUME Custody, Witness, NEW c \in Clients, States(c)
  PROVE  Good(c)
<1>1. pc[c] = "states" /\ Goto(c, "hash") /\ UNCHANGED <<code, rows, cluster, installs, asked, outside>>
  BY DEF States
<1>2. Works(c) /\ "hash" \in WorkLocs \ {"record", "keep"} /\ "hash" \notin Begetting
  BY <1>1 DEF Works, WorkLocs, Begetting
<1>3. OpsOf("hash", job[c]) /\ WorkOf("hash", job[c])
  BY <1>1, <1>2, JobOf DEF OpsOf, WorkOf, WorkLocs
<1>4. Keeping /\ cluster' \in [Places -> Contents \cup {Absent}]
  BY <1>1, SameKeeps DEF Custody, Shapes, World
<1> QED
  BY <1>1, <1>2, <1>3, <1>4, GotoGood

\* and answers.
LEMMA HashGood ==
  ASSUME Custody, Witness, NEW c \in Clients, Hash(c)
  PROVE  Good(c)
<1>1. pc[c] = "hash" /\ Goto(c, "ok") /\ UNCHANGED <<code, rows, cluster, installs, asked, outside>>
  BY DEF Hash
<1>2. Works(c) /\ "ok" \in EndLocs
  BY <1>1 DEF Works, WorkLocs, EndLocs
<1>3. Keeping /\ cluster' \in [Places -> Contents \cup {Absent}]
  BY <1>1, SameKeeps DEF Custody, Shapes, World
<1> QED
  BY <1>1, <1>2, <1>3, GotoEndGood

\* The database goes first,
LEMMA DropDbGood ==
  ASSUME Custody, Witness, NEW c \in Clients, DropDb(c)
  PROVE  Good(c)
<1>1. /\ pc[c] = "dropDb" /\ Becomes(NameOf(c), Absent) /\ Goto(c, "forget")
      /\ UNCHANGED <<code, rows, installs, asked, outside>>
  BY DEF DropDb
<1>2. /\ Works(c) /\ "forget" \in WorkLocs \ {"record", "keep"} /\ "forget" \notin Begetting
  BY <1>1 DEF Works, WorkLocs, Begetting
<1>3. OpsOf("forget", job[c]) /\ WorkOf("forget", job[c]) /\ job[c].row # Absent
  BY <1>1, <1>2, JobOf DEF OpsOf, WorkOf, WorkLocs
<1>4. NameOf(c) \in Names
  BY <1>3, JobOf
<1>5. Keeping /\ cluster' \in [Places -> Contents \cup {Absent}]
  BY <1>1, <1>4, NamesKeep
<1> QED
  BY <1>1, <1>2, <1>3, <1>5, GotoGood

\* then the row, and with it its records.
LEMMA ForgetInstallsGood ==
  ASSUME Custody, Witness, NEW c \in Clients, ForgetInstalls(c)
  PROVE  Good(c)
<1>1. /\ pc[c] = "forget" /\ rows' = rows \ {job[c].row} /\ Goto(c, "ok")
      /\ installs' = [installs EXCEPT ![job[c].row.id] = NoModules]
      /\ UNCHANGED <<code, cluster, asked, outside>>
  BY DEF ForgetInstalls
<1>2. Works(c) /\ "ok" \in EndLocs /\ pc[c] # "record"
  BY <1>1 DEF Works, WorkLocs, EndLocs
<1>3. job[c].row # Absent /\ job[c].row \in Rows /\ job[c].row.id \in Ids
  BY <1>1, JobOf DEF OpsOf, WorkLocs, Rows
<1>4. installs' \in [Ids -> [Modules -> Code]] /\ installs'[job[c].row.id] = NoModules
  BY <1>1, <1>3, BareType DEF Custody, Shapes, World
<1>5. Forgetting
  BY <1>1, <1>4 DEF Forgetting
<1>6. Keeping /\ cluster' \in [Places -> Contents \cup {Absent}] /\ rows' \subseteq rows
  BY <1>1, SameKeeps DEF Custody, Shapes, World
<1> QED
  BY <1>1, <1>2, <1>4, <1>5, <1>6, EndGood

\* An operation that is cut short leaves everything where it was.
LEMMA CutShortGood ==
  ASSUME Custody, Witness, NEW c \in Clients, CutShort(c)
  PROVE  Good(c)
<1>1. /\ Works(c) /\ Goto(c, "error") /\ UNCHANGED <<code, rows, cluster, installs, asked, outside>>
  BY DEF CutShort
<1>2. "error" \in EndLocs
  BY DEF EndLocs
<1>3. Keeping /\ cluster' \in [Places -> Contents \cup {Absent}]
  BY <1>1, SameKeeps DEF Custody, Shapes, World
<1> QED
  BY <1>1, <1>2, <1>3, GotoEndGood

\* Whatever a client does.
LEMMA StepGood ==
  ASSUME Custody, Witness, NEW c \in Clients, Step(c)
  PROVE  Good(c)
BY BeginRunGood, BeginMakeGood, BeginRestoreGood, BeginNeutralizeGood, BeginDropGood, BeginClearGood,
   BeginFreshnessGood, RunGood, UninstallGood, RunFailsGood, RecordGood, LookGood, CopyGood, CreateGood,
   InsertRowGood, KeepGood, ClearGood, LoadGood, AskOdooGood, NeutralizeGood, StatesGood, HashGood, DropDbGood,
   ForgetInstallsGood, CutShortGood DEF Step

-------------------------------------------------------------------------------
(* What happens outside, and the invariant *)

\* A step no client takes.
LEMMA OutsideCustody ==
  ASSUME Custody, Witness, UNCHANGED <<rows, installs, pc, job, asked>>, World', Keeping
  PROVE  Custody'
<1>1. Shapes'
  BY DEF Shapes, Witness
<1>2. Ops' /\ RowIds'
  BY DEF Custody, Ops, RowIds
<1>3. Noting /\ Forgetting
  BY DEF Noting, Acts, Forgetting
<1>4. Held'
  BY HeldFrom, HeldStays DEF Held
<1>5. Templates' /\ Records'
  BY <1>3, TemplatesStay, RecordsStay
<1>6. Unmoved'
  BY UnmovedStay
<1> QED
  BY <1>1, <1>2, <1>4, <1>5, <1>6 DEF Custody

\* Somebody edits a module.
LEMMA EditCustody ==
  ASSUME Custody, Witness, NEW m \in Modules, Edit(m)
  PROVE  Custody'
<1>1. UNCHANGED <<rows, cluster, installs, pc, job, asked>> /\ outside < MaxOutside /\ outside' = outside + 1
  BY DEF Edit
<1>2. PICK v \in Code : code' = [code EXCEPT ![m] = v]
  BY DEF Edit
<1>3. World'
  <2>1. code' \in [Modules -> Code]
    BY <1>2 DEF Custody, Shapes, World
  <2>2. outside' \in 0 .. MaxOutside
    BY <1>1, ConstantsAssumption DEF Custody, Shapes, World
  <2> QED
    BY <1>1, <2>1, <2>2 DEF Custody, Shapes, World
<1> QED
  BY <1>1, <1>3, SameKeeps, OutsideCustody

\* Odoo changes a database, or a revert does.
LEMMA ChangeCustody ==
  ASSUME Custody, Witness, NEW n \in Names, Change(n)
  PROVE  Custody'
<1>1. /\ UNCHANGED <<code, rows, installs, pc, job, asked>> /\ outside < MaxOutside
      /\ outside' = outside + 1 /\ cluster[n] # Absent
  BY DEF Change
<1>2. PICK d \in {Bare} \cup {Upgraded(cluster[n], {m}) : m \in Modules} : Becomes(n, d)
  BY DEF Change
<1>3. d \in Contents
  <2>1. cluster[n] \in Contents
    BY <1>1 DEF Custody, Shapes, World, Places
  <2> QED
    BY <1>2, <2>1, BareType, UpgradedType DEF Custody
<1>4. Keeping /\ cluster' \in [Places -> Contents \cup {Absent}]
  BY <1>2, <1>3, NamesKeep
<1>5. World'
  <2>1. outside' \in 0 .. MaxOutside
    BY <1>1, ConstantsAssumption DEF Custody, Shapes, World
  <2> QED
    BY <1>1, <1>4, <2>1 DEF Custody, Shapes, World
<1> QED
  BY <1>1, <1>4, <1>5, OutsideCustody

\* At first there is no database, template or record.
LEMMA InitCustody == Init => Custody
<1> SUFFICES ASSUME Init PROVE Custody
  OBVIOUS
<1>1. code \in [Modules -> Code]
  BY DEF Init, Code
<1>2. /\ rows = {} /\ cluster = [p \in Places |-> Absent] /\ installs = [i \in Ids |-> NoModules]
      /\ pc = [c \in Clients |-> "ok"] /\ job = [c \in Clients |-> NoJob]
      /\ asked = 0 /\ outside = 0 /\ held = {} /\ unmoved = {} /\ trusted = {} /\ sound = {}
  BY DEF Init
<1>3. "ok" \in EndLocs /\ "ok" \notin WorkLocs
  BY DEF EndLocs, WorkLocs
<1>4. Shapes
  BY <1>1, <1>2, <1>3, BareType, NoJobType, ConstantsAssumption DEF Shapes, World
<1>5. Ops
  BY <1>2, <1>3, EndOps DEF Ops
<1>6. RowIds
  BY <1>2, NoJobType DEF RowIds, Begetting
<1>7. Held /\ Unmoved /\ Templates /\ Records
  BY <1>2 DEF Held, Unmoved, Templates, Records
<1> QED
  BY <1>4, <1>5, <1>6, <1>7 DEF Custody

\* The invariant survives every step.
LEMMA NextCustody == Custody /\ [Next]_vars => Custody'
<1> SUFFICES ASSUME Custody, [Next]_vars PROVE Custody'
  OBVIOUS
<1>1. CASE Next
  <2>1. Witness
    BY <1>1 DEF Next
  <2>2. ASSUME NEW c \in Clients, Step(c) PROVE Custody'
    BY <2>1, <2>2, StepGood, StepCustody
  <2>3. ASSUME NEW m \in Modules, Edit(m) PROVE Custody'
    BY <2>1, <2>3, EditCustody
  <2>4. ASSUME NEW n \in Names, Change(n) PROVE Custody'
    BY <2>1, <2>4, ChangeCustody
  <2> QED
    BY <1>1, <2>2, <2>3, <2>4 DEF Next
<1>2. CASE UNCHANGED vars
  <2>1. /\ UNCHANGED <<code, rows, cluster, installs, pc, job, asked, outside>>
        /\ UNCHANGED <<held, unmoved, trusted, sound>>
    BY <1>2 DEF vars, history
  <2>2. Shapes'
    BY <2>1 DEF Custody, Shapes, World
  <2>3. Ops' /\ RowIds'
    BY <2>1 DEF Custody, Ops, RowIds
  <2>4. Held'
    BY <2>1 DEF Custody, Held, HeldOf, Works, There, NameOf
  <2>5. Unmoved' /\ Templates' /\ Records'
    BY <2>1 DEF Custody, Unmoved, Templates, Records, There, NameOf
  <2> QED
    BY <2>2, <2>3, <2>4, <2>5 DEF Custody
<1> QED
  BY <1>1, <1>2

\* In every reachable state an operation nobody interfered with still sees what it
\* saw, sound templates hold what their keys say, and trusted records what their
\* databases have.
THEOREM CustodyHolds == Spec => []Custody
<1>1. Init => Custody
  BY InitCustody
<1>2. Custody /\ [Next]_vars => Custody'
  BY NextCustody
<1> QED
  BY <1>1, <1>2, PTL DEF Spec

\* Every variable stays in its set.
THEOREM TypeCorrect == Spec => []TypeOK
<1>1. Custody => TypeOK
  BY DEF Custody, Shapes, World, Job, Ops, OpsOf, TypeOK
<1> QED
  BY <1>1, CustodyHolds, PTL

-------------------------------------------------------------------------------
(* What operations that answer Ok show *)

\* A step of one client is that client's, and leaves the others where they are.
LEMMA WhoActs ==
  ASSUME Custody, [Next]_vars, NEW c \in Clients, pc'[c] # pc[c]
  PROVE  Step(c) /\ Witness
<1>1. Next
  BY DEF vars
<1>2. Witness
  BY <1>1 DEF Next
<1>3. ASSUME NEW k \in Clients, Step(k) PROVE k = c
  <2>1. Alone(k)
    BY <1>2, <1>3, StepGood DEF Good
  <2> QED
    BY <2>1 DEF Alone
<1>4. ~\E m \in Modules : Edit(m)
  BY DEF Edit
<1>5. ~\E n \in Names : Change(n)
  BY DEF Change
<1> QED
  BY <1>1, <1>2, <1>3, <1>4, <1>5 DEF Next

\* Which steps end an operation well.
LEMMA WhatEnds ==
  ASSUME Custody, [Next]_vars, NEW c \in Clients, Ends(c)
  PROVE  /\ Witness
         /\ \/ Uninstall(c) \/ Record(c) \/ InsertRow(c) \/ Keep(c) \/ Clear(c) \/ AskOdoo(c)
            \/ Neutralize(c) \/ Hash(c) \/ ForgetInstalls(c)
<1>1. pc[c] \in WorkLocs /\ pc'[c] = "ok" /\ pc'[c] # pc[c]
  BY DEF Ends, Works, WorkLocs
<1>2. Step(c) /\ Witness
  BY <1>1, WhoActs
<1>3. pc \in [Clients -> EndLocs \cup WorkLocs]
  BY DEF Custody, Shapes, World
<1>4. ASSUME NEW l, NEW j, With(c, l, j) PROVE l = "ok"
  BY <1>1, <1>3, <1>4 DEF With
<1>5. ASSUME NEW l, Goto(c, l) PROVE l = "ok"
  BY <1>4, <1>5 DEF Goto
<1>6. ~BeginRun(c) /\ ~BeginMake(c) /\ ~BeginRestore(c) /\ ~BeginNeutralize(c) /\ ~BeginDrop(c)
      /\ ~BeginClear(c) /\ ~BeginFreshness(c)
  BY <1>1 DEF BeginRun, BeginMake, BeginRestore, BeginNeutralize, BeginDrop, BeginClear, BeginFreshness,
       Begin, Works
<1>7. ~Run(c) /\ ~Copy(c) /\ ~Create(c) /\ ~Load(c) /\ ~DropDb(c) /\ ~CutShort(c)
      /\ ~NeutralizeFails(c) /\ ~States(c)
  BY <1>5 DEF Run, Copy, Create, Load, DropDb, CutShort, NeutralizeFails, States
<1>8. ~RunFails(c)
  BY <1>4, <1>5 DEF RunFails
<1>9. ~Look(c)
  BY <1>4, <1>5 DEF Look
<1> QED
  BY <1>2, <1>6, <1>7, <1>8, <1>9 DEF Step

\* An operation that answers Ok leaves every module it was asked for at the code on
\* disk, and noted so; a batch never hides the one that failed.
THEOREM OksAreCurrent == Spec => OkMeansCurrent
<1>1. ASSUME Custody, [Next]_vars,
             NEW c \in Clients, Ends(c), job[c].op \in {"install", "upgrade", "batch"}, c \in held,
             NEW m \in job[c].all, code[m] # Absent
      PROVE  /\ cluster[NameOf(c)].inst[m] \in {code[m]} \cup (IF job[c].op = "install" THEN {} ELSE {Absent})
             /\ installs'[job[c].row.id][m] = code[m]
  <2>1. OpsOf(pc[c], job[c]) /\ WorkOf(pc[c], job[c]) /\ job[c] \in Job
    BY <1>1, JobOf
  <2>2. pc[c] \notin {"row", "keep", "clear", "ask", "neutralize", "hash", "forget"}
    BY <1>1, <2>1 DEF OpsOf
  <2>3. Record(c)
    BY <1>1, <2>2, WhatEnds DEF Uninstall, InsertRow, Keep, Clear, AskOdoo, Neutralize, Hash, ForgetInstalls
  <2>4. pc[c] = "record" /\ Remember(c)
    BY <2>3 DEF Record
  <2>5. ~job[c].failed
    <3>1. pc \in [Clients -> EndLocs \cup WorkLocs] /\ pc'[c] = "ok"
      BY <1>1 DEF Custody, Shapes, World, Ends
    <3> QED
      BY <1>1, <2>3, <3>1 DEF Record, Goto, With
  <2>6. m \in job[c].now /\ m \in Modules
    BY <1>1, <2>1, <2>4, <2>5 DEF WorkOf, Job
  <2>7. \/ cluster[NameOf(c)].inst[m] = code[m]
        \/ job[c].op \in {"upgrade", "batch"} /\ cluster[NameOf(c)].inst[m] = Absent
    BY <1>1, <2>4, <2>6 DEF Custody, Held, HeldOf
  <2>8. installs'[job[c].row.id][m] = code[m]
    <3>1. m \in OnDisk(c)
      BY <1>1, <2>6 DEF OnDisk
    <3>2. job[c].row.id \in Ids
      BY <1>1, <2>1, <2>4 DEF OpsOf, WorkLocs, Job, Rows
    <3> QED
      BY <1>1, <2>4, <2>6, <3>1, <3>2 DEF Remember, Custody, Shapes, World
  <2> QED
    BY <2>7, <2>8
<1>2. Custody /\ [Next]_vars =>
        [\A c \in Clients :
           Ends(c) /\ job[c].op \in {"install", "upgrade", "batch"} /\ c \in held =>
             \A m \in job[c].all :
               code[m] # Absent =>
                 /\ cluster[NameOf(c)].inst[m] \in {code[m]} \cup (IF job[c].op = "install" THEN {} ELSE {Absent})
                 /\ installs'[job[c].row.id][m] = code[m]]_vars
  BY <1>1
<1> QED
  BY <1>2, CustodyHolds, PTL DEF Spec, OkMeansCurrent

\* A copy of a template has each module that was asked for as it is on disk.
THEOREM CopiesAreCurrent == Spec => ServedIsCurrent
<1>1. ASSUME Custody, [Next]_vars, NEW c \in Clients,
             pc[c] = "copy", pc'[c] = "row", c \in held, job[c].key \in sound, NEW m \in job[c].all
      PROVE  cluster'[NameOf(c)].inst[m] = code[m]
  <2>1. Step(c)
    BY <1>1, WhoActs
  <2>2. Copy(c)
    <3>1. ~CutShort(c)
      BY <1>1 DEF CutShort, Goto, With, Custody, Shapes, World
    <3>2. Works(c)
      BY <1>1 DEF Works, WorkLocs
    <3> QED
      BY <1>1, <2>1, <3>1, <3>2 DEF Step, BeginRun, BeginMake, BeginRestore, BeginNeutralize, BeginDrop,
           BeginClear, BeginFreshness, Begin, Run, Uninstall, RunFails, Record, Look, Create, InsertRow,
           Keep, Clear, Load, AskOdoo, Neutralize, NeutralizeFails, States, Hash, DropDb, ForgetInstalls
  <2>3. /\ job[c].key \in Keys /\ job[c].key \in [job[c].all -> Code] /\ job[c].op = "make"
        /\ NameOf(c) \in Places
    BY <1>1, MakingOf DEF Places
  <2>4. cluster'[NameOf(c)] = cluster[job[c].key]
    BY <1>1, <2>2, <2>3 DEF Copy, Becomes, Custody, Shapes, World
  <2>5. cluster[job[c].key].inst[m] = job[c].key[m]
    BY <1>1, <2>3 DEF Custody, Templates
  <2>6. job[c].key[m] = code[m]
    BY <1>1, <2>3 DEF Custody, Held, HeldOf
  <2> QED
    BY <2>4, <2>5, <2>6
<1>2. Custody /\ [Next]_vars =>
        [\A c \in Clients :
           pc[c] = "copy" /\ pc'[c] = "row" /\ c \in held /\ job[c].key \in sound =>
             \A m \in job[c].all : cluster'[NameOf(c)].inst[m] = code[m]]_vars
  BY <1>1
<1> QED
  BY <1>2, CustodyHolds, PTL DEF Spec, ServedIsCurrent

\* When module_freshness says Live of a module, the database has the code that is on
\* disk then, if the note was made of what its command did, came with every change
\* of the module in the database, and was not replaced while the answer was put
\* together.
THEOREM LiveMeansLive == Spec => LiveIsLive
<1>1. ASSUME Custody, [Next]_vars, NEW c \in Clients, NEW m \in Modules,
             Ends(c), job[c].op = "freshness",
             cluster[NameOf(c)] # Absent, cluster[NameOf(c)].inst[m] # Absent,
             FreshnessOf(c, m) = "Live",
             <<job[c].row.id, m>> \in trusted, installs[job[c].row.id][m] = job[c].noted[m]
      PROVE  cluster[NameOf(c)].inst[m] = code[m]
  <2>1. job[c].row # Absent
    <3>1. pc[c] \in WorkLocs /\ OpsOf(pc[c], job[c])
      BY <1>1, JobOf DEF Ends, Works
    <3> QED
      BY <1>1, <3>1 DEF OpsOf
  <2>2. job[c].noted[m] = code[m]
    BY <1>1 DEF FreshnessOf
  <2> DEFINE t == <<job[c].row.id, m>>
  <2>3. t \in trusted /\ t[1] = job[c].row.id /\ t[2] = m
    BY <1>1
  <2> HIDE DEF t
  <2>4. PICK r \in rows : /\ r.id = t[1] /\ cluster[r.name] # Absent
                          /\ cluster[r.name].inst[t[2]] \in {installs[t[1]][t[2]], Absent}
    BY <1>1, <2>3 DEF Custody, Records
  <2>5. job[c].row = r
    BY <1>1, <2>1, <2>3, <2>4 DEF Custody, RowIds
  <2> QED
    BY <1>1, <2>2, <2>3, <2>4, <2>5 DEF NameOf
<1>2. Custody /\ [Next]_vars =>
        [\A c \in Clients, m \in Modules :
           /\ Ends(c) /\ job[c].op = "freshness"
           /\ cluster[NameOf(c)] # Absent /\ cluster[NameOf(c)].inst[m] # Absent
           /\ FreshnessOf(c, m) = "Live"
           /\ <<job[c].row.id, m>> \in trusted /\ installs[job[c].row.id][m] = job[c].noted[m]
           => cluster[NameOf(c)].inst[m] = code[m]]_vars
  BY <1>1
<1> QED
  BY <1>2, CustodyHolds, PTL DEF Spec, LiveIsLive
===============================================================================
