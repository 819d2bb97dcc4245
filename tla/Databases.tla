------------------------------ MODULE Databases ------------------------------
(***************************************************************************)
(* The databases of one Odoo (lib.rs, pg_admin.rs, filestore.rs, db.rs):   *)
(* what this app writes down about them, what the cluster holds, and the   *)
(* attachments on disk.  Every operation is a chain of commands and row    *)
(* writes with nothing around it, no lock and no transaction, so any two   *)
(* operations interleave between any two steps, a command may fail, and an *)
(* operation may end between two steps (the app dies, or the web server    *)
(* drops the handler whose client left).                                   *)
(***************************************************************************)
EXTENDS Naturals, FiniteSets

CONSTANTS
  Calls,        \* the operations clients ask for, one each
  Names,        \* names databases are given
  Attachments,  \* files users may attach
  Home,         \* the database that is there at first: its name,
  First,        \* and the id of its row
  Into,         \* the name plan_upgrade derives for the working copy of a database
  Absent,       \* no such database, folder or file
  Faults,       \* which failures the environment produces
  MaxInFlight,  \* how many operations may overlap
  MaxBeside,    \* how many of them may overlap an upgrade, the longest of all;
                \* further ones run alone, while no more than that were cut
  Hops          \* how many versions an upgrade has to pass

\* cut: an operation ends half way, by a command that fails, by the end of the
\* app, or because its handler is dropped; tidy: a folder cannot be removed.
FaultKinds == {"cut", "tidy"}


VARIABLES
  databases,  \* the rows: [id, name]
  snapshots,  \* the rows: [id, of, files]; the database is named by the id
  cluster,    \* what PostgreSQL has under each name
  files,      \* the filestore folder of each name, live or snapshot
  dumps,      \* <name>-<id>.sql in the backups folder, one name per row
  dumpFiles,  \* <name>-<id>.filestore beside it
  backedUp,   \* rows with a last_backup_at
  report,     \* what the latest reconciliation said
  pc,         \* where each operation is
  job,        \* its arguments and what it keeps across its awaits
  calm,       \* history: operations took turns, and each one succeeded
  clashed     \* history: names that two operations were at work on at once

disk == <<cluster, files, dumps, dumpFiles>>
book == <<databases, snapshots, backedUp, report>>
past == <<calm, clashed>>
vars == <<disk, book, pc, job, past>>

Ids     == Calls \cup {First}
SnapIds == Calls \X (0 .. Hops - 1)
Places  == Names \cup SnapIds

\* A database: the attachments its rows point at, the Odoo it belongs to, and
\* whether it comes from a copy that leaves the attachments behind.
Contents == [att: SUBSET Attachments, version: 0 .. Hops, mixed: BOOLEAN, bare: BOOLEAN]
Empty    == [att |-> {}, version |-> 0, mixed |-> FALSE, bare |-> FALSE]

Rows     == [id: Ids, name: Places]
SnapRows == [id: SnapIds, of: Ids, files: BOOLEAN]

\* A snapshot's name is derived from a fresh id, so no database is given one.
ASSUME ConstantsAssumption ==
  /\ Home \in Names
  /\ DOMAIN Into \subseteq Places /\ Into \in [DOMAIN Into -> Names]
  /\ \A n \in DOMAIN Into : Into[n] # n
  /\ First \notin Calls
  /\ Names \cap SnapIds = {}
  /\ Absent \notin Contents \cup Rows \cup SnapRows \cup Places
  /\ \A A \in SUBSET Attachments : A # Absent
  /\ Faults \subseteq FaultKinds
  /\ MaxInFlight \in Nat \ {0} /\ MaxBeside \in Nat
  /\ Hops \in Nat \ {0}

OpKinds  == {"create", "restore", "duplicate", "adopt", "forget", "drop", "backup",
             "snapshot", "unsnapshot", "revert", "upgrade", "reconcile"}
WorkLocs == {"createDb", "replay", "insertRow", "restoreFiles", "copyDb", "lookup",
             "checkKnown", "dropDb", "dropFiles", "dropRow", "dump", "copyFiles", "mark",
             "snapDb", "snapFiles", "snapRow", "unsnapDb", "unsnapFiles", "unsnapRow",
             "dropLive", "copyBack", "removeFiles", "linkFiles", "hop", "askCluster"}
EndLocs  == {"done", "cut"}

AttOf(d)   == IF d = Absent THEN {} ELSE d.att
FilesOf(f) == IF f = Absent THEN {} ELSE f

\* What a request carries; `was' and `base' are history: the attachments of the
\* database a revert was asked for, and what an upgrade copied.
Asked(op, row, name, snap) ==
  [op |-> op, row |-> row, name |-> name, snap |-> snap, undo |-> FALSE, took |-> FALSE,
   hop |-> 0, tracked |-> {}, ours |-> {}, was |-> {}, base |-> Absent]

NoJob == Asked("forget", Absent, Absent, Absent)

InFlight == {c \in Calls : pc[c] \in WorkLocs}
Begun    == {c \in Calls : pc[c] # "idle"}

TypeOK ==
  /\ databases \subseteq Rows
  /\ snapshots \subseteq SnapRows
  /\ cluster \in [Places -> Contents \cup {Absent}]
  /\ files \in [Places -> (SUBSET Attachments) \cup {Absent}]
  /\ dumps \in [Ids -> Contents \cup {Absent}]
  /\ dumpFiles \in [Ids -> (SUBSET Attachments) \cup {Absent}]
  /\ backedUp \subseteq Ids
  /\ report \in [untracked: SUBSET Places, missing: SUBSET Rows]
  /\ pc \in [Calls -> {"idle"} \cup WorkLocs \cup EndLocs]
  /\ job \in [Calls -> [op: OpKinds, row: Rows \cup {Absent}, name: Places \cup {Absent},
                        snap: SnapRows \cup {Absent}, undo: BOOLEAN, took: BOOLEAN,
                        hop: 0 .. Hops - 1, tracked: SUBSET Rows,
                        ours: SUBSET SnapIds, was: SUBSET Attachments,
                        base: Contents \cup {Absent}]]
  /\ calm \in BOOLEAN
  /\ clashed \subseteq Places

Init ==
  /\ databases = {[id |-> First, name |-> Home]}
  /\ snapshots = {}
  /\ cluster = [n \in Places |-> IF n = Home THEN Empty ELSE Absent]
  /\ files = [n \in Places |-> Absent]
  /\ dumps = [i \in Ids |-> Absent]
  /\ dumpFiles = [i \in Ids |-> Absent]
  /\ backedUp = {}
  /\ report = [untracked |-> {}, missing |-> {}]
  /\ pc = [c \in Calls |-> "idle"]
  /\ job = [c \in Calls |-> NoJob]
  /\ calm = TRUE
  /\ clashed = {}

-------------------------------------------------------------------------------
(* The rows (db.rs): one statement under one lock each *)

GetDatabase(id)    == {d \in databases : d.id = id}
InsertDatabase(d)  == databases' = databases \cup {d}
DeleteDatabase(id) == databases' = {d \in databases : d.id # id}
MarkBackedUp(id)   == backedUp' = IF GetDatabase(id) = {} THEN backedUp ELSE backedUp \cup {id}
InsertSnapshot(s)  == snapshots' = snapshots \cup {s}
DeleteSnapshot(id) == snapshots' = {s \in snapshots : s.id # id}

(* The cluster (pg_admin.rs): each command succeeds or changes nothing *)

DatabaseExists(n)   == cluster[n] # Absent
CanCreate(n)        == cluster[n] = Absent
CreateDatabase(n)   == cluster' = [cluster EXCEPT ![n] = Empty]
DropDatabase(n)     == cluster' = [cluster EXCEPT ![n] = Absent]
CanDuplicate(s, n)  == cluster[s] # Absent /\ cluster[n] = Absent
DuplicateDatabase(s, n) == cluster' = [cluster EXCEPT ![n] = cluster[s]]

ListClusterDatabases == {n \in Places : DatabaseExists(n)}

(* Folders (filestore.rs): none is copied over another *)

CanSnapshotDirectory(s, n) == files[s] # Absent /\ files[n] = Absent
SnapshotDirectory(s, n)    == files' = [files EXCEPT ![n] = files[s]]
CanCopyDirectory(from, to) == from # Absent /\ to = Absent
LeavesPart(n, f)           == f # Absent /\ \E part \in SUBSET f : files' = [files EXCEPT ![n] = part]
RemoveDirectory(n)         == files' = [files EXCEPT ![n] = Absent]

\* Snapshots have their folders elsewhere: a database adopted under a snapshot's
\* name does not find that one where its own would be.
LiveFolder(n)       == IF n \in Names THEN files[n] ELSE Absent
RemoveLiveFolder(n) == files' = [files EXCEPT ![n] = IF n \in Names THEN Absent ELSE @]

-------------------------------------------------------------------------------
Goto(c, l) == pc' = [pc EXCEPT ![c] = l]

\* The database an operation takes a snapshot of: an upgrade's is its copy.
Source(c) == IF job[c].op = "upgrade" THEN [id |-> c, name |-> job[c].name] ELSE job[c].row
SnapId(c) == <<c, job[c].hop>>

\* What the step an operation is at needs; without it the step is an error.
Possible(c) ==
  LET j == job[c] IN
  CASE pc[c] = "createDb"     -> CanCreate(j.name)
    [] pc[c] = "replay"       -> DatabaseExists(j.name) /\ dumps[j.row.id] # Absent
    [] pc[c] = "restoreFiles" -> \/ dumpFiles[j.row.id] = Absent
                                 \/ /\ CanCopyDirectory(dumpFiles[j.row.id], files[j.name])
                                    /\ GetDatabase(c) # {}
    [] pc[c] = "copyDb"       -> CanDuplicate(j.row.name, j.name)
    [] pc[c] = "lookup"       -> DatabaseExists(j.name)
    [] pc[c] = "checkKnown"   -> \A d \in databases : d.name # j.name
    [] pc[c] = "dump"         -> DatabaseExists(j.row.name)
    [] pc[c] = "copyFiles"    -> /\ GetDatabase(j.row.id) # {}
                                 /\ \/ LiveFolder(j.row.name) = Absent
                                    \/ CanCopyDirectory(LiveFolder(j.row.name), dumpFiles[j.row.id])
    [] pc[c] = "snapDb"       -> /\ Source(c) \in databases
                                 /\ CanDuplicate(Source(c).name, SnapId(c))
    [] pc[c] = "snapFiles"    -> /\ Source(c) \in databases
                                 /\ \/ LiveFolder(Source(c).name) = Absent
                                    \/ files[SnapId(c)] = Absent
    [] pc[c] = "unsnapFiles"  -> files[j.snap.id] # Absent
    [] pc[c] = "copyBack"     -> CanDuplicate(j.snap.id, j.row.name)
    [] pc[c] = "linkFiles"    -> CanSnapshotDirectory(j.snap.id, j.row.name)
    [] pc[c] = "hop"          -> DatabaseExists(j.name)
    [] OTHER                  -> TRUE

At(c, l) == pc[c] = l /\ Possible(c)

\* The names a request is about, and those of the snapshots it may take.
On(c, j) ==
  {n \in Places : \/ j.row # Absent /\ n = j.row.name
                  \/ n = j.name
                  \/ j.snap # Absent /\ n = j.snap.id
                  \/ n \in {<<c, k>> : k \in 0 .. Hops - 1}}

\* An operation starts: the rows it was asked about were found.
Begin(c, l, j) ==
  /\ pc[c] = "idle"
  /\ Cardinality(InFlight) < MaxInFlight
  /\ "upgrade" \in {j.op} \cup {job[e].op : e \in Begun} =>
       \/ Cardinality(Begun) <= MaxBeside
       \/ InFlight = {} /\ Cardinality({e \in Begun : pc[e] = "cut"}) <= MaxBeside
  /\ Goto(c, l)
  /\ job' = [job EXCEPT ![c] = j]
  /\ calm' = (calm /\ InFlight = {})
  /\ clashed' = clashed \cup {n \in On(c, j) : \E e \in InFlight : n \in On(e, job[e])}

BeginCreate(c) ==
  /\ \E n \in Names : Begin(c, "createDb", Asked("create", Absent, n, Absent))
  /\ UNCHANGED <<disk, book>>

BeginRestore(c) ==
  /\ \E i \in Ids, n \in Names :
       /\ dumps[i] # Absent
       /\ Begin(c, "createDb", Asked("restore", [id |-> i, name |-> n], n, Absent))
  /\ UNCHANGED <<disk, book>>

BeginDuplicate(c) ==
  /\ \E d \in databases, n \in Names :
       Begin(c, "copyDb", Asked("duplicate", d, n, Absent))
  /\ UNCHANGED <<disk, book>>

\* A chain of hops that is not empty: plan_upgrade found a path.
BeginUpgrade(c) ==
  /\ \E d \in databases :
       /\ d.name \in DOMAIN Into
       /\ Begin(c, "copyDb", Asked("upgrade", d, Into[d.name], Absent))
  /\ UNCHANGED <<disk, book>>

\* Any name may be sent, reported or not, also that of a snapshot's database.
BeginAdopt(c) ==
  /\ \E n \in Names \cup ListClusterDatabases : Begin(c, "lookup", Asked("adopt", Absent, n, Absent))
  /\ UNCHANGED <<disk, book>>

BeginDrop(c) ==
  /\ \E d \in databases : Begin(c, "dropDb", Asked("drop", d, Absent, Absent))
  /\ UNCHANGED <<disk, book>>

BeginBackup(c) ==
  /\ \E d \in databases : Begin(c, "dump", Asked("backup", d, Absent, Absent))
  /\ UNCHANGED <<disk, book>>

BeginSnapshot(c) ==
  /\ \E d \in databases : Begin(c, "snapDb", Asked("snapshot", d, Absent, Absent))
  /\ UNCHANGED <<disk, book>>

BeginUnsnapshot(c) ==
  /\ \E s \in snapshots : Begin(c, "unsnapDb", Asked("unsnapshot", Absent, Absent, s))
  /\ UNCHANGED <<disk, book>>

\* Mutant: the live database is dropped first, and the counter-snapshot is left
\* to whatever remains.
BeginRevertBlindly(c) ==
  /\ \E d \in databases, s \in snapshots, u \in BOOLEAN :
       /\ s.of = d.id
       /\ Begin(c, "dropLive",
                [Asked("revert", d, Absent, s) EXCEPT !.undo = u, !.was = AttOf(cluster[d.name])])
  /\ UNCHANGED <<disk, book>>

BeginRevert(c) ==
  /\ \E d \in databases, s \in snapshots, u \in BOOLEAN :
       /\ s.of = d.id
       /\ Begin(c, IF u THEN "snapDb" ELSE "dropLive",
                [Asked("revert", d, Absent, s) EXCEPT !.undo = u, !.was = AttOf(cluster[d.name])])
  /\ UNCHANGED <<disk, book>>

\* Rows are read here, the cluster is asked later.
BeginReconcile(c) ==
  /\ Begin(c, "askCluster",
           [Asked("reconcile", Absent, Absent, Absent) EXCEPT
              !.tracked = databases, !.ours = {s.id : s \in snapshots}])
  /\ UNCHANGED <<disk, book>>

\* The row goes and PostgreSQL is not touched, nor asked whether the database is gone.
Forget(c) ==
  /\ \E d \in databases :
       /\ Begin(c, "done", Asked("forget", d, Absent, Absent))
       /\ DeleteDatabase(d.id)
  /\ UNCHANGED <<disk, snapshots, backedUp, report>>

-------------------------------------------------------------------------------
(* create, restore, duplicate, adopt *)

CreateDb(c) ==
  /\ At(c, "createDb")
  /\ CreateDatabase(job[c].name)
  /\ Goto(c, IF job[c].op = "restore" THEN "replay" ELSE "insertRow")
  /\ UNCHANGED <<files, dumps, dumpFiles, book, job, past>>

\* psql replays the dump; statements that fail do not make it fail.
Replay(c) ==
  /\ At(c, "replay")
  /\ LET dump == dumps[job[c].row.id] IN
     cluster' = [cluster EXCEPT ![job[c].name] = [dump EXCEPT !.att = @ \cup cluster[job[c].name].att]]
  /\ Goto(c, "insertRow")
  /\ UNCHANGED <<files, dumps, dumpFiles, book, job, past>>

\* Mutant: the first hop needs no checkpoint.
InsertRowUnchecked(c) ==
  /\ At(c, "insertRow")
  /\ InsertDatabase([id |-> c, name |-> job[c].name])
  /\ Goto(c, CASE job[c].op = "restore" -> "restoreFiles"
               [] job[c].op = "upgrade" -> "hop"
               [] OTHER                 -> "done")
  /\ UNCHANGED <<disk, snapshots, backedUp, report, job, past>>

\* Nothing asks whether another row has the name.
InsertRow(c) ==
  /\ At(c, "insertRow")
  /\ InsertDatabase([id |-> c, name |-> job[c].name])
  /\ Goto(c, CASE job[c].op = "restore" -> "restoreFiles"
               [] job[c].op = "upgrade" -> "snapDb"
               [] OTHER                 -> "done")
  /\ UNCHANGED <<disk, snapshots, backedUp, report, job, past>>

\* copy_directory refuses a folder that is there already.
RestoreFiles(c) ==
  /\ At(c, "restoreFiles")
  /\ files' = IF dumpFiles[job[c].row.id] = Absent THEN files
              ELSE [files EXCEPT ![job[c].name] = dumpFiles[job[c].row.id]]
  /\ Goto(c, "done")
  /\ UNCHANGED <<cluster, dumps, dumpFiles, book, job, past>>

\* The database alone: its attachments are not copied.
CopyDb(c) ==
  /\ At(c, "copyDb")
  /\ cluster' = [cluster EXCEPT ![job[c].name] = [cluster[job[c].row.name] EXCEPT !.bare = TRUE]]
  /\ job' = [job EXCEPT ![c].base = cluster'[job[c].name]]
  /\ Goto(c, "insertRow")
  /\ UNCHANGED <<files, dumps, dumpFiles, book, past>>

Lookup(c) ==
  /\ At(c, "lookup")
  /\ Goto(c, "checkKnown")
  /\ UNCHANGED <<disk, book, job, past>>

CheckKnown(c) ==
  /\ At(c, "checkKnown")
  /\ Goto(c, "insertRow")
  /\ UNCHANGED <<disk, book, job, past>>

(* drop *)

DropDb(c) ==
  /\ At(c, "dropDb")
  /\ DropDatabase(job[c].row.name)
  /\ Goto(c, "dropFiles")
  /\ UNCHANGED <<files, dumps, dumpFiles, book, job, past>>

\* Not fatal: the folder, or some of it, may stay.
DropFiles(c) ==
  /\ At(c, "dropFiles")
  /\ \/ RemoveLiveFolder(job[c].row.name) /\ UNCHANGED past
     \/ /\ "tidy" \in Faults
        /\ LeavesPart(job[c].row.name, LiveFolder(job[c].row.name))
        /\ calm' = FALSE /\ UNCHANGED clashed
  /\ Goto(c, "dropRow")
  /\ UNCHANGED <<cluster, dumps, dumpFiles, book, job>>

\* Mutant: the row is kept.
DropRowKept(c) ==
  /\ At(c, "dropRow")
  /\ Goto(c, "done")
  /\ UNCHANGED <<disk, book, job, past>>

DropRow(c) ==
  /\ At(c, "dropRow")
  /\ DeleteDatabase(job[c].row.id)
  /\ Goto(c, "done")
  /\ UNCHANGED <<disk, snapshots, backedUp, report, job, past>>

(* backup *)

Dump(c) ==
  /\ At(c, "dump")
  /\ dumps' = [dumps EXCEPT ![job[c].row.id] = cluster[job[c].row.name]]
  /\ Goto(c, "copyFiles")
  /\ UNCHANGED <<cluster, files, dumpFiles, book, job, past>>

\* A dump that fails may leave a truncated file where the last one was.
DumpTruncated(c) ==
  /\ pc[c] = "dump"
  /\ "cut" \in Faults
  /\ dumps' = [dumps EXCEPT ![job[c].row.id] = Empty]
  /\ Goto(c, "cut")
  /\ calm' = FALSE
  /\ UNCHANGED <<cluster, files, dumpFiles, book, job, clashed>>

\* The folder of an earlier backup is not replaced: that is an error.
CopyFiles(c) ==
  /\ At(c, "copyFiles")
  /\ LET folder == LiveFolder(job[c].row.name) IN
     dumpFiles' = IF folder = Absent THEN dumpFiles ELSE [dumpFiles EXCEPT ![job[c].row.id] = folder]
  /\ Goto(c, "mark")
  /\ UNCHANGED <<cluster, files, dumps, book, job, past>>

Mark(c) ==
  /\ At(c, "mark")
  /\ MarkBackedUp(job[c].row.id)
  /\ Goto(c, "done")
  /\ UNCHANGED <<disk, databases, snapshots, report, job, past>>

(* snapshot, also as a revert's counter-snapshot and an upgrade's checkpoint *)

SnapDb(c) ==
  /\ At(c, "snapDb")
  /\ DuplicateDatabase(Source(c).name, SnapId(c))
  /\ Goto(c, "snapFiles")
  /\ UNCHANGED <<files, dumps, dumpFiles, book, job, past>>

SnapFiles(c) ==
  /\ At(c, "snapFiles")
  /\ job' = [job EXCEPT ![c].took = (LiveFolder(Source(c).name) # Absent)]
  /\ IF LiveFolder(Source(c).name) = Absent THEN UNCHANGED files
     ELSE SnapshotDirectory(Source(c).name, SnapId(c))
  /\ Goto(c, "snapRow")
  /\ UNCHANGED <<cluster, dumps, dumpFiles, book, past>>

\* Mutants: the name of the source where its id belongs; a copy without a row.
SnapRowByName(c) ==
  /\ At(c, "snapRow")
  /\ InsertSnapshot([id |-> SnapId(c), of |-> Source(c).name, files |-> job[c].took])
  /\ Goto(c, "done")
  /\ UNCHANGED <<disk, databases, backedUp, report, job, past>>

SnapRowForgotten(c) ==
  /\ At(c, "snapRow")
  /\ Goto(c, "done")
  /\ UNCHANGED <<disk, book, job, past>>

SnapRow(c) ==
  /\ At(c, "snapRow")
  /\ InsertSnapshot([id |-> SnapId(c), of |-> Source(c).id, files |-> job[c].took])
  /\ Goto(c, CASE job[c].op = "revert"  -> "dropLive"
               [] job[c].op = "upgrade" -> "hop"
               [] OTHER                 -> "done")
  /\ UNCHANGED <<disk, databases, backedUp, report, job, past>>

UnsnapDb(c) ==
  /\ At(c, "unsnapDb")
  /\ DropDatabase(job[c].snap.id)
  /\ Goto(c, IF job[c].snap.files THEN "unsnapFiles" ELSE "unsnapRow")
  /\ UNCHANGED <<files, dumps, dumpFiles, book, job, past>>

\* A folder that is gone already is an error.
UnsnapFiles(c) ==
  /\ At(c, "unsnapFiles")
  /\ RemoveDirectory(job[c].snap.id)
  /\ Goto(c, "unsnapRow")
  /\ UNCHANGED <<cluster, dumps, dumpFiles, book, job, past>>

UnsnapRow(c) ==
  /\ At(c, "unsnapRow")
  /\ DeleteSnapshot(job[c].snap.id)
  /\ Goto(c, "done")
  /\ UNCHANGED <<disk, databases, backedUp, report, job, past>>

(* revert *)

DropLive(c) ==
  /\ At(c, "dropLive")
  /\ DropDatabase(job[c].row.name)
  /\ Goto(c, "copyBack")
  /\ UNCHANGED <<files, dumps, dumpFiles, book, job, past>>

CopyBack(c) ==
  /\ At(c, "copyBack")
  /\ DuplicateDatabase(job[c].snap.id, job[c].row.name)
  /\ Goto(c, IF job[c].snap.files THEN "removeFiles" ELSE "done")
  /\ UNCHANGED <<files, dumps, dumpFiles, book, job, past>>

RemoveFiles(c) ==
  /\ At(c, "removeFiles")
  /\ RemoveLiveFolder(job[c].row.name)
  /\ Goto(c, "linkFiles")
  /\ UNCHANGED <<cluster, dumps, dumpFiles, book, job, past>>

LinkFiles(c) ==
  /\ At(c, "linkFiles")
  /\ SnapshotDirectory(job[c].snap.id, job[c].row.name)
  /\ Goto(c, "done")
  /\ UNCHANGED <<cluster, dumps, dumpFiles, book, job, past>>

(* upgrade *)

\* Mutant: a hop runs where the upgrade was asked for, not on the copy.
HopOnOriginal(c) ==
  /\ At(c, "hop")
  /\ cluster' = [cluster EXCEPT ![job[c].row.name] =
                   IF @ = Absent THEN @ ELSE [@ EXCEPT !.version = job[c].hop + 1]]
  /\ IF job[c].hop + 1 < Hops
     THEN Goto(c, "snapDb") /\ job' = [job EXCEPT ![c].hop = @ + 1, ![c].took = FALSE]
     ELSE Goto(c, "done") /\ UNCHANGED job
  /\ UNCHANGED <<files, dumps, dumpFiles, book, past>>

Hop(c) ==
  /\ At(c, "hop")
  /\ cluster' = [cluster EXCEPT ![job[c].name].version = job[c].hop + 1]
  /\ IF job[c].hop + 1 < Hops
     THEN Goto(c, "snapDb") /\ job' = [job EXCEPT ![c].hop = @ + 1, ![c].took = FALSE]
     ELSE Goto(c, "done") /\ UNCHANGED job
  /\ UNCHANGED <<files, dumps, dumpFiles, book, past>>

\* A hop that fails half way leaves a database that is neither version, and
\* names its checkpoint.
HopFails(c) ==
  /\ At(c, "hop")
  /\ "cut" \in Faults
  /\ Goto(c, "cut")
  /\ cluster' = [cluster EXCEPT ![job[c].name].mixed = TRUE]
  /\ job' = [job EXCEPT ![c].snap = [id |-> SnapId(c), of |-> c, files |-> job[c].took]]
  /\ calm' = FALSE
  /\ UNCHANGED <<files, dumps, dumpFiles, book, clashed>>

(* reconcile *)

NamesOf(R) == {d.name : d \in R}
Reports(c, found, gone) ==
  /\ report' = [untracked |-> found, missing |-> gone]
  /\ Goto(c, "done")
  /\ job' = [job EXCEPT ![c] = Asked("reconcile", Absent, Absent, Absent)]
  /\ UNCHANGED <<disk, databases, snapshots, backedUp>>

\* Mutant: snapshot databases are reported as strays.
AskClusterForAll(c) ==
  /\ At(c, "askCluster")
  /\ LET there == ListClusterDatabases IN
     Reports(c, there \ NamesOf(job[c].tracked), {d \in job[c].tracked : d.name \notin there})
  /\ UNCHANGED past

AskCluster(c) ==
  /\ At(c, "askCluster")
  /\ LET there == ListClusterDatabases IN
     Reports(c, there \ (NamesOf(job[c].tracked) \cup job[c].ours),
             {d \in job[c].tracked : d.name \notin there})
  /\ UNCHANGED past

\* A cluster that cannot be asked is reported as unchecked, not as empty.
Unchecked(c) ==
  /\ At(c, "askCluster")
  /\ "cut" \in Faults
  /\ Reports(c, {}, {})
  /\ calm' = FALSE
  /\ UNCHANGED clashed

-------------------------------------------------------------------------------
(* What goes wrong, and what users do meanwhile *)

\* A step without what it needs, a command that fails, the end of the app or of
\* the handler: what the operation did before stays.  A command whose handler is
\* gone still ends, so that is the same as its step and then this one.
CutShort(c) ==
  /\ c \in InFlight
  /\ "cut" \in Faults \/ ~Possible(c)
  /\ Goto(c, "cut")
  /\ calm' = FALSE
  /\ UNCHANGED <<disk, book, job, clashed>>

\* Copying or removing a folder stops half way: some of the files are there.
FolderPartly(c) ==
  /\ "cut" \in Faults
  /\ \/ At(c, "snapFiles")    /\ LeavesPart(SnapId(c), LiveFolder(Source(c).name))
     \/ At(c, "linkFiles")    /\ LeavesPart(job[c].row.name, files[job[c].snap.id])
     \/ At(c, "restoreFiles") /\ LeavesPart(job[c].name, dumpFiles[job[c].row.id])
     \/ At(c, "removeFiles")  /\ LeavesPart(job[c].row.name, LiveFolder(job[c].row.name))
     \/ At(c, "unsnapFiles")  /\ LeavesPart(job[c].snap.id, files[job[c].snap.id])
  /\ Goto(c, "cut")
  /\ calm' = FALSE
  /\ UNCHANGED <<cluster, dumps, dumpFiles, book, job, clashed>>

BackupPartly(c) ==
  /\ At(c, "copyFiles")
  /\ "cut" \in Faults
  /\ \E part \in SUBSET FilesOf(LiveFolder(job[c].row.name)) :
       dumpFiles' = [dumpFiles EXCEPT ![job[c].row.id] = part]
  /\ LiveFolder(job[c].row.name) # Absent
  /\ Goto(c, "cut")
  /\ calm' = FALSE
  /\ UNCHANGED <<cluster, files, dumps, book, job, clashed>>

\* Odoo stores a new attachment of a database this app lists; the folder of one
\* adopted under a snapshot's name is left out.
Attach(n) ==
  /\ DatabaseExists(n)
  /\ \E d \in databases : d.name = n
  /\ \E a \in Attachments :
       /\ a \notin UNION {AttOf(cluster[m]) \cup FilesOf(files[m]) : m \in Places}
       /\ a \notin UNION {AttOf(dumps[i]) \cup FilesOf(dumpFiles[i]) : i \in Ids}
       /\ cluster' = [cluster EXCEPT ![n].att = @ \cup {a}]
       /\ files' = [files EXCEPT ![n] = IF n \in Names THEN FilesOf(@) \cup {a} ELSE @]
  /\ calm' = (calm /\ \A c \in InFlight : job[c].op # "revert")
  /\ UNCHANGED <<dumps, dumpFiles, book, pc, job, clashed>>

Request(c) ==
  \/ BeginCreate(c)
  \/ BeginRestore(c)
  \/ BeginDuplicate(c)
  \/ BeginUpgrade(c)
  \/ BeginAdopt(c)
  \/ BeginDrop(c)
  \/ BeginBackup(c)
  \/ BeginSnapshot(c)
  \/ BeginUnsnapshot(c)
  \/ BeginRevert(c)
  \/ BeginReconcile(c)
  \/ Forget(c)

Proceed(c) ==
  \/ CreateDb(c)
  \/ Replay(c)
  \/ InsertRow(c)
  \/ RestoreFiles(c)
  \/ CopyDb(c)
  \/ Lookup(c)
  \/ CheckKnown(c)
  \/ DropDb(c)
  \/ DropFiles(c)
  \/ DropRow(c)
  \/ Dump(c)
  \/ CopyFiles(c)
  \/ Mark(c)
  \/ SnapDb(c)
  \/ SnapFiles(c)
  \/ SnapRow(c)
  \/ UnsnapDb(c)
  \/ UnsnapFiles(c)
  \/ UnsnapRow(c)
  \/ DropLive(c)
  \/ CopyBack(c)
  \/ RemoveFiles(c)
  \/ LinkFiles(c)
  \/ Hop(c)
  \/ AskCluster(c)

Next ==
  \/ \E c \in Calls :
       \/ Request(c) \/ Proceed(c)
       \/ CutShort(c) \/ FolderPartly(c) \/ BackupPartly(c) \/ DumpTruncated(c) \/ HopFails(c) \/ Unchecked(c)
  \/ \E n \in Places : Attach(n)

Spec == Init /\ [][Next]_vars

-------------------------------------------------------------------------------
(* Properties *)

Unfinished(c) == pc[c] \in WorkLocs \cup {"cut"}

\* An operation that takes the database of that name away; a revert that ended
\* well has put another in its place.
Touches(c, n) ==
  \/ job[c].op \in {"drop", "revert"} /\ job[c].row.name = n
  \/ job[c].op = "unsnapshot" /\ job[c].snap.id = n

Removes(c, n) == Touches(c, n) /\ (job[c].op = "revert" => Unfinished(c))

\* An operation that has made the database of that name and has not ended well.
Makes(c, n) ==
  /\ Unfinished(c)
  /\ \/ job[c].op \in {"create", "restore", "duplicate", "upgrade"} /\ job[c].name = n
     \/ job[c].op \in {"snapshot", "revert", "upgrade"} /\ n \in {<<c, k>> : k \in 0 .. Hops - 1}

\* lib.rs promises of create that "real Postgres state and the metadata row never
\* disagree".  They do: a drop that ends between dropdb and its row leaves the row; the
\* name is free, so a create of it returns Ok and there are two rows, and a drop of
\* either returns Ok and leaves the other without a database.  But operations on that
\* name that took turns and all returned Ok never leave a row without its database: one
\* of them is under way or was cut, two of them overlapped (a drop may then take what
\* another has just made), or the row adopted a snapshot, which was deleted; nor a
\* snapshot without its database or folder, unless that was adopted and dropped.
RowsHaveDatabases ==
  /\ \A d \in databases :
       ~DatabaseExists(d.name) =>
         \E c \in Calls :
           /\ Touches(c, d.name)
           /\ Unfinished(c) \/ d.name \in clashed \/ job[c].op = "unsnapshot"
  /\ \A s \in snapshots :
       ~DatabaseExists(s.id) \/ (s.files /\ files[s.id] = Absent) =>
         \E c \in Calls : Touches(c, s.id) /\ (Unfinished(c) \/ job[c].op = "drop")

\* The other direction: a database nobody tracks was left by an operation that
\* did not get to write its row, or lost its row to a drop, a delete or a forget
\* of another row of that name.
DatabasesHaveRows ==
  \A n \in Places :
    DatabaseExists(n) =>
      \/ n \in NamesOf(databases) \cup {s.id : s \in snapshots}
      \/ \E c \in Calls : Makes(c, n) \/ Removes(c, n)
      \/ \E c \in Calls : pc[c] = "done" /\ job[c].op = "forget" /\ job[c].row.name = n

\* The counter-snapshot is real before anything is destroyed: what the live
\* database held when the revert was asked for is live, or in that snapshot,
\* however the revert ends; unless another operation takes either away.
RevertCanBeUndone ==
  \A c \in Calls :
    job[c].op = "revert" /\ job[c].undo =>
      \/ job[c].was \subseteq AttOf(cluster[job[c].row.name])
      \/ job[c].was \subseteq AttOf(cluster[<<c, 0>>])
      \/ \E e \in Calls \ {c} : Touches(e, job[c].row.name) \/ Touches(e, <<c, 0>>)

\* The version the working copy has before the hop that is next.
FoundAt(c) == IF job[c].hop = 0 THEN job[c].base.version ELSE job[c].hop

\* The only way back from a hop that failed is its checkpoint: a snapshot, with a
\* row, of the working copy as the hop found it: at the version the hop before left,
\* or as it was copied, and not half way through; unless somebody deletes it, or drops
\* or reverts the copy while the upgrade works on it.
UpgradeHasWayBack ==
  \A c \in Calls :
    job[c].op = "upgrade" /\ job[c].snap # Absent =>
      \/ /\ job[c].snap \in snapshots
         /\ DatabaseExists(job[c].snap.id)
         /\ cluster[job[c].snap.id].version = FoundAt(c)
         /\ cluster[job[c].snap.id].mixed = job[c].base.mixed
      \/ \E e \in Calls : Touches(e, SnapId(c)) \/ Touches(e, job[c].name)

\* "The original database has not been touched at any point": no step of an
\* upgrade changes the database it was asked for, nor its files.
UpgradeSparesOriginal ==
  [][\A c \in Calls :
       job[c].op = "upgrade" /\ pc[c] \in WorkLocs /\ pc'[c] # pc[c] =>
         /\ cluster'[job[c].row.name] = cluster[job[c].row.name]
         /\ files'[job[c].row.name] = files[job[c].row.name]]_vars

\* The databases a forget has left behind, and whether a snapshot was adopted as one.
Forgotten       == {job[c].row.name : c \in {e \in Begun : job[e].op = "forget"}}
SnapshotAdopted == \E c \in Begun : job[c].op = "adopt" /\ job[c].name \in SnapIds

\* "Put it back exactly as it was": when operations take turns and succeed, every row
\* and snapshot has its database and every other database is one somebody forgot, which
\* is all a reconciliation reports; every attachment a database or a snapshot points at
\* is in its own folder (copies made without files excepted), and a dump has its files.
\* A snapshot adopted as a database breaks this: who drops one takes away the other.
RestIsCoherent ==
  calm /\ InFlight = {} /\ ~SnapshotAdopted =>
    /\ NamesOf(databases) \cup {s.id : s \in snapshots} \subseteq ListClusterDatabases
    /\ ListClusterDatabases \subseteq NamesOf(databases) \cup {s.id : s \in snapshots} \cup Forgotten
    /\ \A n \in Places :
         DatabaseExists(n) /\ ~cluster[n].bare => cluster[n].att \subseteq FilesOf(files[n])
    /\ \A n \in Places : ~DatabaseExists(n) => files[n] = Absent
    /\ \A i \in backedUp :
         ~dumps[i].bare => dumps[i].att \subseteq FilesOf(dumpFiles[i])
    /\ report.untracked \subseteq Forgotten /\ report.missing = {}

=============================================================================
