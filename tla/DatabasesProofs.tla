--------------------------- MODULE DatabasesProofs ---------------------------
(***************************************************************************)
(* What holds of Databases for any operations, names, attachments, faults  *)
(* and bounds.  Operations interleave freely and end anywhere, so little   *)
(* is true of a database while one works on it; the invariant says what    *)
(* nobody can undo: that a name which had a database still has it or has   *)
(* an operation that took it away (Present), that a database which had a   *)
(* row had one until an operation removed it (Tracked), and that ids are   *)
(* used once.  As long as operations take turns and succeed, far more is   *)
(* true, and Coherent says what: it is what RestIsCoherent needs.          *)
(***************************************************************************)
EXTENDS Databases, TLAPS

Jobs == [op: OpKinds, row: Rows \cup {Absent}, name: Places \cup {Absent},
         snap: SnapRows \cup {Absent}, undo: BOOLEAN, took: BOOLEAN,
         hop: 0 .. Hops - 1, tracked: SUBSET Rows,
         ours: SUBSET SnapIds, was: SUBSET Attachments, base: Contents \cup {Absent}]

\* The parts of TypeOK.
BookTypes ==
  /\ databases \subseteq Rows
  /\ snapshots \subseteq SnapRows
  /\ backedUp \subseteq Ids
  /\ report \in [untracked: SUBSET Places, missing: SUBSET Rows]
DiskTypes ==
  /\ cluster \in [Places -> Contents \cup {Absent}]
  /\ files \in [Places -> (SUBSET Attachments) \cup {Absent}]
  /\ dumps \in [Ids -> Contents \cup {Absent}]
  /\ dumpFiles \in [Ids -> (SUBSET Attachments) \cup {Absent}]
CallTypes ==
  /\ pc \in [Calls -> {"idle"} \cup WorkLocs \cup EndLocs]
  /\ job \in [Calls -> Jobs]
  /\ calm \in BOOLEAN
  /\ clashed \subseteq Places
Types == BookTypes /\ DiskTypes /\ CallTypes

Makers == {"create", "restore", "duplicate", "upgrade"}

\* Which operations pass a place.
Passes(l) ==
  CASE l = "createDb"                                   -> {"create", "restore"}
    [] l \in {"replay", "restoreFiles"}                 -> {"restore"}
    [] l = "copyDb"                                     -> {"duplicate", "upgrade"}
    [] l \in {"lookup", "checkKnown"}                   -> {"adopt"}
    [] l = "insertRow"                                  -> Makers \cup {"adopt"}
    [] l \in {"dropDb", "dropFiles", "dropRow"}         -> {"drop"}
    [] l \in {"dump", "copyFiles", "mark"}              -> {"backup"}
    [] l \in {"snapDb", "snapFiles", "snapRow"}         -> {"snapshot", "revert", "upgrade"}
    [] l \in {"unsnapDb", "unsnapFiles", "unsnapRow"}   -> {"unsnapshot"}
    [] l \in {"dropLive", "copyBack", "removeFiles", "linkFiles"} -> {"revert"}
    [] l = "hop"                                        -> {"upgrade"}
    [] l = "askCluster"                                 -> {"reconcile"}
    [] OTHER                                            -> OpKinds

\* What an operation was asked about.
HasRow(op)  == op \in {"restore", "duplicate", "upgrade", "drop", "backup", "snapshot", "revert"}
HasSnap(op) == op \in {"unsnapshot", "revert"}

AskingOf(c) ==
  LET j == job[c] IN
  /\ j.op \in Passes(pc[c])
  /\ pc[c] = "idle" => j = NoJob
  /\ HasRow(j.op) \/ (j.op = "forget" /\ pc[c] # "idle") => j.row \in Rows
  /\ ~HasRow(j.op) /\ j.op # "forget" => j.row = Absent
  /\ j.op \in Makers => j.name \in Names
  /\ j.op = "adopt" => j.name \in Places
  /\ j.op = "upgrade" => j.row.name \in DOMAIN Into /\ j.name = Into[j.row.name]
  /\ j.op \notin Makers \cup {"adopt"} => j.name = Absent
  /\ j.op # "revert" => j.undo = FALSE /\ j.was = {}
  /\ HasSnap(j.op) => j.snap \in SnapRows
  /\ ~HasSnap(j.op) /\ j.op # "upgrade" => j.snap = Absent
  /\ j.op = "revert" => j.snap.of = j.row.id
  /\ j.op # "upgrade" => j.hop = 0
  /\ j.op = "upgrade" /\ (pc[c] \in WorkLocs \ {"copyDb"} \/ j.snap # Absent) => j.base \in Contents
  /\ j.op = "upgrade" /\ j.snap # Absent =>
       pc[c] = "cut" /\ j.snap = [id |-> SnapId(c), of |-> c, files |-> j.took]

Asking == \A c \in Calls : AskingOf(c)

\* Before an operation has written its row.
Early == {"idle", "createDb", "replay", "copyDb", "lookup", "checkKnown", "insertRow"}

RowIds ==
  /\ \A d, e \in databases : d.id = e.id => d = e
  /\ \A c \in Calls : pc[c] \in Early =>
       /\ \A d \in databases : d.id # c
       /\ \A e \in Calls : job[e].op = "drop" => job[e].row.id # c
  /\ \A c \in Calls, d \in databases : job[c].op = "drop" /\ d.id = job[c].row.id =>
       d = job[c].row /\ pc[c] # "done"

\* Before an operation has written the row of its snapshot before hop k.
NotYet(c, k) ==
  \/ pc[c] \in Early \cup {"snapDb", "snapFiles", "snapRow"} /\ k >= job[c].hop
  \/ pc[c] = "hop" /\ k > job[c].hop

SnapshotIds ==
  /\ \A c \in Calls, k \in 0 .. Hops - 1 : NotYet(c, k) =>
       /\ \A s \in snapshots : s.id # <<c, k>>
       /\ \A e \in Calls : job[e].op = "unsnapshot" => job[e].snap.id # <<c, k>>
  /\ \A c \in Calls, s \in snapshots : job[c].op = "unsnapshot" /\ s.id = job[c].snap.id => pc[c] # "done"

\* Somebody took the database, or the folder, of that name away.
Gone(n) ==
  \E e \in Calls : Touches(e, n) /\ (job[e].op = "revert" => pc[e] \in {"copyBack", "cut"})
FilesGone(n) ==
  \E e \in Calls : Touches(e, n) /\ (job[e].op = "revert" => pc[e] \in {"linkFiles", "cut"})
Present(n)      == DatabaseExists(n) \/ Gone(n)
FilesPresent(n) == files[n] # Absent \/ FilesGone(n)
Touched(n)      == \E e \in Calls : Touches(e, n)

\* What works on the database it has made.
WorksOn(c, n) ==
  job[c].op \in {"restore", "upgrade"} /\ job[c].name = n
    /\ pc[c] \in {"replay", "insertRow", "snapDb", "snapFiles", "snapRow", "hop"}

Presence ==
  /\ \A d \in databases : Present(d.name)
  /\ \A s \in snapshots : Present(s.id) /\ (s.files => FilesPresent(s.id))
  /\ \A c \in Calls :
       /\ pc[c] \in {"replay", "insertRow", "checkKnown"} \/ WorksOn(c, job[c].name) => Present(job[c].name)
       /\ pc[c] \in {"snapFiles", "snapRow"} => Present(SnapId(c))
       /\ pc[c] = "snapRow" /\ job[c].took => FilesPresent(SnapId(c))

\* A database of that name had a row, and whoever removed the row returned Ok.
Tracked(n) ==
  \/ n \in NamesOf(databases)
  \/ \E e \in Calls : pc[e] = "done" /\ job[e].op \in {"drop", "forget"} /\ job[e].row.name = n
SnapTracked(n) ==
  \/ \E s \in snapshots : s.id = n
  \/ \E e \in Calls : pc[e] = "done" /\ job[e].op = "unsnapshot" /\ job[e].snap.id = n

\* An operation has made the database of that name and not written its row.
Making(c, n) ==
  \/ job[c].op \in Makers /\ job[c].name = n /\ pc[c] \in {"replay", "insertRow", "cut"}
  \/ /\ job[c].op \in {"snapshot", "revert", "upgrade"}
     /\ \/ pc[c] \in {"snapFiles", "snapRow"} /\ n = SnapId(c)
        \/ pc[c] = "cut" /\ n \in {<<c, k>> : k \in 0 .. Hops - 1}

Tracking ==
  /\ \A n \in Places : DatabaseExists(n) =>
       Tracked(n) \/ SnapTracked(n) \/ \E c \in Calls : Making(c, n)
  /\ \A c \in Calls : job[c].op = "revert" => Tracked(job[c].row.name)

\* What a revert must not lose, and where it is.
Undoable ==
  \A c \in Calls :
    job[c].op = "revert" /\ job[c].undo =>
      LET live == cluster[job[c].row.name]
          undo == cluster[<<c, 0>>] IN
      \/ pc[c] \in {"snapDb", "cut"} /\ job[c].was \subseteq AttOf(live)
      \/ pc[c] # "snapDb" /\ job[c].row.name # <<c, 0>> /\ job[c].was \subseteq AttOf(undo)
      \/ \E e \in Calls \ {c} : Touches(e, job[c].row.name) \/ Touches(e, <<c, 0>>)

\* No two operations work on one database, unless it was taken away in between.
Alone ==
  \A c, e \in Calls, n \in Names : WorksOn(c, n) /\ WorksOn(e, n) => c = e \/ Touched(n)

\* As the hop that is next, or failed, found the working copy.
AsFound(c, n) ==
  cluster[n] # Absent /\ cluster[n].version = FoundAt(c) /\ cluster[n].mixed = job[c].base.mixed

WaysBack ==
  \A c \in Calls :
    job[c].op = "upgrade" =>
      LET tag == [id |-> SnapId(c), of |-> c, files |-> job[c].took] IN
      /\ pc[c] = "copyDb" => job[c].hop = 0
      /\ pc[c] \in WorkLocs \ {"copyDb"} => AsFound(c, job[c].name) \/ Touched(job[c].name)
      /\ pc[c] \in {"snapFiles", "snapRow", "hop"} \/ job[c].snap # Absent =>
           AsFound(c, SnapId(c)) \/ Touched(SnapId(c)) \/ Touched(job[c].name)
      /\ pc[c] = "hop" \/ job[c].snap # Absent => tag \in snapshots \/ Touched(SnapId(c))

\* Nobody knows the names of the snapshots an operation may yet take.
Fresh ==
  \A c \in Calls, k \in 0 .. Hops - 1 :
    /\ pc[c] = "idle" =>
         /\ cluster[<<c, k>>] = Absent
         /\ <<c, k>> \notin NamesOf(databases)
         /\ \A e \in Calls : job[e].op = "adopt" => job[e].name # <<c, k>>
         /\ \A e \in Calls : job[e].op = "revert" => job[e].row.name # <<c, k>>
    /\ job[c].op = "upgrade" => job[c].row.name # <<c, k>>

\* A name two operations were at work on at once, or one was cut on, or whose
\* snapshot was deleted.
Excused(n) ==
  n \in clashed \/ \E c \in Calls : Touches(c, n) /\ (pc[c] = "cut" \/ job[c].op = "unsnapshot")

Between(c) == pc[c] \in {"dropFiles", "dropRow", "copyBack"}

\* Operations under way at once know of the names they share.
Apart ==
  \A c, e \in InFlight, n \in Places : c # e /\ n \in On(c, job[c]) /\ n \in On(e, job[e]) => n \in clashed

\* But for the excused, a name has one row at most, which loses its database only
\* while an operation is between the two, and an operation that has yet to write its
\* row writes the first one, of a database that is there.
Settled ==
  /\ \A d \in databases :
       DatabaseExists(d.name) \/ Excused(d.name) \/ \E c \in Calls : Touches(c, d.name) /\ Between(c)
  /\ \A d, e \in databases : d.name = e.name => d = e \/ Excused(d.name)
  /\ \A c \in Calls, d \in databases :
       pc[c] \in {"replay", "insertRow"} /\ d.name = job[c].name => Excused(d.name)
  /\ \A c \in Calls : pc[c] \in {"replay", "insertRow", "checkKnown"} =>
       DatabaseExists(job[c].name) \/ Excused(job[c].name)
  /\ \A c \in Calls : job[c].op = "drop" /\ pc[c] \in WorkLocs =>
       job[c].row \in databases \/ job[c].row.name \in clashed

Order ==
  /\ Types
  /\ Asking
  /\ RowIds
  /\ SnapshotIds
  /\ Presence
  /\ Tracking
  /\ Undoable
  /\ Alone
  /\ WaysBack
  /\ Fresh
  /\ Apart
  /\ Settled

-------------------------------------------------------------------------------
USE DEF disk, book, past, LiveFolder, RemoveLiveFolder, LeavesPart

\* A request is typed if what it was asked about is.
LEMMA AskedTypes ==
  ASSUME NEW op \in OpKinds, NEW row \in Rows \cup {Absent}, NEW name \in Places \cup {Absent},
         NEW snap \in SnapRows \cup {Absent}
  PROVE  Asked(op, row, name, snap) \in Jobs
BY ConstantsAssumption DEF Asked, Jobs

\* What a request for a revert carries.
LEMMA AskedRevert ==
  ASSUME NEW j \in Jobs, NEW u \in BOOLEAN, NEW w \in SUBSET Attachments
  PROVE  LET r == [j EXCEPT !.undo = u, !.was = w] IN
         /\ r \in Jobs /\ r.undo = u /\ r.was = w
         /\ r.op = j.op /\ r.row = j.row /\ r.name = j.name /\ r.snap = j.snap
         /\ r.hop = j.hop /\ r.base = j.base
BY DEF Jobs

\* What a request for a reconciliation carries.
LEMMA AskedReconcile ==
  ASSUME NEW j \in Jobs, NEW t \in SUBSET Rows, NEW o \in SUBSET SnapIds
  PROVE  LET r == [j EXCEPT !.tracked = t, !.ours = o] IN
         /\ r \in Jobs /\ r.undo = j.undo /\ r.was = j.was
         /\ r.op = j.op /\ r.row = j.row /\ r.name = j.name /\ r.snap = j.snap
         /\ r.hop = j.hop /\ r.base = j.base
BY DEF Jobs

\* The parts are TypeOK.
LEMMA TypeParts == TypeOK <=> Types
BY DEF TypeOK, Types, BookTypes, DiskTypes, CallTypes, Jobs

\* What each request carries.
LEMMA RequestTypes ==
  ASSUME BookTypes, DiskTypes
  PROVE  /\ \A n \in Names : Asked("create", Absent, n, Absent) \in Jobs
         /\ \A i \in Ids, n \in Names : Asked("restore", [id |-> i, name |-> n], n, Absent) \in Jobs
         /\ \A d \in databases, n \in Names : Asked("duplicate", d, n, Absent) \in Jobs
         /\ \A d \in databases : d.name \in DOMAIN Into => Asked("upgrade", d, Into[d.name], Absent) \in Jobs
         /\ \A n \in Names \cup ListClusterDatabases : Asked("adopt", Absent, n, Absent) \in Jobs
         /\ \A d \in Rows, op \in {"drop", "backup", "snapshot", "forget"} : Asked(op, d, Absent, Absent) \in Jobs
         /\ \A x \in snapshots : Asked("unsnapshot", Absent, Absent, x) \in Jobs
         /\ \A d \in databases, x \in snapshots, u \in BOOLEAN :
              [Asked("revert", d, Absent, x) EXCEPT !.undo = u, !.was = AttOf(cluster[d.name])] \in Jobs
         /\ Asked("reconcile", Absent, Absent, Absent) \in Jobs
         /\ [Asked("reconcile", Absent, Absent, Absent) EXCEPT
              !.tracked = databases, !.ours = {x.id : x \in snapshots}] \in Jobs
<1> USE ConstantsAssumption DEF BookTypes, DiskTypes
<1>1. Names \subseteq Places /\ \A i \in Ids, n \in Names : [id |-> i, name |-> n] \in Rows
  BY DEF Places, Rows
<1>2. \A d \in databases : d \in Rows /\ d.name \in Places
  BY DEF Rows
<1>3. \A n \in DOMAIN Into : Into[n] \in Places
  BY <1>1
<1>4. \A op \in {"create", "restore", "duplicate", "upgrade", "adopt", "drop", "backup", "snapshot",
                 "forget", "unsnapshot", "revert", "reconcile"} : op \in OpKinds
  BY DEF OpKinds
<1>5. ASSUME NEW d \in databases, NEW x \in snapshots, NEW u \in BOOLEAN
      PROVE  [Asked("revert", d, Absent, x) EXCEPT !.undo = u, !.was = AttOf(cluster[d.name])] \in Jobs
  <2>1. Asked("revert", d, Absent, x) \in Jobs
    BY <1>2, <1>4, AskedTypes
  <2>2. AttOf(cluster[d.name]) \in SUBSET Attachments
    BY <1>2 DEF AttOf, Contents
  <2> QED
    BY <2>1, <2>2, AskedRevert
<1>6. [Asked("reconcile", Absent, Absent, Absent) EXCEPT
         !.tracked = databases, !.ours = {x.id : x \in snapshots}] \in Jobs
  <2>1. Asked("reconcile", Absent, Absent, Absent) \in Jobs
    BY <1>4, AskedTypes
  <2>2. {x.id : x \in snapshots} \in SUBSET SnapIds
    BY DEF SnapRows
  <2> QED
    BY <2>1, <2>2, AskedReconcile
<1>7. Names \cup ListClusterDatabases \subseteq Places
  BY <1>1 DEF ListClusterDatabases
<1> QED
  BY <1>1, <1>2, <1>3, <1>4, <1>5, <1>6, <1>7, AskedTypes

\* A row, a mark or a report that is written is one.
LEMMA NextBookTypes == Types /\ Asking /\ [Next]_vars => BookTypes'
<1> SUFFICES ASSUME Types, Asking, [Next]_vars PROVE BookTypes'
  OBVIOUS
<1> USE DEF BookTypes
<1>1. ASSUME NEW c \in Calls, Forget(c) PROVE BookTypes'
  BY <1>1 DEF Forget, Begin, Goto, Asked, DeleteDatabase, Types
<1>2. ASSUME NEW c \in Calls, InsertRow(c) PROVE BookTypes'
  <2>1. job[c].name \in Places
    BY <1>2, ConstantsAssumption DEF InsertRow, At, Asking, AskingOf, Passes, Makers, Places
  <2>2. [id |-> c, name |-> job[c].name] \in Rows
    BY <2>1 DEF Rows, Ids
  <2> QED
    BY <1>2, <2>2 DEF InsertRow, At, Goto, InsertDatabase, Types
<1>3. ASSUME NEW c \in Calls, DropRow(c) PROVE BookTypes'
  BY <1>3 DEF DropRow, At, Goto, DeleteDatabase, Types
<1>4. ASSUME NEW c \in Calls, Mark(c) PROVE BookTypes'
  <2>1. job[c].row.id \in Ids
    BY <1>4 DEF Mark, At, Asking, AskingOf, Passes, HasRow, Rows
  <2> QED
    BY <1>4, <2>1 DEF Mark, At, Goto, MarkBackedUp, Types
<1>5. ASSUME NEW c \in Calls, SnapRow(c) PROVE BookTypes'
  <2>1. Source(c).id \in Ids
    BY <1>5 DEF SnapRow, At, Asking, AskingOf, Passes, HasRow, Rows, Source, Ids
  <2>2. SnapId(c) \in SnapIds /\ job[c].took \in BOOLEAN
    BY DEF SnapId, SnapIds, Types, CallTypes, Jobs
  <2>3. [id |-> SnapId(c), of |-> Source(c).id, files |-> job[c].took] \in SnapRows
    BY <2>1, <2>2 DEF SnapRows
  <2> QED
    BY <1>5, <2>3 DEF SnapRow, At, Goto, InsertSnapshot, Types
<1>6. ASSUME NEW c \in Calls, UnsnapRow(c) PROVE BookTypes'
  BY <1>6 DEF UnsnapRow, At, Goto, DeleteSnapshot, Types
<1>7. ASSUME NEW c \in Calls, AskCluster(c) PROVE BookTypes'
  <2>1. job[c].tracked \subseteq Rows
    BY DEF Types, CallTypes, Jobs
  <2>2. ListClusterDatabases \subseteq Places
    BY DEF ListClusterDatabases
  <2> QED
    BY <1>7, <2>1, <2>2 DEF AskCluster, At, Goto, Reports, Types
<1>8. ASSUME NEW c \in Calls, Unchecked(c) PROVE BookTypes'
  BY <1>8 DEF Unchecked, At, Goto, Reports, Types
<1>9. ASSUME NEW c \in Calls,
             BeginCreate(c) \/ BeginRestore(c) \/ BeginDuplicate(c) \/
             BeginUpgrade(c) \/ BeginAdopt(c) \/ BeginDrop(c) \/
             BeginBackup(c) \/ BeginSnapshot(c) \/ BeginUnsnapshot(c) \/
             BeginRevert(c) \/ BeginReconcile(c) \/ CreateDb(c) \/
             Replay(c) \/ RestoreFiles(c) \/ CopyDb(c) \/ Lookup(c) \/
             CheckKnown(c) \/ DropDb(c) \/ DropFiles(c) \/ Dump(c) \/
             CopyFiles(c) \/ SnapDb(c) \/ SnapFiles(c) \/ UnsnapDb(c) \/
             UnsnapFiles(c) \/ DropLive(c) \/ CopyBack(c) \/
             RemoveFiles(c) \/ LinkFiles(c) \/ Hop(c) \/ CutShort(c) \/
             FolderPartly(c) \/ BackupPartly(c) \/ DumpTruncated(c) \/ HopFails(c)
      PROVE  BookTypes'
  <2>1. UNCHANGED <<databases, snapshots, backedUp, report>>
    BY <1>9 DEF BeginCreate, Begin, Goto, Asked, BeginRestore,
                BeginDuplicate, BeginUpgrade, BeginAdopt, BeginDrop,
                BeginBackup, BeginSnapshot, BeginUnsnapshot, BeginRevert,
                BeginReconcile, CreateDb, At, CreateDatabase, Replay,
                RestoreFiles, CopyDb, Lookup, CheckKnown, DropDb,
                DropDatabase, DropFiles, RemoveDirectory, Dump, CopyFiles,
                SnapDb, DuplicateDatabase, SnapFiles, SnapshotDirectory,
                UnsnapDb, UnsnapFiles, DropLive, CopyBack, RemoveFiles,
                LinkFiles, Hop, CutShort, InFlight, FolderPartly, BackupPartly, DumpTruncated, HopFails
  <2> QED
    BY <2>1 DEF Types, BookTypes
<1>10. ASSUME NEW n \in Places, Attach(n) PROVE BookTypes'
  <2>1. UNCHANGED <<databases, snapshots, backedUp, report>>
    BY <1>10 DEF Attach
  <2> QED
    BY <2>1 DEF Types, BookTypes
<1>11. CASE UNCHANGED vars
  <2>1. UNCHANGED <<databases, snapshots, backedUp, report>>
    BY <1>11 DEF vars
  <2> QED
    BY <2>1 DEF Types, BookTypes
<1> QED
  BY <1>1, <1>2, <1>3, <1>4, <1>5, <1>6, <1>7, <1>8, <1>9, <1>10, <1>11
     DEF Next, Request, Proceed

\* A request that is typed keeps the operations typed.
LEMMA BeginTypes ==
  ASSUME Types, NEW c \in Calls, NEW l \in WorkLocs \cup EndLocs, NEW j \in Jobs, Begin(c, l, j)
  PROVE  CallTypes'
BY DEF Types, CallTypes, Begin, Goto, On

\* What a command leaves behind is a database, a folder or nothing.
LEMMA NextDiskTypes == Types /\ Asking /\ [Next]_vars => DiskTypes'
<1> SUFFICES ASSUME Types, Asking, [Next]_vars PROVE DiskTypes'
  OBVIOUS
<1> USE DEF DiskTypes
<1>1. ASSUME NEW c \in Calls, CreateDb(c) PROVE DiskTypes'
  <2>2. job[c].name \in Names /\ job[c].name \in Places
    BY <1>1 DEF CreateDb, At, Asking, AskingOf, Passes, Makers, Places
  <2>3. Empty \in Contents
    BY ConstantsAssumption DEF Empty, Contents
  <2> QED
    BY <1>1, <2>2, <2>3 DEF CreateDb, At, Goto, CreateDatabase, Types
<1>2. ASSUME NEW c \in Calls, Replay(c) PROVE DiskTypes'
  <2>1. job[c].row \in Rows /\ job[c].row.name \in Places /\ job[c].row.id \in Ids
    BY <1>2 DEF Replay, At, Asking, AskingOf, Passes, HasRow, Rows
  <2>2. job[c].name \in Names /\ job[c].name \in Places
    BY <1>2 DEF Replay, At, Asking, AskingOf, Passes, Makers, Places
  <2>3. dumps[job[c].row.id] \in Contents /\ cluster[job[c].name] \in Contents
    BY <1>2, <2>1, <2>2 DEF Replay, At, Possible, DatabaseExists, Types
  <2>4. dumps[job[c].row.id].att \cup cluster[job[c].name].att \in SUBSET Attachments
    BY <2>3 DEF Contents
  <2>5. [dumps[job[c].row.id] EXCEPT !.att = @ \cup cluster[job[c].name].att] \in Contents
    BY <2>3, <2>4 DEF Contents
  <2> QED
    BY <1>2, <2>2, <2>5 DEF Replay, Types
<1>3. ASSUME NEW c \in Calls, RestoreFiles(c) PROVE DiskTypes'
  <2>1. job[c].row \in Rows /\ job[c].row.name \in Places /\ job[c].row.id \in Ids
    BY <1>3 DEF RestoreFiles, At, Asking, AskingOf, Passes, HasRow, Rows
  <2>2. job[c].name \in Names /\ job[c].name \in Places
    BY <1>3 DEF RestoreFiles, At, Asking, AskingOf, Passes, Makers, Places
  <2> QED
    BY <1>3, <2>1, <2>2 DEF RestoreFiles, At, Goto, Types
<1>4. ASSUME NEW c \in Calls, CopyDb(c) PROVE DiskTypes'
  <2>1. job[c].row \in Rows /\ job[c].row.name \in Places /\ job[c].row.id \in Ids
    BY <1>4 DEF CopyDb, At, Asking, AskingOf, Passes, HasRow, Rows
  <2>2. job[c].name \in Names /\ job[c].name \in Places
    BY <1>4 DEF CopyDb, At, Asking, AskingOf, Passes, Makers, Places
  <2>3. cluster[job[c].row.name] \in Contents
    BY <1>4, <2>1, <2>2 DEF CopyDb, At, Possible, CanDuplicate, Types
  <2>4. [cluster[job[c].row.name] EXCEPT !.bare = TRUE] \in Contents
    BY <2>3 DEF Contents
  <2> QED
    BY <1>4, <2>2, <2>4 DEF CopyDb, Types
<1>5. ASSUME NEW c \in Calls, DropDb(c) PROVE DiskTypes'
  <2>1. job[c].row \in Rows /\ job[c].row.name \in Places /\ job[c].row.id \in Ids
    BY <1>5 DEF DropDb, At, Asking, AskingOf, Passes, HasRow, Rows
  <2> QED
    BY <1>5, <2>1 DEF DropDb, At, Goto, DropDatabase, Types
<1>6. ASSUME NEW c \in Calls, DropFiles(c) PROVE DiskTypes'
  <2>1. job[c].row \in Rows /\ job[c].row.name \in Places /\ job[c].row.id \in Ids
    BY <1>6 DEF DropFiles, At, Asking, AskingOf, Passes, HasRow, Rows
  <2> QED
    BY <1>6, <2>1 DEF DropFiles, At, Goto, RemoveDirectory, Types
<1>7. ASSUME NEW c \in Calls, Dump(c) PROVE DiskTypes'
  <2>1. job[c].row \in Rows /\ job[c].row.name \in Places /\ job[c].row.id \in Ids
    BY <1>7 DEF Dump, At, Asking, AskingOf, Passes, HasRow, Rows
  <2> QED
    BY <1>7, <2>1 DEF Dump, At, Goto, Types
<1>8. ASSUME NEW c \in Calls, CopyFiles(c) PROVE DiskTypes'
  <2>1. job[c].row \in Rows /\ job[c].row.name \in Places /\ job[c].row.id \in Ids
    BY <1>8 DEF CopyFiles, At, Asking, AskingOf, Passes, HasRow, Rows
  <2> QED
    BY <1>8, <2>1 DEF CopyFiles, At, Goto, Types
<1>9. ASSUME NEW c \in Calls, SnapDb(c) PROVE DiskTypes'
  <2>2. SnapId(c) \in Places /\ Source(c).name \in Places
    BY <1>9 DEF SnapId, SnapIds, Places, Source, Types, CallTypes, Jobs, At, Asking, AskingOf,
       Passes, HasRow, Rows, SnapDb, Makers
  <2> QED
    BY <1>9, <2>2 DEF SnapDb, At, Goto, DuplicateDatabase, Types
<1>10. ASSUME NEW c \in Calls, SnapFiles(c) PROVE DiskTypes'
  <2>2. SnapId(c) \in Places /\ Source(c).name \in Places
    BY <1>10 DEF SnapId, SnapIds, Places, Source, Types, CallTypes, Jobs, At, Asking, AskingOf,
       Passes, HasRow, Rows, SnapFiles, Makers
  <2> QED
    BY <1>10, <2>2 DEF SnapFiles, At, Goto, SnapshotDirectory, Types
<1>11. ASSUME NEW c \in Calls, UnsnapDb(c) PROVE DiskTypes'
  <2>1. job[c].snap.id \in Places /\ (job[c].op = "revert" => job[c].row.name \in Places)
    BY <1>11 DEF UnsnapDb, At, Asking, AskingOf, Passes, HasSnap, SnapRows, HasRow, Rows, Places
  <2> QED
    BY <1>11, <2>1 DEF UnsnapDb, At, Goto, DropDatabase, Types
<1>12. ASSUME NEW c \in Calls, UnsnapFiles(c) PROVE DiskTypes'
  <2>1. job[c].snap.id \in Places /\ (job[c].op = "revert" => job[c].row.name \in Places)
    BY <1>12 DEF UnsnapFiles, At, Asking, AskingOf, Passes, HasSnap, SnapRows, HasRow, Rows, Places
  <2> QED
    BY <1>12, <2>1 DEF UnsnapFiles, At, Goto, RemoveDirectory, Types
<1>13. ASSUME NEW c \in Calls, DropLive(c) PROVE DiskTypes'
  <2>1. job[c].row \in Rows /\ job[c].row.name \in Places /\ job[c].row.id \in Ids
    BY <1>13 DEF DropLive, At, Asking, AskingOf, Passes, HasRow, Rows
  <2> QED
    BY <1>13, <2>1 DEF DropLive, At, Goto, DropDatabase, Types
<1>14. ASSUME NEW c \in Calls, CopyBack(c) PROVE DiskTypes'
  <2>1. job[c].snap.id \in Places /\ (job[c].op = "revert" => job[c].row.name \in Places)
    BY <1>14 DEF CopyBack, At, Asking, AskingOf, Passes, HasSnap, SnapRows, HasRow, Rows, Places
  <2> QED
    BY <1>14, <2>1 DEF CopyBack, At, Goto, DuplicateDatabase, Types
<1>15. ASSUME NEW c \in Calls, RemoveFiles(c) PROVE DiskTypes'
  <2>1. job[c].row \in Rows /\ job[c].row.name \in Places /\ job[c].row.id \in Ids
    BY <1>15 DEF RemoveFiles, At, Asking, AskingOf, Passes, HasRow, Rows
  <2> QED
    BY <1>15, <2>1 DEF RemoveFiles, At, Goto, RemoveDirectory, Types
<1>16. ASSUME NEW c \in Calls, LinkFiles(c) PROVE DiskTypes'
  <2>1. job[c].snap.id \in Places /\ (job[c].op = "revert" => job[c].row.name \in Places)
    BY <1>16 DEF LinkFiles, At, Asking, AskingOf, Passes, HasSnap, SnapRows, HasRow, Rows, Places
  <2> QED
    BY <1>16, <2>1 DEF LinkFiles, At, Goto, SnapshotDirectory, Types
<1>17. ASSUME NEW c \in Calls, Hop(c) PROVE DiskTypes'
  <2>2. job[c].name \in Names /\ job[c].name \in Places
    BY <1>17 DEF Hop, At, Asking, AskingOf, Passes, Makers, Places
  <2>3. cluster[job[c].name] \in Contents /\ job[c].hop + 1 \in 0 .. Hops
    BY <1>17, <2>2, ConstantsAssumption DEF Hop, At, Possible, DatabaseExists, Types, CallTypes, Jobs
  <2>4. [cluster[job[c].name] EXCEPT !.version = job[c].hop + 1] \in Contents
    BY <2>3 DEF Contents
  <2> QED
    BY <1>17, <2>2, <2>4 DEF Hop, Types
<1>18. ASSUME NEW c \in Calls, DumpTruncated(c) PROVE DiskTypes'
  <2>1. job[c].row \in Rows /\ job[c].row.name \in Places /\ job[c].row.id \in Ids
    BY <1>18 DEF DumpTruncated, At, Asking, AskingOf, Passes, HasRow, Rows
  <2>3. Empty \in Contents
    BY ConstantsAssumption DEF Empty, Contents
  <2> QED
    BY <1>18, <2>1, <2>3 DEF DumpTruncated, Goto, Types
<1>19. ASSUME NEW c \in Calls, HopFails(c) PROVE DiskTypes'
  <2>2. job[c].name \in Names /\ job[c].name \in Places
    BY <1>19 DEF HopFails, At, Asking, AskingOf, Passes, Makers, Places
  <2>3. cluster[job[c].name] \in Contents
    BY <1>19, <2>2 DEF HopFails, At, Possible, DatabaseExists, Types
  <2>4. [cluster[job[c].name] EXCEPT !.mixed = TRUE] \in Contents
    BY <2>3 DEF Contents
  <2> QED
    BY <1>19, <2>2, <2>4 DEF HopFails, Types
<1>20. ASSUME NEW n \in Places, Attach(n) PROVE DiskTypes'
  <2>1. PICK a \in Attachments : /\ cluster' = [cluster EXCEPT ![n].att = @ \cup {a}]
                                 /\ files' = [files EXCEPT ![n] = IF n \in Names THEN FilesOf(@) \cup {a} ELSE @]
    BY <1>20 DEF Attach
  <2>2. n \in Places /\ cluster[n] \in Contents
    BY <1>20 DEF Attach, DatabaseExists, Places, Types
  <2>3. cluster[n].att \cup {a} \in SUBSET Attachments
    BY <2>2 DEF Contents
  <2>4. [cluster[n] EXCEPT !.att = @ \cup {a}] \in Contents
    BY <2>2, <2>3 DEF Contents
  <2>5. files' \in [Places -> (SUBSET Attachments) \cup {Absent}]
    BY <2>1, <2>2 DEF Types, FilesOf
  <2> QED
    BY <1>20, <2>1, <2>2, <2>4, <2>5 DEF Attach, Types
<1>21. ASSUME NEW c \in Calls,
             BeginCreate(c) \/ BeginRestore(c) \/ BeginDuplicate(c) \/
             BeginUpgrade(c) \/ BeginAdopt(c) \/ BeginDrop(c) \/
             BeginBackup(c) \/ BeginSnapshot(c) \/ BeginUnsnapshot(c) \/
             BeginRevert(c) \/ BeginReconcile(c) \/ Forget(c) \/
             InsertRow(c) \/ Lookup(c) \/ CheckKnown(c) \/ DropRow(c) \/
             Mark(c) \/ SnapRow(c) \/ UnsnapRow(c) \/ AskCluster(c) \/
             CutShort(c) \/ Unchecked(c)
      PROVE  DiskTypes'
  <2>1. UNCHANGED <<cluster, files, dumps, dumpFiles>>
    BY <1>21 DEF BeginCreate, Begin, Goto, Asked, BeginRestore,
                BeginDuplicate, BeginUpgrade, BeginAdopt, BeginDrop,
                BeginBackup, BeginSnapshot, BeginUnsnapshot, BeginRevert,
                BeginReconcile, Forget, DeleteDatabase, InsertRow, At,
                InsertDatabase, Lookup, CheckKnown, DropRow, Mark,
                MarkBackedUp, SnapRow, InsertSnapshot, UnsnapRow,
                DeleteSnapshot, AskCluster, Reports, CutShort, InFlight,
                Unchecked
  <2> QED
    BY <2>1 DEF Types, DiskTypes
<1>22. CASE UNCHANGED vars
  <2>1. UNCHANGED <<cluster, files, dumps, dumpFiles>>
    BY <1>22 DEF vars
  <2> QED
    BY <2>1 DEF Types, DiskTypes
<1>23. ASSUME NEW c \in Calls, FolderPartly(c) PROVE DiskTypes'
  <2>1. ASSUME NEW n \in Places, NEW f \in (SUBSET Attachments) \cup {Absent}, LeavesPart(n, f)
        PROVE  files' \in [Places -> (SUBSET Attachments) \cup {Absent}]
    BY <2>1 DEF Types
  <2>2. job[c].op \in {"snapshot", "revert", "upgrade", "restore", "unsnapshot"} /\ AskingOf(c)
    BY <1>23 DEF FolderPartly, At, Asking, AskingOf, Passes
  <2>3. /\ SnapId(c) \in Places
        /\ HasRow(job[c].op) => job[c].row.name \in Places /\ job[c].row.id \in Ids
        /\ HasSnap(job[c].op) => job[c].snap.id \in Places
        /\ job[c].op \in Makers => job[c].name \in Names
    BY <2>2 DEF AskingOf, SnapId, SnapIds, SnapRows, Rows, Places, Types, CallTypes, Jobs
  <2>4. CASE At(c, "snapFiles") /\ LeavesPart(SnapId(c), LiveFolder(Source(c).name))
    <3>1. LiveFolder(Source(c).name) \in (SUBSET Attachments) \cup {Absent}
      BY DEF Types, Places
    <3> QED
      BY <1>23, <2>1, <2>3, <2>4, <3>1 DEF FolderPartly, Types
  <2>5. CASE At(c, "linkFiles") /\ LeavesPart(job[c].row.name, files[job[c].snap.id])
    <3>1. job[c].op = "revert"
      BY <2>2, <2>5 DEF At, AskingOf, Passes
    <3> QED
      BY <1>23, <2>1, <2>3, <2>5, <3>1 DEF FolderPartly, Types, HasRow, HasSnap
  <2>6. CASE At(c, "restoreFiles") /\ LeavesPart(job[c].name, dumpFiles[job[c].row.id])
    <3>1. job[c].op = "restore"
      BY <2>2, <2>6 DEF At, AskingOf, Passes
    <3> QED
      BY <1>23, <2>1, <2>3, <2>6, <3>1 DEF FolderPartly, Types, HasRow, Makers, Places
  <2>7. CASE At(c, "removeFiles") /\ LeavesPart(job[c].row.name, LiveFolder(job[c].row.name))
    <3>1. job[c].op = "revert"
      BY <2>2, <2>7 DEF At, AskingOf, Passes
    <3>2. LiveFolder(job[c].row.name) \in (SUBSET Attachments) \cup {Absent}
      BY DEF Types, Places
    <3> QED
      BY <1>23, <2>1, <2>3, <2>7, <3>1, <3>2 DEF FolderPartly, Types, HasRow
  <2>8. CASE At(c, "unsnapFiles") /\ LeavesPart(job[c].snap.id, files[job[c].snap.id])
    <3>1. job[c].op = "unsnapshot"
      BY <2>2, <2>8 DEF At, AskingOf, Passes
    <3> QED
      BY <1>23, <2>1, <2>3, <2>8, <3>1 DEF FolderPartly, Types, HasSnap
  <2> QED
    BY <1>23, <2>4, <2>5, <2>6, <2>7, <2>8 DEF FolderPartly
<1>24. ASSUME NEW c \in Calls, BackupPartly(c) PROVE DiskTypes'
  <2>1. job[c].row \in Rows /\ job[c].row.name \in Places /\ job[c].row.id \in Ids
    BY <1>24 DEF BackupPartly, At, Asking, AskingOf, Passes, HasRow, Rows
  <2> QED
    BY <1>24, <2>1 DEF BackupPartly, FilesOf, Types
<1> QED
  BY <1>1, <1>2, <1>3, <1>4, <1>5, <1>6, <1>7, <1>8, <1>9, <1>10, <1>11,
     <1>12, <1>13, <1>14, <1>15, <1>16, <1>17, <1>18, <1>19, <1>20, <1>21,
     <1>22, <1>23, <1>24
     DEF Next, Request, Proceed

\* An operation is at a place there is, with what a request may carry.
LEMMA NextCallTypes == Types /\ Asking /\ [Next]_vars => CallTypes'
<1> SUFFICES ASSUME Types, Asking, [Next]_vars PROVE CallTypes'
  OBVIOUS
<1> USE DEF CallTypes, WorkLocs, EndLocs
<1>1. ASSUME NEW c \in Calls,
             CreateDb(c) \/ Replay(c) \/ InsertRow(c) \/ RestoreFiles(c) \/
             Lookup(c) \/ CheckKnown(c) \/ DropDb(c) \/ DropRow(c) \/
             Dump(c) \/ CopyFiles(c) \/ Mark(c) \/ SnapDb(c) \/
             SnapRow(c) \/ UnsnapDb(c) \/ UnsnapFiles(c) \/ UnsnapRow(c) \/
             DropLive(c) \/ CopyBack(c) \/ RemoveFiles(c) \/ LinkFiles(c)
      PROVE  CallTypes'
  BY <1>1, SMTT(30) DEF CreateDb, At, Goto, CreateDatabase, Replay, InsertRow,
     InsertDatabase, RestoreFiles, Lookup, CheckKnown, DropDb, DropDatabase,
     DropRow, DeleteDatabase, Dump, CopyFiles, Mark, MarkBackedUp, SnapDb,
     DuplicateDatabase, SnapRow, InsertSnapshot, UnsnapDb, UnsnapFiles,
     RemoveDirectory, UnsnapRow, DeleteSnapshot, DropLive, CopyBack,
     RemoveFiles, LinkFiles, SnapshotDirectory, Types
<1>2. ASSUME NEW c \in Calls, BeginCreate(c) PROVE CallTypes'
  BY <1>2, RequestTypes, BeginTypes DEF BeginCreate, Types, BookTypes
<1>3. ASSUME NEW c \in Calls, BeginRestore(c) PROVE CallTypes'
  BY <1>3, RequestTypes, BeginTypes DEF BeginRestore, Types, BookTypes
<1>4. ASSUME NEW c \in Calls, BeginDuplicate(c) PROVE CallTypes'
  BY <1>4, RequestTypes, BeginTypes DEF BeginDuplicate, Types, BookTypes
<1>5. ASSUME NEW c \in Calls, BeginUpgrade(c) PROVE CallTypes'
  BY <1>5, RequestTypes, BeginTypes DEF BeginUpgrade, Types, BookTypes
<1>6. ASSUME NEW c \in Calls, BeginAdopt(c) PROVE CallTypes'
  BY <1>6, RequestTypes, BeginTypes DEF BeginAdopt, Types, BookTypes
<1>7. ASSUME NEW c \in Calls, BeginDrop(c) PROVE CallTypes'
  BY <1>7, RequestTypes, BeginTypes DEF BeginDrop, Types, BookTypes
<1>8. ASSUME NEW c \in Calls, BeginBackup(c) PROVE CallTypes'
  BY <1>8, RequestTypes, BeginTypes DEF BeginBackup, Types, BookTypes
<1>9. ASSUME NEW c \in Calls, BeginSnapshot(c) PROVE CallTypes'
  BY <1>9, RequestTypes, BeginTypes DEF BeginSnapshot, Types, BookTypes
<1>10. ASSUME NEW c \in Calls, BeginUnsnapshot(c) PROVE CallTypes'
  BY <1>10, RequestTypes, BeginTypes DEF BeginUnsnapshot, Types, BookTypes
<1>11. ASSUME NEW c \in Calls, BeginRevert(c) PROVE CallTypes'
  BY <1>11, RequestTypes, BeginTypes DEF BeginRevert, Types, BookTypes
<1>12. ASSUME NEW c \in Calls, BeginReconcile(c) PROVE CallTypes'
  BY <1>12, RequestTypes, BeginTypes DEF BeginReconcile, Types, BookTypes
<1>13. ASSUME NEW c \in Calls, Forget(c) PROVE CallTypes'
  BY <1>13, RequestTypes, BeginTypes DEF Forget, Types, BookTypes
<1>14. ASSUME NEW c \in Calls, CopyDb(c) PROVE CallTypes'
  <2>1. cluster'[job[c].name] \in Contents \cup {Absent}
    BY <1>14, NextDiskTypes DEF CopyDb, At, Asking, AskingOf, Passes, Makers, Places, DiskTypes
  <2> DEFINE b == cluster'[job[c].name]
  <2>2. [job[c] EXCEPT !.base = b] \in Jobs
    <3> HIDE DEF b
    <3> QED
      BY <2>1, ZenonT(40) DEF b, Jobs, Types
  <2> QED
    BY <1>14, <2>2 DEF CopyDb, At, Goto, Types
<1>15. ASSUME NEW c \in Calls, DropFiles(c) PROVE CallTypes'
  BY <1>15 DEF DropFiles, At, Goto, RemoveDirectory, Types
<1>16. ASSUME NEW c \in Calls, SnapFiles(c) PROVE CallTypes'
  <2>2. [job[c] EXCEPT !.took = (LiveFolder(Source(c).name) # Absent)] \in Jobs
    BY ZenonT(40) DEF Jobs, Types
  <2> QED
    BY <1>16, <2>2 DEF SnapFiles, At, Goto, SnapshotDirectory, Types
<1>17. ASSUME NEW c \in Calls, Hop(c) PROVE CallTypes'
  <2>1. CASE job[c].hop + 1 < Hops
    <3>1. job[c].hop + 1 \in 0 .. Hops - 1
      BY <2>1, ConstantsAssumption DEF Types, Jobs
    <3>2. [[job[c] EXCEPT !.hop = @ + 1] EXCEPT !.took = FALSE] \in Jobs
      BY <3>1, ZenonT(40) DEF Jobs, Types
    <3>3. job' = [job EXCEPT ![c] = [[job[c] EXCEPT !.hop = @ + 1] EXCEPT !.took = FALSE]]
      BY <1>17, <2>1 DEF Hop, Types
    <3> QED
      BY <1>17, <2>1, <3>2, <3>3 DEF Hop, At, Goto, Types
  <2>2. CASE ~(job[c].hop + 1 < Hops)
    BY <1>17, <2>2 DEF Hop, At, Goto, Types
  <2> QED
    BY <2>1, <2>2
<1>18. ASSUME NEW c \in Calls, AskCluster(c) PROVE CallTypes'
  BY <1>18, RequestTypes DEF AskCluster, At, Goto, Reports, Types
<1>19. ASSUME NEW c \in Calls, CutShort(c) PROVE CallTypes'
  BY <1>19 DEF CutShort, InFlight, Goto, Types
<1>20. ASSUME NEW c \in Calls, FolderPartly(c) \/ BackupPartly(c) \/ DumpTruncated(c) PROVE CallTypes'
  BY <1>20 DEF FolderPartly, BackupPartly, DumpTruncated, Goto, Types
<1>21. ASSUME NEW c \in Calls, HopFails(c) PROVE CallTypes'
  <2>1. [id |-> SnapId(c), of |-> c, files |-> job[c].took] \in SnapRows
    BY DEF SnapId, SnapIds, SnapRows, Ids, Types, Jobs
  <2>2. [job[c] EXCEPT !.snap = [id |-> SnapId(c), of |-> c, files |-> job[c].took]] \in Jobs
    BY <2>1 DEF Jobs, Types
  <2> QED
    BY <1>21, <2>2 DEF HopFails, At, Goto, Types
<1>22. ASSUME NEW c \in Calls, Unchecked(c) PROVE CallTypes'
  BY <1>22, RequestTypes DEF Unchecked, At, Goto, Reports, Types
<1>23. ASSUME NEW n \in Places, Attach(n) PROVE CallTypes'
  BY <1>23 DEF Attach, Types
<1>24. CASE UNCHANGED vars
  <2>1. UNCHANGED <<pc, job, past>>
    BY <1>24 DEF vars
  <2> QED
    BY <2>1 DEF Types, CallTypes
<1> QED
  BY <1>1, <1>2, <1>3, <1>4, <1>5, <1>6, <1>7, <1>8, <1>9, <1>10, <1>11,
     <1>12, <1>13, <1>14, <1>15, <1>16, <1>17, <1>18, <1>19, <1>20, <1>21,
     <1>22, <1>23, <1>24
     DEF Next, Request, Proceed

-------------------------------------------------------------------------------
\* A step of one operation leaves the others where they are, and keeps what it was asked.
OthersStay(c) == \A e \in Calls \ {c} : pc'[e] = pc[e] /\ job'[e] = job[e]

Kept(c) ==
  /\ job'[c].op = job[c].op /\ job'[c].row = job[c].row /\ job'[c].name = job[c].name
  /\ job'[c].undo = job[c].undo /\ job'[c].was = job[c].was
  /\ job[c].op # "upgrade" => job'[c].snap = job[c].snap /\ job'[c].hop = job[c].hop

Proceeds(c) ==
  OthersStay(c) /\ Kept(c) /\ pc[c] \in WorkLocs /\ pc'[c] \in WorkLocs \cup EndLocs

Begins(c) == OthersStay(c) /\ pc[c] = "idle" /\ pc'[c] # "idle"

Ends(c) == CutShort(c) \/ FolderPartly(c) \/ BackupPartly(c) \/ DumpTruncated(c) \/ HopFails(c) \/ Unchecked(c)

\* A request changes the call it comes from, and nothing of the others.
LEMMA RequestBegins ==
  ASSUME Types, NEW c \in Calls, Request(c)
  PROVE  Begins(c)
<1> SUFFICES ASSUME NEW l \in WorkLocs \cup {"done"}, NEW j, Begin(c, l, j) PROVE Begins(c)
  BY DEF Request, BeginCreate, BeginRestore, BeginDuplicate, BeginUpgrade, BeginAdopt, BeginDrop,
         BeginBackup, BeginSnapshot, BeginUnsnapshot, BeginRevert, BeginReconcile, Forget, WorkLocs
<1> QED
  BY DEF Begins, OthersStay, Begin, Goto, Types, CallTypes, WorkLocs

\* An operation that stops half way keeps what it was asked.
LEMMA StopsAre ==
  ASSUME NEW c \in Calls, CutShort(c) \/ FolderPartly(c) \/ BackupPartly(c) \/ DumpTruncated(c)
  PROVE  Goto(c, "cut") /\ UNCHANGED <<job, databases, snapshots, cluster>> /\ pc[c] \in WorkLocs
<1> USE DEF At, WorkLocs
<1>1. CASE CutShort(c)
  BY <1>1 DEF CutShort, InFlight
<1>2. CASE FolderPartly(c)
  <2>1. pc[c] \in WorkLocs
    BY <1>2 DEF FolderPartly
  <2> QED
    BY <1>2, <2>1 DEF FolderPartly
<1>3. CASE BackupPartly(c)
  BY <1>3 DEF BackupPartly
<1>4. CASE DumpTruncated(c)
  BY <1>4 DEF DumpTruncated
<1> QED
  BY <1>1, <1>2, <1>3, <1>4

\* An operation goes on: it keeps what it was asked about.
LEMMA StepProceeds ==
  ASSUME Types, Asking, NEW c \in Calls, Proceed(c) \/ Ends(c)
  PROVE  Proceeds(c)
<1> USE DEF Types, CallTypes, WorkLocs, EndLocs
<1>1. ASSUME UNCHANGED job, NEW l \in WorkLocs \cup EndLocs, Goto(c, l), pc[c] \in WorkLocs
      PROVE  Proceeds(c)
  BY <1>1 DEF Proceeds, OthersStay, Kept, Goto
<1>2. CASE CreateDb(c) \/ Replay(c) \/ InsertRow(c) \/ RestoreFiles(c) \/ Lookup(c) \/ CheckKnown(c)
  BY <1>1, <1>2 DEF CreateDb, Replay, InsertRow, RestoreFiles, Lookup, CheckKnown, At
<1>3. CASE DropDb(c) \/ DropFiles(c) \/ DropRow(c) \/ Dump(c) \/ CopyFiles(c) \/ Mark(c)
  BY <1>1, <1>3 DEF DropDb, DropFiles, DropRow, Dump, CopyFiles, Mark, At
<1>4. CASE SnapDb(c) \/ SnapRow(c) \/ UnsnapDb(c) \/ UnsnapFiles(c) \/ UnsnapRow(c)
  BY <1>1, <1>4 DEF SnapDb, SnapRow, UnsnapDb, UnsnapFiles, UnsnapRow, At
<1>5. CASE DropLive(c) \/ CopyBack(c) \/ RemoveFiles(c) \/ LinkFiles(c)
  BY <1>1, <1>5 DEF DropLive, CopyBack, RemoveFiles, LinkFiles, At
<1>6. CASE CutShort(c) \/ FolderPartly(c) \/ BackupPartly(c) \/ DumpTruncated(c)
  BY <1>1, <1>6, StopsAre
<1>7. CASE CopyDb(c)
  BY <1>7 DEF CopyDb, At, Goto, Proceeds, OthersStay, Kept, Jobs
<1>8. CASE SnapFiles(c)
  BY <1>8 DEF SnapFiles, At, Goto, Proceeds, OthersStay, Kept, Jobs
<1>9. CASE Hop(c)
  <2>1. CASE job[c].hop + 1 < Hops
    <3>1. job' = [job EXCEPT ![c] = [[job[c] EXCEPT !.hop = @ + 1] EXCEPT !.took = FALSE]]
      BY <1>9, <2>1 DEF Hop
    <3>2. job[c].op = "upgrade"
      BY <1>9 DEF Hop, At, Asking, AskingOf, Passes
    <3> QED
      BY <1>9, <2>1, <3>1, <3>2 DEF Hop, At, Goto, Proceeds, OthersStay, Kept, Jobs
  <2>2. CASE ~(job[c].hop + 1 < Hops)
    BY <1>1, <1>9, <2>2 DEF Hop, At
  <2> QED
    BY <2>1, <2>2
<1>10. CASE HopFails(c)
  <2>1. job[c].op = "upgrade"
    BY <1>10 DEF HopFails, At, Asking, AskingOf, Passes
  <2> QED
    BY <1>10, <2>1 DEF HopFails, At, Goto, Proceeds, OthersStay, Kept, Jobs
<1>11. CASE AskCluster(c) \/ Unchecked(c)
  <2>1. job[c].op = "reconcile" /\ job[c].row = Absent /\ job[c].snap = Absent /\ job[c].hop = 0
        /\ job[c].name = Absent /\ job[c].undo = FALSE /\ job[c].was = {}
    BY <1>11 DEF AskCluster, Unchecked, At, Asking, AskingOf, Passes, HasRow, HasSnap, Makers
  <2>2. /\ job' = [job EXCEPT ![c] = Asked("reconcile", Absent, Absent, Absent)]
        /\ pc[c] = "askCluster" /\ pc' = [pc EXCEPT ![c] = "done"]
    BY <1>11 DEF AskCluster, Unchecked, Reports, At, Goto
  <2>3. job'[c] = Asked("reconcile", Absent, Absent, Absent) /\ OthersStay(c)
    BY <2>2 DEF OthersStay
  <2>4. Kept(c)
    <3> DEFINE a == Asked("reconcile", Absent, Absent, Absent)
    <3>1. a.op = "reconcile" /\ a.row = Absent /\ a.name = Absent /\ a.snap = Absent /\ a.hop = 0
      BY DEF Asked
    <3>2. a.undo = FALSE /\ a.was = {}
      BY DEF Asked
    <3>3. job'[c] = a
      BY <2>3
    <3> HIDE DEF a
    <3>4. job'[c].undo = job[c].undo
      BY <2>1, <3>2, <3>3
    <3> QED
      BY <2>1, <3>1, <3>2, <3>3, <3>4 DEF Kept
  <2> QED
    BY <2>2, <2>3, <2>4 DEF Proceeds
<1> QED
  BY <1>2, <1>3, <1>4, <1>5, <1>6, <1>7, <1>8, <1>9, <1>10, <1>11 DEF Proceed, Ends

\* A step is one operation's, or nobody moves.
LEMMA CallSteps ==
  ASSUME Types, Asking, [Next]_vars
  PROVE  (\E c \in Calls : Begins(c) \/ Proceeds(c)) \/ UNCHANGED <<pc, job>>
<1>1. ASSUME NEW n \in Places, Attach(n) PROVE UNCHANGED <<pc, job>>
  BY <1>1 DEF Attach
<1> QED
  BY <1>1, RequestBegins, StepProceeds DEF Next, Ends, vars

\* An operation that has begun keeps what it was asked; one that has ended stays so.
LEMMA AskedStays ==
  ASSUME Types, Asking, [Next]_vars, NEW e \in Calls, pc[e] # "idle"
  PROVE  /\ pc'[e] # "idle" /\ Kept(e)
         /\ pc[e] \in EndLocs => pc'[e] = pc[e] /\ job'[e] = job[e]
<1> USE DEF Types, CallTypes, Begins, Proceeds, OthersStay, Kept
<1>1. ASSUME NEW c \in Calls, Begins(c)
      PROVE  /\ pc'[e] # "idle" /\ Kept(e)
             /\ pc[e] \in EndLocs => pc'[e] = pc[e] /\ job'[e] = job[e]
  BY <1>1
<1>2. ASSUME NEW c \in Calls, Proceeds(c)
      PROVE  /\ pc'[e] # "idle" /\ Kept(e)
             /\ pc[e] \in EndLocs => pc'[e] = pc[e] /\ job'[e] = job[e]
  BY <1>2 DEF WorkLocs, EndLocs
<1> QED
  BY <1>1, <1>2, CallSteps

\* What an operation may take away it may take away for good.
LEMMA StillTouches ==
  ASSUME Types, Asking, [Next]_vars, NEW e \in Calls, NEW n, Touches(e, n)
  PROVE  Touches(e, n)'
<1>1. NoJob.op = "forget"
  BY DEF NoJob, Asked
<1>2. job[e].op # "forget"
  BY DEF Touches
<1>3. pc[e] # "idle"
  BY <1>1, <1>2 DEF Asking, AskingOf
<1> QED
  BY <1>3, AskedStays DEF Touches, Kept

\* What is asked of the others is still so.
LEMMA OthersAsking ==
  ASSUME Asking, NEW c \in Calls, OthersStay(c), AskingOf(c)'
  PROVE  Asking'
BY DEF Asking, AskingOf, OthersStay, SnapId

\* A request carries what its operation needs, and is where that begins.
LEMMA BeginAsks ==
  ASSUME Types, Asking, NEW c \in Calls, Request(c)
  PROVE  AskingOf(c)'
<1> USE ConstantsAssumption DEF Types, BookTypes, CallTypes, AskingOf, HasRow, HasSnap, Makers, OpKinds, WorkLocs
<1>1. ASSUME NEW l, NEW j, Begin(c, l, j) PROVE pc'[c] = l /\ job'[c] = j
  BY <1>1 DEF Begin, Goto
<1>2. ASSUME NEW n \in Names, Begin(c, "createDb", Asked("create", Absent, n, Absent))
      PROVE  AskingOf(c)'
  BY <1>1, <1>2 DEF Asked, Passes
<1>3. ASSUME NEW i \in Ids, NEW n \in Names,
             Begin(c, "createDb", Asked("restore", [id |-> i, name |-> n], n, Absent))
      PROVE  AskingOf(c)'
  BY <1>1, <1>3 DEF Asked, Passes, Rows, Places
<1>4. ASSUME NEW d \in databases, NEW n \in Names, Begin(c, "copyDb", Asked("duplicate", d, n, Absent))
      PROVE  AskingOf(c)'
  BY <1>1, <1>4 DEF Asked, Passes
<1>5. ASSUME NEW d \in databases, d.name \in DOMAIN Into,
             Begin(c, "copyDb", Asked("upgrade", d, Into[d.name], Absent))
      PROVE  AskingOf(c)'
  BY <1>1, <1>5 DEF Asked, Passes
<1>6. ASSUME NEW n \in Names \cup ListClusterDatabases, Begin(c, "lookup", Asked("adopt", Absent, n, Absent))
      PROVE  AskingOf(c)'
  BY <1>1, <1>6 DEF Asked, Passes, ListClusterDatabases, Places
<1>7. ASSUME NEW d \in databases,
             \/ Begin(c, "dropDb", Asked("drop", d, Absent, Absent))
             \/ Begin(c, "dump", Asked("backup", d, Absent, Absent))
             \/ Begin(c, "snapDb", Asked("snapshot", d, Absent, Absent))
             \/ Begin(c, "done", Asked("forget", d, Absent, Absent))
      PROVE  AskingOf(c)'
  BY <1>1, <1>7 DEF Asked, Passes
<1>8. ASSUME NEW x \in snapshots, Begin(c, "unsnapDb", Asked("unsnapshot", Absent, Absent, x))
      PROVE  AskingOf(c)'
  BY <1>1, <1>8 DEF Asked, Passes
<1>9. ASSUME NEW d \in databases, NEW x \in snapshots, NEW u \in BOOLEAN, x.of = d.id,
             Begin(c, IF u THEN "snapDb" ELSE "dropLive",
                   [Asked("revert", d, Absent, x) EXCEPT !.undo = u, !.was = AttOf(cluster[d.name])])
      PROVE  AskingOf(c)'
  <2> DEFINE w == AttOf(cluster[d.name])
             r == [Asked("revert", d, Absent, x) EXCEPT !.undo = u, !.was = w]
  <2>1. Asked("revert", d, Absent, x) \in Jobs
    BY AskedTypes
  <2>2. w \in SUBSET Attachments
    BY DEF AttOf, DiskTypes, Contents, Rows
  <2>3. /\ r.op = "revert" /\ r.row = d /\ r.name = Absent /\ r.snap = x /\ r.hop = 0
    <3> DEFINE a == Asked("revert", d, Absent, x)
    <3>1. a.op = "revert" /\ a.row = d /\ a.name = Absent /\ a.snap = x /\ a.hop = 0
      BY DEF Asked
    <3>2. a \in Jobs /\ r = [a EXCEPT !.undo = u, !.was = w]
      BY <2>1
    <3> HIDE DEF a, r, w
    <3> QED
      BY <2>2, <3>1, <3>2 DEF Jobs
  <2>4. pc'[c] \in {"snapDb", "dropLive"} /\ job'[c] = r
    BY <1>1, <1>9
  <2> HIDE DEF r
  <2> QED
    BY <1>9, <2>3, <2>4 DEF Passes
<1>10. ASSUME Begin(c, "askCluster",
                    [Asked("reconcile", Absent, Absent, Absent) EXCEPT
                       !.tracked = databases, !.ours = {x.id : x \in snapshots}])
       PROVE  AskingOf(c)'
  <2> DEFINE t == databases
             o == {x.id : x \in snapshots}
             r == [Asked("reconcile", Absent, Absent, Absent) EXCEPT !.tracked = t, !.ours = o]
  <2>1. Asked("reconcile", Absent, Absent, Absent) \in Jobs
    BY AskedTypes
  <2>2. t \in SUBSET Rows /\ o \in SUBSET SnapIds
    BY DEF SnapRows
  <2>3. /\ r.op = "reconcile" /\ r.row = Absent /\ r.name = Absent /\ r.snap = Absent /\ r.hop = 0
        /\ r.undo = FALSE /\ r.was = {}
    <3> DEFINE a == Asked("reconcile", Absent, Absent, Absent)
    <3>1. /\ a.op = "reconcile" /\ a.row = Absent /\ a.name = Absent /\ a.snap = Absent /\ a.hop = 0
          /\ a.undo = FALSE /\ a.was = {}
      BY DEF Asked
    <3>2. a \in Jobs /\ r = [a EXCEPT !.tracked = t, !.ours = o]
      BY <2>1
    <3> HIDE DEF a, r, t, o
    <3> QED
      BY <2>2, <3>1, <3>2 DEF Jobs
  <2>4. pc'[c] = "askCluster" /\ job'[c] = r
    BY <1>1, <1>10
  <2> HIDE DEF r
  <2> QED
    BY <2>3, <2>4 DEF Passes
<1> QED
  BY <1>2, <1>3, <1>4, <1>5, <1>6, <1>7, <1>8, <1>9, <1>10
     DEF Request, BeginCreate, BeginRestore, BeginDuplicate, BeginUpgrade, BeginAdopt, BeginDrop,
         BeginBackup, BeginSnapshot, BeginUnsnapshot, BeginRevert, BeginReconcile, Forget

\* An operation goes where it may go.
LEMMA StepAsks ==
  ASSUME Types, Asking, DiskTypes', NEW c \in Calls, Proceed(c) \/ Ends(c)
  PROVE  AskingOf(c)'
<1> USE DEF Types, CallTypes, AskingOf, Makers, WorkLocs
<1>1. AskingOf(c) /\ Kept(c) /\ pc[c] \in WorkLocs
  BY StepProceeds DEF Asking, Proceeds
<1>2. job[c].op # "upgrade" \/ job[c].op = "upgrade"
  OBVIOUS
<1>3. ASSUME UNCHANGED job, NEW l \in WorkLocs \cup EndLocs, Goto(c, l), job[c].op \in Passes(l),
             pc[c] # "copyDb"
      PROVE  AskingOf(c)'
  BY <1>1, <1>3 DEF Goto, SnapId, EndLocs
<1>4. CASE CreateDb(c) \/ Replay(c) \/ InsertRow(c) \/ RestoreFiles(c) \/ Lookup(c) \/ CheckKnown(c)
  BY <1>1, <1>3, <1>4 DEF CreateDb, Replay, InsertRow, RestoreFiles, Lookup, CheckKnown, At,
     Passes, EndLocs, OpKinds
<1>5. CASE DropDb(c) \/ DropFiles(c) \/ DropRow(c) \/ Dump(c) \/ CopyFiles(c) \/ Mark(c)
  BY <1>1, <1>3, <1>5 DEF DropDb, DropFiles, DropRow, Dump, CopyFiles, Mark, At, Passes, EndLocs, OpKinds
<1>6. CASE SnapDb(c) \/ SnapRow(c) \/ UnsnapDb(c) \/ UnsnapFiles(c) \/ UnsnapRow(c)
  BY <1>1, <1>3, <1>6 DEF SnapDb, SnapRow, UnsnapDb, UnsnapFiles, UnsnapRow, At, Passes, EndLocs, OpKinds
<1>7. CASE DropLive(c) \/ CopyBack(c) \/ RemoveFiles(c) \/ LinkFiles(c)
  BY <1>1, <1>3, <1>7 DEF DropLive, CopyBack, RemoveFiles, LinkFiles, At, Passes, EndLocs, OpKinds
<1>8. CASE CutShort(c) \/ FolderPartly(c) \/ BackupPartly(c) \/ DumpTruncated(c)
  BY <1>1, <1>8, StopsAre DEF Goto, SnapId, Passes, Jobs
<1>9. CASE CopyDb(c)
  <2>1. /\ job[c].name \in Places /\ job[c].row.name \in Places /\ cluster[job[c].row.name] \in Contents
    BY <1>1, <1>9 DEF CopyDb, At, Passes, Possible, CanDuplicate, Places, HasRow, Rows, DiskTypes
  <2>2. cluster'[job[c].name] \in Contents
    BY <1>9, <2>1 DEF CopyDb, DiskTypes, Contents
  <2>3. job' = [job EXCEPT ![c] = [job[c] EXCEPT !.base = cluster'[job[c].name]]]
    BY <1>9 DEF CopyDb
  <2> DEFINE b == cluster'[job[c].name]
  <2> HIDE DEF b
  <2>4. [job[c] EXCEPT !.base = b].base = b /\ [job[c] EXCEPT !.base = b].snap = job[c].snap
    BY DEF Jobs
  <2>5. job'[c].base \in Contents /\ job'[c].snap = job[c].snap /\ pc'[c] = "insertRow"
    BY <1>9, <2>2, <2>3, <2>4 DEF CopyDb, Goto, b
  <2>6. job[c].snap = Absent /\ (job[c].op # "upgrade" => job'[c].hop = 0) /\ job[c].op \in {"duplicate", "upgrade"}
    BY <1>1, <1>9 DEF CopyDb, At, Passes, HasSnap, Kept
  <2> QED
    BY <1>1, <2>5, <2>6 DEF Passes, Kept, HasRow, HasSnap
<1>10. CASE SnapFiles(c)
  <2>1. /\ job'[c].base = job[c].base /\ job'[c].snap = job[c].snap /\ job'[c].hop = job[c].hop
        /\ pc'[c] = "snapRow" /\ pc[c] = "snapFiles"
    BY <1>10 DEF SnapFiles, At, Goto, Jobs
  <2> QED
    BY <1>1, <2>1 DEF Kept, Passes, HasRow, HasSnap
<1>11. CASE Hop(c)
  <2>1. /\ job'[c].base = job[c].base /\ job'[c].snap = job[c].snap /\ pc[c] = "hop"
        /\ pc'[c] \in {"snapDb", "done"} /\ job[c].op = "upgrade"
    <3>1. CASE job[c].hop + 1 < Hops
      BY <1>1, <1>11, <3>1 DEF Hop, At, Goto, Jobs, Passes
    <3>2. CASE ~(job[c].hop + 1 < Hops)
      BY <1>1, <1>11, <3>2 DEF Hop, At, Goto, Passes
    <3> QED
      BY <3>1, <3>2
  <2> QED
    BY <1>1, <2>1 DEF Kept, Passes, HasRow, HasSnap, OpKinds
<1>12. CASE HopFails(c)
  <2> DEFINE tag == [id |-> SnapId(c), of |-> c, files |-> job[c].took]
  <2>1. /\ job'[c].base = job[c].base /\ job'[c].snap = tag /\ job'[c].hop = job[c].hop
        /\ job'[c].took = job[c].took /\ pc[c] = "hop" /\ pc'[c] = "cut" /\ job[c].op = "upgrade"
    BY <1>1, <1>12 DEF HopFails, At, Goto, Jobs, Passes
  <2>2. SnapId(c)' = SnapId(c)
    BY <2>1 DEF SnapId
  <2> QED
    BY <1>1, <2>1, <2>2 DEF Kept, Passes, HasRow, HasSnap, OpKinds
<1>13. CASE AskCluster(c) \/ Unchecked(c)
  <2>1. job'[c] = Asked("reconcile", Absent, Absent, Absent) /\ pc'[c] = "done"
    BY <1>13 DEF AskCluster, Unchecked, Reports, At, Goto
  <2> QED
    BY <2>1 DEF Asked, Passes, HasRow, HasSnap, OpKinds
<1> QED
  BY <1>4, <1>5, <1>6, <1>7, <1>8, <1>9, <1>10, <1>11, <1>12, <1>13 DEF Proceed, Ends

\* No operation gets where it does not belong, nor forgets what it was asked.
LEMMA NextAsking == Types /\ Asking /\ [Next]_vars => Asking'
<1> SUFFICES ASSUME Types, Asking, [Next]_vars PROVE Asking'
  OBVIOUS
<1>1. ASSUME NEW c \in Calls, Request(c) PROVE Asking'
  BY <1>1, RequestBegins, BeginAsks, OthersAsking DEF Begins
<1>2. ASSUME NEW c \in Calls, Proceed(c) \/ Ends(c) PROVE Asking'
  BY <1>2, StepProceeds, StepAsks, OthersAsking, NextDiskTypes DEF Proceeds, Next, Ends
<1>3. ASSUME NEW n \in Places, Attach(n) PROVE Asking'
  BY <1>3 DEF Attach, Asking, AskingOf, SnapId
<1>4. CASE UNCHANGED vars
  BY <1>4 DEF vars, Asking, AskingOf, SnapId
<1> QED
  BY <1>1, <1>2, <1>3, <1>4 DEF Next, Ends

-------------------------------------------------------------------------------
\* A request takes what it is about from the rows and the report, and but for a
\* forget changes nothing else.
LEMMA BegunAsks ==
  ASSUME Types, NEW c \in Calls, Request(c)
  PROVE  /\ UNCHANGED <<disk, snapshots, report>>
         /\ UNCHANGED databases \/ Forget(c)
         /\ job'[c].op \in {"drop", "revert", "upgrade", "forget"} => job'[c].row \in databases
         /\ job'[c].op = "drop" => pc'[c] = "dropDb"
         /\ job'[c].op = "unsnapshot" => job'[c].snap \in snapshots /\ pc'[c] = "unsnapDb"
         /\ job'[c].op = "adopt" => job'[c].name \in Names \cup ListClusterDatabases /\ pc'[c] = "lookup"
         /\ job'[c].op = "restore" => pc'[c] = "createDb"
         /\ job'[c].op = "upgrade" => pc'[c] = "copyDb" /\ job'[c].snap = Absent
         /\ job'[c].op = "revert" => /\ pc'[c] = IF job'[c].undo THEN "snapDb" ELSE "dropLive"
                                     /\ job'[c].was = AttOf(cluster[job'[c].row.name])
         /\ job'[c].hop = 0
         /\ pc'[c] \in {"createDb", "copyDb", "lookup", "dropDb", "dump", "snapDb", "unsnapDb", "dropLive",
                        "askCluster"} \/ Forget(c)
<1> USE DEF Types, CallTypes
<1>1. ASSUME NEW l, NEW j, Begin(c, l, j) PROVE pc'[c] = l /\ job'[c] = j
  BY <1>1 DEF Begin, Goto
<1>2. CASE BeginRevert(c)
  <2>1. PICK d \in databases, x \in snapshots, u \in BOOLEAN :
          Begin(c, IF u THEN "snapDb" ELSE "dropLive",
                [Asked("revert", d, Absent, x) EXCEPT !.undo = u, !.was = AttOf(cluster[d.name])])
    BY <1>2 DEF BeginRevert
  <2> DEFINE w == AttOf(cluster[d.name])
             a == Asked("revert", d, Absent, x)
             r == [a EXCEPT !.undo = u, !.was = w]
  <2>2. a \in Jobs /\ w \in SUBSET Attachments
    BY AskedTypes DEF AttOf, BookTypes, DiskTypes, Contents, Rows, OpKinds
  <2>3. a.op = "revert" /\ a.row = d /\ a.hop = 0
    BY DEF Asked
  <2>4. job'[c] = r /\ pc'[c] = IF u THEN "snapDb" ELSE "dropLive"
    BY <1>1, <2>1
  <2>5. r.op = "revert" /\ r.row = d /\ r.hop = 0 /\ r.undo = u /\ r.was = w
    <3> HIDE DEF a, w
    <3> QED
      BY <2>2, <2>3 DEF Jobs
  <2> HIDE DEF r
  <2>6. UNCHANGED <<disk, book>>
    BY <1>2 DEF BeginRevert
  <2> QED
    BY <2>4, <2>5, <2>6
<1>3. CASE BeginReconcile(c)
  <2> DEFINE t == databases
             o == {x.id : x \in snapshots}
             a == Asked("reconcile", Absent, Absent, Absent)
             r == [a EXCEPT !.tracked = t, !.ours = o]
  <2>1. a \in Jobs
    BY AskedTypes DEF OpKinds
  <2>2. a.op = "reconcile" /\ a.hop = 0
    BY DEF Asked
  <2>3. job'[c] = r /\ pc'[c] = "askCluster" /\ UNCHANGED <<disk, book>>
    BY <1>1, <1>3 DEF BeginReconcile
  <2>4. r.op = "reconcile" /\ r.hop = 0
    <3> HIDE DEF a, t, o
    <3> QED
      BY <2>1, <2>2 DEF Jobs
  <2> HIDE DEF r
  <2> QED
    BY <2>3, <2>4
<1>4. CASE BeginCreate(c)
  <2>1. PICK n \in Names : Begin(c, "createDb", Asked("create", Absent, n, Absent))
    BY <1>4 DEF BeginCreate
  <2>2. pc'[c] = "createDb" /\ job'[c] = Asked("create", Absent, n, Absent)
    BY <1>1, <2>1
  <2> QED
    BY <1>4, <2>2 DEF BeginCreate, Asked
<1>5. CASE BeginRestore(c)
  <2>1. PICK i \in Ids, n \in Names : Begin(c, "createDb", Asked("restore", [id |-> i, name |-> n], n, Absent))
    BY <1>5 DEF BeginRestore
  <2>2. pc'[c] = "createDb" /\ job'[c] = Asked("restore", [id |-> i, name |-> n], n, Absent)
    BY <1>1, <2>1
  <2> QED
    BY <1>5, <2>2 DEF BeginRestore, Asked
<1>6. CASE BeginDuplicate(c)
  <2>1. PICK d \in databases, n \in Names : Begin(c, "copyDb", Asked("duplicate", d, n, Absent))
    BY <1>6 DEF BeginDuplicate
  <2>2. pc'[c] = "copyDb" /\ job'[c] = Asked("duplicate", d, n, Absent)
    BY <1>1, <2>1
  <2> QED
    BY <1>6, <2>2 DEF BeginDuplicate, Asked
<1>7. CASE BeginUpgrade(c)
  <2>1. PICK d \in databases : Begin(c, "copyDb", Asked("upgrade", d, Into[d.name], Absent))
    BY <1>7 DEF BeginUpgrade
  <2>2. pc'[c] = "copyDb" /\ job'[c] = Asked("upgrade", d, Into[d.name], Absent)
    BY <1>1, <2>1
  <2> QED
    BY <1>7, <2>2 DEF BeginUpgrade, Asked
<1>8. CASE BeginAdopt(c)
  <2>1. PICK n \in Names \cup ListClusterDatabases : Begin(c, "lookup", Asked("adopt", Absent, n, Absent))
    BY <1>8 DEF BeginAdopt
  <2>2. pc'[c] = "lookup" /\ job'[c] = Asked("adopt", Absent, n, Absent)
    BY <1>1, <2>1
  <2> QED
    BY <1>8, <2>2 DEF BeginAdopt, Asked
<1>9. ASSUME NEW l \in {"dropDb", "dump", "snapDb", "done"}, NEW op \in {"drop", "backup", "snapshot", "forget"},
             op = "drop" <=> l = "dropDb", op = "forget" <=> l = "done",
             NEW d \in databases, Begin(c, l, Asked(op, d, Absent, Absent))
      PROVE  /\ job'[c].op = op /\ job'[c].row = d /\ job'[c].hop = 0 /\ pc'[c] = l
  <2>1. pc'[c] = l /\ job'[c] = Asked(op, d, Absent, Absent)
    BY <1>1, <1>9
  <2> QED
    BY <2>1 DEF Asked
<1>10. CASE BeginDrop(c) \/ BeginBackup(c) \/ BeginSnapshot(c)
  <2>1. CASE BeginDrop(c)
    BY <1>9, <2>1 DEF BeginDrop
  <2>2. CASE BeginBackup(c)
    BY <1>9, <2>2 DEF BeginBackup
  <2>3. CASE BeginSnapshot(c)
    BY <1>9, <2>3 DEF BeginSnapshot
  <2> QED
    BY <1>10, <2>1, <2>2, <2>3
<1>11. CASE BeginUnsnapshot(c)
  <2>1. PICK x \in snapshots : Begin(c, "unsnapDb", Asked("unsnapshot", Absent, Absent, x))
    BY <1>11 DEF BeginUnsnapshot
  <2>2. pc'[c] = "unsnapDb" /\ job'[c] = Asked("unsnapshot", Absent, Absent, x)
    BY <1>1, <2>1
  <2> QED
    BY <1>11, <2>2 DEF BeginUnsnapshot, Asked
<1>12. CASE Forget(c)
  BY <1>9, <1>12 DEF Forget
<1> QED
  BY <1>2, <1>3, <1>4, <1>5, <1>6, <1>7, <1>8, <1>10, <1>11, <1>12 DEF Request

\* What a step may do to the rows, and where it takes its operation.
LEMMA StepCourse ==
  ASSUME Types, Asking, NEW c \in Calls, Proceed(c) \/ Ends(c)
  PROVE  /\ pc'[c] \in Early => pc[c] \in Early \ {"idle"}
         /\ InsertRow(c) \/ DropRow(c) \/ UNCHANGED databases
         /\ SnapRow(c) \/ UnsnapRow(c) \/ UNCHANGED snapshots
         /\ job[c].op = "drop" /\ pc'[c] = "done" => DropRow(c)
         /\ job[c].op = "unsnapshot" /\ pc'[c] = "done" => UnsnapRow(c)
         /\ \A k \in 0 .. Hops - 1 : NotYet(c, k)' => NotYet(c, k)
<1> USE DEF Types, CallTypes, WorkLocs, EndLocs, Early
<1>0. AskingOf(c)
  BY DEF Asking
<1>1. CASE UNCHANGED job
  <2>1. CASE CreateDb(c) \/ Replay(c) \/ InsertRow(c) \/ RestoreFiles(c) \/ Lookup(c) \/ CheckKnown(c)
    <3>1. CASE CreateDb(c)
      BY <1>0, <1>1, <3>1 DEF CreateDb, At, Goto, NotYet, AskingOf, Passes
    <3>2. CASE Replay(c)
      BY <1>0, <1>1, <3>2 DEF Replay, At, Goto, NotYet, AskingOf, Passes
    <3>3. CASE InsertRow(c)
      BY <1>0, <1>1, <3>3 DEF InsertRow, At, Goto, NotYet, AskingOf, Passes, Makers
    <3>4. CASE RestoreFiles(c) \/ Lookup(c) \/ CheckKnown(c)
      BY <1>0, <1>1, <3>4 DEF RestoreFiles, Lookup, CheckKnown, At, Goto, NotYet, AskingOf, Passes
    <3> QED
      BY <2>1, <3>1, <3>2, <3>3, <3>4
  <2>2. CASE DropDb(c) \/ DropFiles(c) \/ DropRow(c) \/ Dump(c) \/ CopyFiles(c) \/ Mark(c)
    BY <1>0, <1>1, <2>2 DEF DropDb, DropFiles, DropRow, Dump, CopyFiles, Mark, At, Goto, NotYet,
       AskingOf, Passes
  <2>3. CASE SnapDb(c) \/ SnapRow(c) \/ UnsnapDb(c) \/ UnsnapFiles(c) \/ UnsnapRow(c)
    <3>1. CASE SnapDb(c)
      BY <1>0, <1>1, <3>1 DEF SnapDb, At, Goto, NotYet, AskingOf, Passes
    <3>2. CASE SnapRow(c)
      BY <1>0, <1>1, <3>2 DEF SnapRow, At, Goto, NotYet, AskingOf, Passes, Jobs
    <3>3. CASE UnsnapDb(c) \/ UnsnapFiles(c) \/ UnsnapRow(c)
      BY <1>0, <1>1, <3>3 DEF UnsnapDb, UnsnapFiles, UnsnapRow, At, Goto, NotYet, AskingOf, Passes
    <3> QED
      BY <2>3, <3>1, <3>2, <3>3
  <2>4. CASE DropLive(c) \/ CopyBack(c) \/ RemoveFiles(c) \/ LinkFiles(c)
    BY <1>0, <1>1, <2>4 DEF DropLive, CopyBack, RemoveFiles, LinkFiles, At, Goto, NotYet, AskingOf,
       Passes
  <2>5. CASE CutShort(c) \/ FolderPartly(c) \/ BackupPartly(c) \/ DumpTruncated(c)
    BY <1>0, <1>1, <2>5, StopsAre DEF Goto, NotYet
  <2>6. CASE Hop(c)
    BY <1>0, <1>1, <2>6 DEF Hop, At, Goto, NotYet, AskingOf, Passes, Jobs
  <2>7. CASE CopyDb(c) \/ SnapFiles(c) \/ HopFails(c) \/ AskCluster(c) \/ Unchecked(c)
    BY <1>0, <1>1, <2>7 DEF CopyDb, SnapFiles, HopFails, AskCluster, Unchecked, Reports, At, Goto,
       NotYet, AskingOf, Passes
  <2> QED
    BY <2>1, <2>2, <2>3, <2>4, <2>5, <2>6, <2>7 DEF Proceed, Ends
<1>2. CASE job' # job
  <2>1. CASE CopyDb(c)
    <3>1. job'[c].hop = job[c].hop
      BY <2>1 DEF CopyDb, Jobs
    <3> QED
      BY <1>0, <2>1, <3>1 DEF CopyDb, At, Goto, NotYet, AskingOf, Passes
  <2>2. CASE SnapFiles(c)
    <3>1. job'[c].hop = job[c].hop
      BY <2>2 DEF SnapFiles, Jobs
    <3> QED
      BY <1>0, <2>2, <3>1 DEF SnapFiles, At, Goto, NotYet, AskingOf, Passes
  <2>3. CASE Hop(c)
    <3>1. job[c].hop + 1 < Hops
      BY <1>2, <2>3 DEF Hop
    <3>2. job' = [job EXCEPT ![c] = [[job[c] EXCEPT !.hop = @ + 1] EXCEPT !.took = FALSE]]
      BY <2>3, <3>1 DEF Hop
    <3>3. job'[c].hop = job[c].hop + 1
      BY <3>2 DEF Jobs
    <3> QED
      BY <1>0, <2>3, <3>1, <3>3 DEF Hop, At, Goto, NotYet, AskingOf, Passes, Jobs
  <2>4. CASE HopFails(c)
    BY <1>0, <2>4 DEF HopFails, At, Goto, NotYet, AskingOf, Passes
  <2>5. CASE AskCluster(c) \/ Unchecked(c)
    BY <1>0, <2>5 DEF AskCluster, Unchecked, Reports, At, Goto, NotYet, AskingOf, Passes
  <2>6. UNCHANGED job \/ CopyDb(c) \/ SnapFiles(c) \/ Hop(c) \/ HopFails(c) \/ AskCluster(c) \/ Unchecked(c)
    BY DEF Proceed, Ends, CreateDb, Replay, InsertRow, RestoreFiles, Lookup, CheckKnown, DropDb,
       DropFiles, DropRow,
           Dump, CopyFiles, Mark, SnapDb, SnapRow, UnsnapDb, UnsnapFiles, UnsnapRow, DropLive, CopyBack,
           RemoveFiles, LinkFiles, CutShort, FolderPartly, BackupPartly, DumpTruncated
  <2> QED
    BY <1>2, <2>1, <2>2, <2>3, <2>4, <2>5, <2>6
<1> QED
  BY <1>1, <1>2

\* An attachment changes neither the rows nor the operations.
LEMMA AttachStays ==
  ASSUME NEW n \in Places, Attach(n)
  PROVE  UNCHANGED <<dumps, dumpFiles, book, pc, job>>
BY DEF Attach

\* A row's id is its operation's: a row that a drop removed stays removed.
LEMMA NextRowIds == Types /\ Asking /\ RowIds /\ [Next]_vars => RowIds'
<1> SUFFICES ASSUME Types, Asking, RowIds, [Next]_vars PROVE RowIds'
  OBVIOUS
<1> USE DEF RowIds
<1>1. ASSUME NEW c \in Calls, Request(c) PROVE RowIds'
  <2>1. Begins(c) /\ pc[c] \in Early
    BY <1>1, RequestBegins DEF Begins, Early
  <2>2. \A e \in Calls : pc'[e] \in Early => pc[e] \in Early
    BY <2>1 DEF Begins, OthersStay
  <2>3. databases' \subseteq databases
    BY <1>1, BegunAsks DEF Forget, DeleteDatabase
  <2>4. job'[c].op = "drop" => job'[c].row \in databases /\ pc'[c] = "dropDb"
    BY <1>1, BegunAsks
  <2>5. \A e \in Calls : job'[e].op = "drop" /\ e # c =>
          job[e].op = "drop" /\ job'[e].row = job[e].row /\ pc'[e] = pc[e]
    BY <2>1 DEF Begins, OthersStay
  <2> QED
    BY <2>2, <2>3, <2>4, <2>5
<1>2. ASSUME NEW c \in Calls, Proceed(c) \/ Ends(c) PROVE RowIds'
  <2>1. Proceeds(c) /\ c \in Calls
    BY <1>2, StepProceeds
  <2>2. \A e \in Calls : pc'[e] \in Early => pc[e] \in Early
    BY <1>2, <2>1, StepCourse DEF Proceeds, OthersStay
  <2>3. \A e \in Calls : job'[e].op = "drop" => job[e].op = "drop" /\ job'[e].row = job[e].row
    BY <2>1 DEF Proceeds, OthersStay, Kept
  <2>4. CASE InsertRow(c)
    <3>1. pc[c] = "insertRow" /\ databases' = databases \cup {[id |-> c, name |-> job[c].name]}
      BY <2>4 DEF InsertRow, At, InsertDatabase
    <3>2. pc[c] \in Early /\ pc'[c] \notin Early
      BY <2>4, <3>1 DEF InsertRow, At, Goto, Early, Types, CallTypes
    <3>3. \A e \in Calls : job[e].op = "drop" => pc'[e] = pc[e] /\ job[e].row.id # c
      BY <2>1, <3>1, <3>2 DEF Proceeds, OthersStay, Asking, AskingOf, Passes, Makers
    <3> QED
      BY <2>2, <2>3, <3>1, <3>2, <3>3
  <2>5. CASE DropRow(c)
    <3>1. databases' = {d \in databases : d.id # job[c].row.id}
      BY <2>5 DEF DropRow, DeleteDatabase
    <3>2. \A e \in Calls \ {c} : pc'[e] = pc[e]
      BY <2>1 DEF Proceeds, OthersStay
    <3> QED
      BY <2>2, <2>3, <3>1, <3>2
  <2>6. CASE ~InsertRow(c) /\ ~DropRow(c)
    <3>1. UNCHANGED databases /\ (job[c].op = "drop" => pc'[c] # "done")
      BY <1>2, <2>6, StepCourse
    <3>2. \A e \in Calls \ {c} : pc'[e] = pc[e]
      BY <2>1 DEF Proceeds, OthersStay
    <3> QED
      BY <2>2, <2>3, <3>1, <3>2
  <2> QED
    BY <2>4, <2>5, <2>6
<1>3. ASSUME NEW n \in Places, Attach(n) PROVE RowIds'
  BY <1>3, AttachStays
<1>4. CASE UNCHANGED vars
  BY <1>4 DEF vars
<1> QED
  BY <1>1, <1>2, <1>3, <1>4 DEF Next, Ends

\* A snapshot's id is its operation's and its hop's: one that was deleted stays deleted.
LEMMA NextSnapshotIds == Types /\ Asking /\ SnapshotIds /\ [Next]_vars => SnapshotIds'
<1> SUFFICES ASSUME Types, Asking, SnapshotIds, [Next]_vars PROVE SnapshotIds'
  OBVIOUS
<1> USE DEF SnapshotIds
<1>1. ASSUME NEW c \in Calls, Request(c) PROVE SnapshotIds'
  <2>1. Begins(c)
    BY <1>1, RequestBegins
  <2>2. \A e \in Calls, k \in 0 .. Hops - 1 : NotYet(e, k)' => NotYet(e, k)
    <3>1. \A e \in Calls \ {c}, k \in 0 .. Hops - 1 : NotYet(e, k)' => NotYet(e, k)
      BY <2>1 DEF Begins, OthersStay, NotYet, Early
    <3>2. job[c].hop = 0 /\ pc[c] = "idle"
      <4>1. NoJob.hop = 0
        BY DEF NoJob, Asked
      <4> QED
        BY <2>1, <4>1 DEF Begins, Asking, AskingOf
    <3>3. \A k \in 0 .. Hops - 1 : NotYet(c, k)
      BY <3>2, ConstantsAssumption DEF NotYet, Early
    <3> QED
      BY <3>1, <3>3
  <2>3. UNCHANGED snapshots
    BY <1>1, BegunAsks
  <2>4. job'[c].op = "unsnapshot" => job'[c].snap \in snapshots /\ pc'[c] = "unsnapDb"
    BY <1>1, BegunAsks
  <2>5. \A e \in Calls : job'[e].op = "unsnapshot" /\ e # c =>
          job[e].op = "unsnapshot" /\ job'[e].snap = job[e].snap /\ pc'[e] = pc[e]
    BY <2>1 DEF Begins, OthersStay
  <2> QED
    BY <2>2, <2>3, <2>4, <2>5
<1>2. ASSUME NEW c \in Calls, Proceed(c) \/ Ends(c) PROVE SnapshotIds'
  <2>1. Proceeds(c)
    BY <1>2, StepProceeds
  <2>2. \A e \in Calls, k \in 0 .. Hops - 1 : NotYet(e, k)' => NotYet(e, k)
    <3>1. \A e \in Calls \ {c}, k \in 0 .. Hops - 1 : NotYet(e, k)' => NotYet(e, k)
      BY <2>1 DEF Proceeds, OthersStay, NotYet, Early
    <3> QED
      BY <1>2, <3>1, StepCourse
  <2>3. \A e \in Calls : job'[e].op = "unsnapshot" => job[e].op = "unsnapshot" /\ job'[e].snap = job[e].snap
    BY <2>1 DEF Proceeds, OthersStay, Kept
  <2>4. CASE SnapRow(c)
    <3> DEFINE tag == [id |-> SnapId(c), of |-> Source(c).id, files |-> job[c].took]
    <3>1. pc[c] = "snapRow" /\ snapshots' = snapshots \cup {tag} /\ UNCHANGED job
      BY <2>4 DEF SnapRow, At, InsertSnapshot
    <3>2. tag.id = <<c, job[c].hop>> /\ job[c].hop \in 0 .. Hops - 1
      BY DEF SnapId, Types, CallTypes, Jobs
    <3>3. NotYet(c, job[c].hop)
      BY <3>1, <3>2 DEF NotYet, Early
    <3>4. ~NotYet(c, job[c].hop)'
      <4>1. pc'[c] \in {"dropLive", "hop", "done"}
        BY <2>4 DEF SnapRow, Goto, Types, CallTypes
      <4> QED
        BY <3>1, <3>2, <4>1 DEF NotYet, Early
    <3>5. \A e \in Calls : job[e].op = "unsnapshot" => pc'[e] = pc[e] /\ job[e].snap.id # <<c, job[c].hop>>
      <4>1. job[c].op # "unsnapshot"
        BY <3>1 DEF Asking, AskingOf, Passes
      <4> QED
        BY <2>1, <3>2, <3>3, <4>1 DEF Proceeds, OthersStay
    <3> HIDE DEF tag
    <3>6. \A e \in Calls, k \in 0 .. Hops - 1 : NotYet(e, k)' => <<e, k>> # <<c, job[c].hop>>
      <4>1. SUFFICES ASSUME NEW e \in Calls, NEW k \in 0 .. Hops - 1, NotYet(e, k)', <<e, k>> = <<c, job[c].hop>>
                     PROVE  FALSE
        OBVIOUS
      <4>2. e = c /\ k = job[c].hop
        BY <4>1
      <4> QED
        BY <3>1, <3>4, <4>1, <4>2 DEF NotYet, Early
    <3> QED
      BY <2>2, <2>3, <3>1, <3>2, <3>5, <3>6
  <2>5. CASE UnsnapRow(c)
    <3>1. snapshots' = {x \in snapshots : x.id # job[c].snap.id}
      BY <2>5 DEF UnsnapRow, DeleteSnapshot
    <3>2. \A e \in Calls \ {c} : pc'[e] = pc[e]
      BY <2>1 DEF Proceeds, OthersStay
    <3> QED
      BY <2>2, <2>3, <3>1, <3>2
  <2>6. CASE ~SnapRow(c) /\ ~UnsnapRow(c)
    <3>1. UNCHANGED snapshots /\ (job[c].op = "unsnapshot" => pc'[c] # "done")
      BY <1>2, <2>6, StepCourse
    <3>2. \A e \in Calls \ {c} : pc'[e] = pc[e]
      BY <2>1 DEF Proceeds, OthersStay
    <3> QED
      BY <2>2, <2>3, <3>1, <3>2
  <2> QED
    BY <2>4, <2>5, <2>6
<1>3. ASSUME NEW n \in Places, Attach(n) PROVE SnapshotIds'
  BY <1>3, AttachStays DEF NotYet, Early
<1>4. CASE UNCHANGED vars
  BY <1>4 DEF vars, NotYet
<1> QED
  BY <1>1, <1>2, <1>3, <1>4 DEF Next, Ends

-------------------------------------------------------------------------------
(* What steps do to the disk *)

\* Which step an operation takes from a place.
LEMMA StepAt ==
  ASSUME Types, NEW c \in Calls, Proceed(c) \/ Ends(c)
  PROVE  /\ pc[c] = "dropLive"    => DropLive(c) \/ CutShort(c)
         /\ pc[c] = "copyBack"    => CopyBack(c) \/ CutShort(c)
         /\ pc[c] = "linkFiles"   => LinkFiles(c) \/ CutShort(c) \/ FolderPartly(c)
         /\ pc[c] = "dropFiles"   => DropFiles(c) \/ CutShort(c)
         /\ pc[c] = "dropRow"     => DropRow(c) \/ CutShort(c)
         /\ pc[c] = "snapDb"      => SnapDb(c) \/ CutShort(c)
         /\ pc[c] = "snapFiles"   => SnapFiles(c) \/ CutShort(c) \/ FolderPartly(c)
         /\ pc[c] = "snapRow"     => SnapRow(c) \/ CutShort(c)
         /\ pc[c] = "replay"      => Replay(c) \/ CutShort(c)
         /\ pc[c] = "copyDb"      => CopyDb(c) \/ CutShort(c)
         /\ pc[c] = "insertRow"   => InsertRow(c) \/ CutShort(c)
         /\ pc[c] = "hop"         => Hop(c) \/ HopFails(c) \/ CutShort(c)
<1> USE DEF At, InFlight, Goto
<1>1. CASE CreateDb(c) \/ Replay(c) \/ InsertRow(c) \/ RestoreFiles(c) \/ CopyDb(c) \/ Lookup(c) \/ CheckKnown(c)
  BY <1>1 DEF CreateDb, Replay, InsertRow, RestoreFiles, CopyDb, Lookup, CheckKnown
<1>2. CASE DropDb(c) \/ DropFiles(c) \/ DropRow(c) \/ Dump(c) \/ CopyFiles(c) \/ Mark(c)
  BY <1>2 DEF DropDb, DropFiles, DropRow, Dump, CopyFiles, Mark
<1>3. CASE SnapDb(c) \/ SnapFiles(c) \/ SnapRow(c) \/ UnsnapDb(c) \/ UnsnapFiles(c) \/ UnsnapRow(c)
  BY <1>3 DEF SnapDb, SnapFiles, SnapRow, UnsnapDb, UnsnapFiles, UnsnapRow
<1>4. CASE DropLive(c) \/ CopyBack(c) \/ RemoveFiles(c) \/ LinkFiles(c)
  BY <1>4 DEF DropLive, CopyBack, RemoveFiles, LinkFiles
<1>5. CASE Hop(c) \/ AskCluster(c) \/ Ends(c)
  BY <1>5 DEF Hop, AskCluster, Ends, FolderPartly, BackupPartly, DumpTruncated, HopFails, Unchecked
<1> QED
  BY <1>1, <1>2, <1>3, <1>4, <1>5 DEF Proceed

\* Which step brings an operation to a place.
LEMMA StepTo ==
  ASSUME Types, NEW c \in Calls, Proceed(c) \/ Ends(c)
  PROVE  /\ pc'[c] \notin {"createDb", "copyDb", "lookup", "dropDb", "dump", "unsnapDb", "askCluster"}
         /\ pc'[c] = "replay"     => CreateDb(c)
         /\ pc'[c] = "insertRow"  => CreateDb(c) \/ Replay(c) \/ CopyDb(c) \/ CheckKnown(c)
         /\ pc'[c] = "checkKnown" => Lookup(c)
         /\ pc'[c] = "snapDb"     => InsertRow(c) \/ Hop(c)
         /\ pc'[c] = "snapFiles"  => SnapDb(c)
         /\ pc'[c] = "snapRow"    => SnapFiles(c)
         /\ pc'[c] = "hop"        => SnapRow(c)
         /\ pc'[c] = "cut"        => CutShort(c) \/ FolderPartly(c) \/ BackupPartly(c) \/ DumpTruncated(c) \/ HopFails(c)
<1> USE DEF Goto, Types, CallTypes
<1>1. CASE CreateDb(c) \/ Replay(c) \/ InsertRow(c) \/ RestoreFiles(c) \/ CopyDb(c) \/ Lookup(c) \/ CheckKnown(c)
  BY <1>1 DEF CreateDb, Replay, InsertRow, RestoreFiles, CopyDb, Lookup, CheckKnown
<1>2. CASE DropDb(c) \/ DropFiles(c) \/ DropRow(c) \/ Dump(c) \/ CopyFiles(c) \/ Mark(c)
  BY <1>2 DEF DropDb, DropFiles, DropRow, Dump, CopyFiles, Mark
<1>3. CASE SnapDb(c) \/ SnapFiles(c) \/ SnapRow(c) \/ UnsnapDb(c) \/ UnsnapFiles(c) \/ UnsnapRow(c)
  BY <1>3 DEF SnapDb, SnapFiles, SnapRow, UnsnapDb, UnsnapFiles, UnsnapRow
<1>4. CASE DropLive(c) \/ CopyBack(c) \/ RemoveFiles(c) \/ LinkFiles(c)
  BY <1>4 DEF DropLive, CopyBack, RemoveFiles, LinkFiles
<1>5. CASE Hop(c)
  BY <1>5 DEF Hop
<1>6. CASE AskCluster(c) \/ Ends(c)
  BY <1>6 DEF AskCluster, Reports, Ends, CutShort, FolderPartly, BackupPartly, DumpTruncated, HopFails, Unchecked
<1> QED
  BY <1>1, <1>2, <1>3, <1>4, <1>5, <1>6 DEF Proceed

\* The content of a database nobody has used.
LEMMA EmptyIs == Empty \in Contents /\ Empty # Absent
<1>1. 0 \in 0 .. Hops
  BY ConstantsAssumption
<1>2. Empty \in Contents
  BY <1>1 DEF Empty, Contents
<1> QED
  BY <1>2, ConstantsAssumption

\* The names an operation works on are names.
LEMMA NamesKnown ==
  ASSUME Types, Asking, NEW c \in Calls
  PROVE  /\ job[c].op \in Makers => job[c].name \in Names
         /\ pc[c] \in {"createDb", "copyDb", "replay", "hop"} => job[c].op \in Makers
         /\ pc[c] \in {"insertRow", "lookup", "checkKnown"} => job[c].name \in Places
         /\ HasRow(job[c].op) => job[c].row \in Rows /\ job[c].row.name \in Places
         /\ HasSnap(job[c].op) => job[c].snap \in SnapRows /\ job[c].snap.id \in SnapIds
         /\ SnapId(c) \in SnapIds /\ SnapId(c) \in Places
         /\ pc[c] \in {"snapDb", "snapFiles", "snapRow"} => Source(c).name \in Places
<1> USE DEF Types, CallTypes
<1>1. AskingOf(c)
  BY DEF Asking
<1>2. job[c].op \in Makers => job[c].name \in Names
  BY <1>1 DEF AskingOf
<1>3. pc[c] \in {"createDb", "copyDb", "replay", "hop"} => job[c].op \in Makers
  BY <1>1 DEF AskingOf, Passes, Makers
<1>4. pc[c] \in {"insertRow", "lookup", "checkKnown"} => job[c].name \in Places
  <2>1. pc[c] \in {"insertRow", "lookup", "checkKnown"} => job[c].op \in Makers \cup {"adopt"}
    BY <1>1 DEF AskingOf, Passes, Makers
  <2> QED
    BY <1>1, <1>2, <2>1 DEF AskingOf, Places
<1>5. HasRow(job[c].op) => job[c].row \in Rows /\ job[c].row.name \in Places
  BY <1>1 DEF AskingOf, Rows
<1>6. HasSnap(job[c].op) => job[c].snap \in SnapRows /\ job[c].snap.id \in SnapIds
  BY <1>1 DEF AskingOf, SnapRows
<1>7. SnapId(c) \in SnapIds /\ SnapId(c) \in Places
  BY DEF SnapId, SnapIds, Places, Jobs
<1>8. pc[c] \in {"snapDb", "snapFiles", "snapRow"} => Source(c).name \in Places
  <2>1. pc[c] \in {"snapDb", "snapFiles", "snapRow"} => job[c].op \in {"snapshot", "revert", "upgrade"}
    BY <1>1 DEF AskingOf, Passes
  <2> QED
    BY <1>2, <1>5, <2>1 DEF Source, HasRow, Makers, Places
<1> QED
  BY <1>2, <1>3, <1>4, <1>5, <1>6, <1>7, <1>8

\* The steps that put a database under a name, or change the one that is there.
LEMMA ClusterSteps ==
  ASSUME Types, Asking, [Next]_vars, NEW n \in Places, cluster'[n] # cluster[n]
  PROVE  \/ \E c \in Calls :
              \/ /\ CreateDb(c) /\ n = job[c].name /\ cluster[n] = Absent /\ cluster'[n] = Empty
              \/ /\ Replay(c) /\ n = job[c].name /\ cluster[n] # Absent /\ cluster'[n] # Absent
                 /\ AttOf(cluster[n]) \subseteq AttOf(cluster'[n])
              \/ /\ CopyDb(c) /\ n = job[c].name /\ cluster[n] = Absent
                 /\ cluster[job[c].row.name] \in Contents
                 /\ cluster'[n] = [cluster[job[c].row.name] EXCEPT !.bare = TRUE]
              \/ DropDb(c) /\ n = job[c].row.name
              \/ DropLive(c) /\ n = job[c].row.name
              \/ UnsnapDb(c) /\ n = job[c].snap.id
              \/ /\ SnapDb(c) /\ n = SnapId(c) /\ cluster[n] = Absent
                 /\ cluster[Source(c).name] # Absent /\ cluster'[n] = cluster[Source(c).name]
              \/ /\ CopyBack(c) /\ n = job[c].row.name /\ cluster[n] = Absent /\ cluster'[n] # Absent
              \/ /\ Hop(c) /\ n = job[c].name /\ cluster[n] \in Contents
                 /\ cluster'[n] = [cluster[n] EXCEPT !.version = job[c].hop + 1]
              \/ /\ HopFails(c) /\ n = job[c].name /\ cluster[n] \in Contents
                 /\ cluster'[n] = [cluster[n] EXCEPT !.mixed = TRUE]
         \/ \E a \in Attachments :
              /\ Attach(n) /\ cluster[n] \in Contents
              /\ cluster'[n] = [cluster[n] EXCEPT !.att = @ \cup {a}]
<1> USE DEF Types, DiskTypes, At, Possible
<1>1. ASSUME NEW c \in Calls, CreateDb(c)
      PROVE  n = job[c].name /\ cluster[n] = Absent /\ cluster'[n] = Empty
  BY <1>1 DEF CreateDb, CreateDatabase, CanCreate
<1>2. ASSUME NEW c \in Calls, Replay(c)
      PROVE  /\ n = job[c].name /\ cluster[n] # Absent /\ cluster'[n] # Absent
             /\ AttOf(cluster[n]) \subseteq AttOf(cluster'[n])
  <2>1. n = job[c].name /\ cluster[n] # Absent
    BY <1>2 DEF Replay, DatabaseExists
  <2>2. job[c].row.id \in Ids
    BY <1>2 DEF Replay, Asking, AskingOf, Passes, HasRow, Rows
  <2> DEFINE dump == dumps[job[c].row.id]
             a == dump.att \cup cluster[n].att
  <2>3. dump \in Contents /\ cluster[n] \in Contents
    BY <1>2, <2>1, <2>2 DEF Replay
  <2>4. cluster'[n] = [dump EXCEPT !.att = a]
    BY <1>2, <2>1 DEF Replay
  <2>5. a \in SUBSET Attachments
    BY <2>3 DEF Contents
  <2> HIDE DEF dump
  <2>6. cluster'[n] \in Contents /\ cluster'[n].att = a
    <3> HIDE DEF a
    <3> QED
      BY <2>3, <2>4, <2>5 DEF Contents
  <2> QED
    BY <2>1, <2>3, <2>6, ConstantsAssumption DEF AttOf
<1>3. ASSUME NEW c \in Calls, CopyDb(c)
      PROVE  /\ n = job[c].name /\ cluster[n] = Absent
             /\ cluster[job[c].row.name] \in Contents
             /\ cluster'[n] = [cluster[job[c].row.name] EXCEPT !.bare = TRUE]
  <2>1. n = job[c].name
    BY <1>3 DEF CopyDb
  <2>2. job[c].row.name \in Places
    BY <1>3 DEF CopyDb, Asking, AskingOf, Passes, HasRow, Rows
  <2> QED
    BY <1>3, <2>1, <2>2 DEF CopyDb, CanDuplicate
<1>4. ASSUME NEW c \in Calls, DropDb(c) PROVE n = job[c].row.name
  BY <1>4 DEF DropDb, DropDatabase
<1>5. ASSUME NEW c \in Calls, DropLive(c) PROVE n = job[c].row.name
  BY <1>5 DEF DropLive, DropDatabase
<1>6. ASSUME NEW c \in Calls, UnsnapDb(c) PROVE n = job[c].snap.id
  BY <1>6 DEF UnsnapDb, DropDatabase
<1>7. ASSUME NEW c \in Calls, SnapDb(c)
      PROVE  /\ n = SnapId(c) /\ cluster[n] = Absent
             /\ cluster[Source(c).name] # Absent /\ cluster'[n] = cluster[Source(c).name]
  BY <1>7 DEF SnapDb, DuplicateDatabase, CanDuplicate
<1>8. ASSUME NEW c \in Calls, CopyBack(c)
      PROVE  n = job[c].row.name /\ cluster[n] = Absent /\ cluster'[n] # Absent
  BY <1>8 DEF CopyBack, DuplicateDatabase, CanDuplicate
<1>9. ASSUME NEW c \in Calls, Hop(c)
      PROVE  /\ n = job[c].name /\ cluster[n] \in Contents
             /\ cluster'[n] = [cluster[n] EXCEPT !.version = job[c].hop + 1]
  BY <1>9 DEF Hop, DatabaseExists
<1>10. ASSUME NEW c \in Calls, HopFails(c)
       PROVE  /\ n = job[c].name /\ cluster[n] \in Contents
              /\ cluster'[n] = [cluster[n] EXCEPT !.mixed = TRUE]
  BY <1>10 DEF HopFails, DatabaseExists
<1>11. ASSUME NEW m \in Places, Attach(m)
       PROVE  /\ m = n /\ cluster[n] \in Contents
              /\ \E a \in Attachments : cluster'[n] = [cluster[n] EXCEPT !.att = @ \cup {a}]
  <2>1. PICK a \in Attachments : cluster' = [cluster EXCEPT ![m].att = @ \cup {a}]
    BY <1>11 DEF Attach
  <2>2. m = n /\ cluster[n] # Absent
    BY <1>11, <2>1 DEF Attach, DatabaseExists
  <2>3. cluster'[n] = [cluster[n] EXCEPT !.att = @ \cup {a}]
    BY <2>1, <2>2
  <2> QED
    BY <2>2, <2>3
<1>12. ASSUME NEW c \in Calls, Request(c) PROVE FALSE
  BY <1>12, BegunAsks
<1>13. ASSUME NEW c \in Calls, InsertRow(c) \/ RestoreFiles(c) \/ Lookup(c) \/ CheckKnown(c) \/ DropFiles(c)
                               \/ DropRow(c) \/ Dump(c) \/ CopyFiles(c) \/ Mark(c)
       PROVE  FALSE
  BY <1>13 DEF InsertRow, RestoreFiles, Lookup, CheckKnown, DropFiles, DropRow, Dump, CopyFiles, Mark
<1>14. ASSUME NEW c \in Calls, SnapFiles(c) \/ SnapRow(c) \/ UnsnapFiles(c) \/ UnsnapRow(c) \/ RemoveFiles(c)
                               \/ LinkFiles(c) \/ AskCluster(c) \/ (Ends(c) /\ ~HopFails(c))
       PROVE  FALSE
  BY <1>14, StopsAre DEF SnapFiles, SnapRow, UnsnapFiles, UnsnapRow, RemoveFiles, LinkFiles, AskCluster,
               Ends, Unchecked, Reports
<1>15. (\E c \in Calls : Request(c) \/ Proceed(c) \/ Ends(c))
       \/ \E m \in Places : Attach(m)
  BY DEF Next, Ends, vars
<1> HIDE DEF Types, DiskTypes, At, Possible
<1>16. CASE \E m \in Places : Attach(m)
  BY <1>11, <1>16
<1>17. CASE \E c \in Calls : Request(c) \/ Proceed(c) \/ Ends(c)
  <2>1. PICK c \in Calls : Request(c) \/ Proceed(c) \/ Ends(c)
    BY <1>17
  <2>2. \/ CreateDb(c) \/ Replay(c) \/ CopyDb(c) \/ DropDb(c) \/ DropLive(c) \/ UnsnapDb(c) \/ SnapDb(c)
        \/ CopyBack(c) \/ Hop(c) \/ HopFails(c)
    BY <2>1, <1>12, <1>13, <1>14 DEF Proceed
  <2> QED
    BY <2>2, <1>1, <1>2, <1>3, <1>4, <1>5, <1>6, <1>7, <1>8, <1>9, <1>10
<1> QED
  BY <1>15, <1>16, <1>17

\* What an operation makes was not there, and is.
LEMMA MadeExists ==
  ASSUME Types, Asking, NEW c \in Calls, CreateDb(c) \/ CopyDb(c)
  PROVE  LET n == job[c].name IN n \in Names /\ n \in Places /\ cluster[n] = Absent /\ cluster'[n] # Absent
<1> DEFINE n == job[c].name
<1>1. n \in Names /\ n \in Places
  BY NamesKnown DEF CreateDb, CopyDb, At, Places
<1>2. cluster[n] = Absent
  BY DEF CreateDb, CopyDb, At, Possible, CanCreate, CanDuplicate
<1>3. CASE CreateDb(c)
  <2>1. cluster' = [cluster EXCEPT ![n] = Empty]
    BY <1>3 DEF CreateDb, CreateDatabase
  <2> QED
    BY <1>1, <1>2, <2>1, EmptyIs DEF Types, DiskTypes
<1>4. CASE CopyDb(c)
  <2>1. job[c].row.name \in Places
    BY <1>4, NamesKnown DEF CopyDb, At, Asking, AskingOf, Passes, HasRow
  <2>2. cluster[job[c].row.name] \in Contents
    BY <1>4, <2>1 DEF CopyDb, At, Possible, CanDuplicate, Types, DiskTypes
  <2>3. [cluster[job[c].row.name] EXCEPT !.bare = TRUE] \in Contents
    BY <2>2 DEF Contents
  <2>4. cluster' = [cluster EXCEPT ![n] = [cluster[job[c].row.name] EXCEPT !.bare = TRUE]]
    BY <1>4 DEF CopyDb
  <2> QED
    BY <1>1, <1>2, <2>3, <2>4, ConstantsAssumption DEF Types, DiskTypes
<1> QED
  BY <1>1, <1>2, <1>3, <1>4

\* The steps that take a database away.
LEMMA DatabaseLost ==
  ASSUME Types, Asking, [Next]_vars, NEW n \in Places, cluster[n] # Absent, cluster'[n] = Absent
  PROVE  \E c \in Calls : \/ DropDb(c) /\ n = job[c].row.name
                          \/ DropLive(c) /\ n = job[c].row.name
                          \/ UnsnapDb(c) /\ n = job[c].snap.id
<1>1. Empty # Absent
  BY EmptyIs
<1>2. \A d \in Contents : [d EXCEPT !.mixed = TRUE] # Absent
  BY ConstantsAssumption DEF Contents
<1>3. \A d \in Contents, a \in Attachments : [d EXCEPT !.att = @ \cup {a}] # Absent
  <2>1. \A d \in Contents, a \in Attachments : d.att \cup {a} \in SUBSET Attachments
    BY DEF Contents
  <2>2. \A d \in Contents, x \in SUBSET Attachments : [d EXCEPT !.att = x] \in Contents
    BY DEF Contents
  <2> QED
    BY <2>1, <2>2, ConstantsAssumption
<1>4. \A c \in Calls : Hop(c) => [cluster[n] EXCEPT !.version = job[c].hop + 1] \in Contents \/ cluster[n] \notin Contents
  BY ConstantsAssumption DEF Contents, Types, CallTypes, Jobs
<1> QED
  BY ClusterSteps, <1>1, <1>2, <1>3, <1>4, ConstantsAssumption

\* The steps that take a folder away.
LEMMA FilesLost ==
  ASSUME Types, Asking, [Next]_vars, NEW n \in Places, files[n] # Absent, files'[n] = Absent
  PROVE  \E c \in Calls :
           \/ DropFiles(c) /\ n = job[c].row.name
           \/ UnsnapFiles(c) /\ n = job[c].snap.id
           \/ RemoveFiles(c) /\ n = job[c].row.name
<1> USE DEF Types, DiskTypes, At, Possible
<1>0. ASSUME NEW m, NEW f, LeavesPart(m, f), f = Absent \/ f \subseteq Attachments PROVE FALSE
  <2>1. PICK part \in SUBSET f : files' = [files EXCEPT ![m] = part]
    BY <1>0
  <2>2. part \in SUBSET Attachments
    BY <1>0
  <2> QED
    BY <2>1, <2>2, ConstantsAssumption
<1>1. ASSUME NEW c \in Calls, DropFiles(c) PROVE n = job[c].row.name
  <2>1. job[c].row.name \in Places
    BY <1>1, NamesKnown DEF DropFiles, Asking, AskingOf, Passes, HasRow
  <2>2. LiveFolder(job[c].row.name) = Absent \/ LiveFolder(job[c].row.name) \subseteq Attachments
    BY <2>1
  <2>3. CASE RemoveLiveFolder(job[c].row.name)
    BY <2>3
  <2> QED
    BY <1>0, <1>1, <2>2, <2>3 DEF DropFiles
<1>2. ASSUME NEW c \in Calls, UnsnapFiles(c) PROVE n = job[c].snap.id
  BY <1>2 DEF UnsnapFiles, RemoveDirectory
<1>3. ASSUME NEW c \in Calls, RemoveFiles(c) PROVE n = job[c].row.name
  BY <1>3 DEF RemoveFiles, RemoveDirectory
<1>4. ASSUME NEW c \in Calls, RestoreFiles(c) \/ SnapFiles(c) \/ LinkFiles(c) PROVE FALSE
  BY <1>4 DEF RestoreFiles, SnapFiles, LinkFiles, SnapshotDirectory, CanSnapshotDirectory
<1>12. ASSUME NEW c \in Calls, FolderPartly(c) PROVE FALSE
  <2>1. /\ LiveFolder(Source(c).name) = Absent \/ LiveFolder(Source(c).name) \subseteq Attachments
        /\ LiveFolder(job[c].row.name) = Absent \/ LiveFolder(job[c].row.name) \subseteq Attachments
    BY DEF Places
  <2>2. At(c, "linkFiles") \/ At(c, "unsnapFiles") =>
          files[job[c].snap.id] = Absent \/ files[job[c].snap.id] \subseteq Attachments
    BY NamesKnown DEF Asking, AskingOf, Passes, HasSnap, Places
  <2>3. At(c, "restoreFiles") =>
          dumpFiles[job[c].row.id] = Absent \/ dumpFiles[job[c].row.id] \subseteq Attachments
    BY NamesKnown DEF Asking, AskingOf, Passes, HasRow, Rows
  <2> HIDE DEF At, LeavesPart, LiveFolder
  <2> QED
    BY <1>0, <1>12, <2>1, <2>2, <2>3 DEF FolderPartly
<1>5. ASSUME NEW m \in Places, Attach(m) PROVE FALSE
  <2>1. PICK a \in Attachments : files' = [files EXCEPT ![m] = IF m \in Names THEN FilesOf(@) \cup {a} ELSE @]
    BY <1>5 DEF Attach
  <2>2. n = m /\ files'[n] = files[n] \cup {a}
    BY <2>1 DEF FilesOf
  <2>3. files[n] \cup {a} \in SUBSET Attachments
    OBVIOUS
  <2> QED
    BY <2>2, <2>3, ConstantsAssumption
<1>6. ASSUME NEW c \in Calls, Request(c) PROVE FALSE
  BY <1>6, BegunAsks
<1>7. ASSUME NEW c \in Calls, CreateDb(c) \/ Replay(c) \/ InsertRow(c) \/ CopyDb(c) \/ Lookup(c) \/ CheckKnown(c)
                              \/ DropDb(c) \/ DropRow(c) \/ Dump(c) \/ CopyFiles(c) \/ Mark(c) \/ SnapDb(c)
      PROVE  FALSE
  BY <1>7 DEF CreateDb, Replay, InsertRow, CopyDb, Lookup, CheckKnown, DropDb, DropRow, Dump,
     CopyFiles, Mark, SnapDb
<1>8. ASSUME NEW c \in Calls, SnapRow(c) \/ UnsnapDb(c) \/ UnsnapRow(c) \/ DropLive(c) \/ CopyBack(c) \/ Hop(c)
                              \/ AskCluster(c) \/ (Ends(c) /\ ~FolderPartly(c))
      PROVE  FALSE
  BY <1>8 DEF SnapRow, UnsnapDb, UnsnapRow, DropLive, CopyBack, Hop, AskCluster, CutShort,
              BackupPartly, DumpTruncated, HopFails, Unchecked, Reports, Ends
<1> HIDE DEF Types, DiskTypes, At, Possible
<1>9. (\E c \in Calls : Request(c) \/ Proceed(c) \/ Ends(c))
      \/ \E m \in Places : Attach(m)
  BY DEF Next, Ends, vars
<1>10. PICK c \in Calls : Proceed(c) \/ Ends(c)
  BY <1>5, <1>6, <1>9
<1>11. DropFiles(c) \/ UnsnapFiles(c) \/ RemoveFiles(c)
  BY <1>4, <1>7, <1>8, <1>10, <1>12 DEF Proceed
<1> QED
  BY <1>1, <1>2, <1>3, <1>11

-------------------------------------------------------------------------------
(* What was there is there, or somebody took it *)

\* A step keeps whoever may take a name away where he may.
LEMMA TouchedStays ==
  ASSUME Types, Asking, [Next]_vars, NEW n, Touched(n)
  PROVE  Touched(n)'
BY StillTouches DEF Touched

\* An operation under way moves by a step of its own.
LEMMA WhoMoves ==
  ASSUME Types, Asking, [Next]_vars, NEW e \in Calls, pc[e] # "idle", pc'[e] # pc[e] \/ job'[e] # job[e]
  PROVE  Proceed(e) \/ Ends(e)
<1>1. ASSUME NEW n \in Places, Attach(n) PROVE FALSE
  BY <1>1, AttachStays
<1>2. ASSUME NEW c \in Calls, Request(c) PROVE FALSE
  BY <1>2, RequestBegins DEF Begins, OthersStay
<1>3. ASSUME NEW c \in Calls, Proceed(c) \/ Ends(c) PROVE c = e
  BY <1>3, StepProceeds DEF Proceeds, OthersStay
<1> QED
  BY <1>1, <1>2, <1>3 DEF Next, Ends, vars

\* An idle operation moves by a request.
LEMMA IdleBegins ==
  ASSUME Types, Asking, [Next]_vars, NEW c \in Calls, pc[c] = "idle",
         pc'[c] # pc[c] \/ job'[c] # job[c] \/ job'[c].op \in {"revert", "upgrade"}
  PROVE  Request(c)
<1>1. \A e \in Calls : Proceed(e) \/ Ends(e) => e # c
  BY StepProceeds DEF Proceeds, WorkLocs
<1>2. job[c].op \notin {"revert", "upgrade"}
  <2>1. NoJob.op = "forget"
    BY DEF NoJob, Asked
  <2> QED
    BY <2>1 DEF Asking, AskingOf
<1>3. ASSUME ~Request(c) PROVE pc'[c] = pc[c] /\ job'[c] = job[c]
  BY <1>1, <1>3, RequestBegins, StepProceeds, AttachStays DEF Next, Ends, Begins, Proceeds,
     OthersStay, vars
<1> QED
  BY <1>2, <1>3

\* A name that had a database has it, or an operation that took it.
LEMMA PresentStays ==
  ASSUME Types, Asking, [Next]_vars, NEW n \in Places, Present(n)
  PROVE  Present(n)'
<1>1. CASE cluster[n] # Absent /\ cluster'[n] = Absent
  <2>1. PICK c \in Calls : \/ DropDb(c) /\ n = job[c].row.name
                           \/ DropLive(c) /\ n = job[c].row.name
                           \/ UnsnapDb(c) /\ n = job[c].snap.id
    BY <1>1, DatabaseLost
  <2>2. Touches(c, n) /\ (job[c].op = "revert" => DropLive(c))
    BY <2>1 DEF DropDb, DropLive, UnsnapDb, At, Asking, AskingOf, Passes, Touches
  <2>3. Touches(c, n)'
    BY <2>2, StillTouches
  <2>4. Proceeds(c)
    BY <2>1, StepProceeds DEF Proceed
  <2>5. job'[c].op = "revert" => pc'[c] = "copyBack"
    BY <2>2, <2>4 DEF Proceeds, Kept, DropLive, Goto, Types, CallTypes
  <2> QED
    BY <2>3, <2>5 DEF Present, Gone
<1>2. CASE cluster[n] = Absent /\ cluster'[n] = Absent
  <2>1. PICK e \in Calls : Touches(e, n) /\ (job[e].op = "revert" => pc[e] \in {"copyBack", "cut"})
    BY <1>2 DEF Present, Gone, DatabaseExists
  <2>2. Touches(e, n)'
    BY <2>1, StillTouches
  <2>3. pc[e] # "idle"
    <3>1. NoJob.op = "forget"
      BY DEF NoJob, Asked
    <3> QED
      BY <2>1, <3>1 DEF Asking, AskingOf, Touches
  <2>4. Kept(e) /\ (pc[e] = "cut" => pc'[e] = "cut")
    BY <2>3, AskedStays DEF EndLocs
  <2>5. CASE job[e].op # "revert"
    BY <2>2, <2>4, <2>5 DEF Present, Gone, Kept
  <2>6. CASE job[e].op = "revert" /\ pc[e] = "cut"
    BY <2>2, <2>4, <2>6 DEF Present, Gone
  <2>7. CASE job[e].op = "revert" /\ pc[e] = "copyBack"
    <3>1. n = job[e].row.name
      BY <2>1, <2>7 DEF Touches
    <3>2. ~CopyBack(e)
      <4>1. SUFFICES ASSUME CopyBack(e) PROVE FALSE
        OBVIOUS
      <4>2. cluster'[n] = cluster[job[e].snap.id] /\ cluster[job[e].snap.id] # Absent
        BY <3>1, <4>1 DEF CopyBack, At, Possible, CanDuplicate, DuplicateDatabase, Types, DiskTypes
      <4> QED
        BY <1>2, <4>2
    <3>3. pc'[e] \in {"copyBack", "cut"}
      <4>1. CASE pc'[e] = pc[e]
        BY <2>7, <4>1
      <4>2. CASE pc'[e] # pc[e]
        <5>1. Proceed(e) \/ Ends(e)
          BY <2>3, <4>2, WhoMoves
        <5>2. CutShort(e)
          BY <2>7, <3>2, <5>1, StepAt
        <5> QED
          BY <5>2 DEF CutShort, Goto, Types, CallTypes
      <4> QED
        BY <4>1, <4>2
    <3> QED
      BY <2>2, <3>3 DEF Present, Gone
  <2> QED
    BY <2>1, <2>5, <2>6, <2>7
<1> QED
  BY <1>1, <1>2 DEF Present, DatabaseExists

\* The same of folders.
LEMMA FilesPresentStays ==
  ASSUME Types, Asking, [Next]_vars, NEW n \in Places, FilesPresent(n)
  PROVE  FilesPresent(n)'
<1>1. CASE files[n] # Absent /\ files'[n] = Absent
  <2>1. PICK c \in Calls : \/ DropFiles(c) /\ n = job[c].row.name
                           \/ UnsnapFiles(c) /\ n = job[c].snap.id
                           \/ RemoveFiles(c) /\ n = job[c].row.name
    BY <1>1, FilesLost
  <2>2. Touches(c, n) /\ (job[c].op = "revert" => RemoveFiles(c))
    BY <2>1 DEF DropFiles, RemoveFiles, UnsnapFiles, At, Asking, AskingOf, Passes, Touches
  <2>3. Touches(c, n)'
    BY <2>2, StillTouches
  <2>4. Proceeds(c)
    BY <2>1, StepProceeds DEF Proceed
  <2>5. job'[c].op = "revert" => pc'[c] = "linkFiles"
    BY <2>2, <2>4 DEF Proceeds, Kept, RemoveFiles, Goto, Types, CallTypes
  <2> QED
    BY <2>3, <2>5 DEF FilesPresent, FilesGone
<1>2. CASE files[n] = Absent /\ files'[n] = Absent
  <2>1. PICK e \in Calls : Touches(e, n) /\ (job[e].op = "revert" => pc[e] \in {"linkFiles", "cut"})
    BY <1>2 DEF FilesPresent, FilesGone
  <2>2. Touches(e, n)'
    BY <2>1, StillTouches
  <2>3. pc[e] # "idle"
    <3>1. NoJob.op = "forget"
      BY DEF NoJob, Asked
    <3> QED
      BY <2>1, <3>1 DEF Asking, AskingOf, Touches
  <2>4. Kept(e) /\ (pc[e] = "cut" => pc'[e] = "cut")
    BY <2>3, AskedStays DEF EndLocs
  <2>5. CASE job[e].op # "revert"
    BY <2>2, <2>4, <2>5 DEF FilesPresent, FilesGone, Kept
  <2>6. CASE job[e].op = "revert" /\ pc[e] = "cut"
    BY <2>2, <2>4, <2>6 DEF FilesPresent, FilesGone
  <2>7. CASE job[e].op = "revert" /\ pc[e] = "linkFiles"
    <3>1. n = job[e].row.name
      BY <2>1, <2>7 DEF Touches
    <3>2. ~LinkFiles(e)
      <4>1. SUFFICES ASSUME LinkFiles(e) PROVE FALSE
        OBVIOUS
      <4>2. files'[n] = files[job[e].snap.id] /\ files[job[e].snap.id] # Absent
        BY <3>1, <4>1 DEF LinkFiles, At, Possible, CanSnapshotDirectory, SnapshotDirectory, Types,
           DiskTypes
      <4> QED
        BY <1>2, <4>2
    <3>3. pc'[e] \in {"linkFiles", "cut"}
      <4>1. CASE pc'[e] = pc[e]
        BY <2>7, <4>1
      <4>2. CASE pc'[e] # pc[e]
        <5>1. Proceed(e) \/ Ends(e)
          BY <2>3, <4>2, WhoMoves
        <5>2. CutShort(e) \/ FolderPartly(e)
          BY <2>7, <3>2, <5>1, StepAt
        <5> QED
          BY <5>2, StopsAre DEF Goto, Types, CallTypes
      <4> QED
        BY <4>1, <4>2
    <3> QED
      BY <2>2, <3>3 DEF FilesPresent, FilesGone
  <2> QED
    BY <2>1, <2>5, <2>6, <2>7
<1> QED
  BY <1>1, <1>2 DEF FilesPresent

-------------------------------------------------------------------------------
\* A new row, database or folder is there when it is written about.
LEMMA NextPresence == Types /\ Asking /\ Presence /\ [Next]_vars => Presence'
<1> SUFFICES ASSUME Types, Asking, Presence, [Next]_vars PROVE Presence'
  OBVIOUS
<1> USE DEF Presence
<1>1. /\ \A n \in Places : Present(n) => Present(n)'
      /\ \A n \in Places : FilesPresent(n) => FilesPresent(n)'
  BY PresentStays, FilesPresentStays
<1>2. /\ \A d \in databases : d.name \in Places
      /\ \A x \in snapshots : x.id \in Places
  BY DEF Types, BookTypes, Rows, SnapRows, Places
<1>3. \A c \in Calls :
        /\ pc[c] \in {"replay", "insertRow", "checkKnown"} \/ WorksOn(c, job[c].name) => job[c].name \in Places
        /\ SnapId(c) \in Places
  <2>1. \A c \in Calls : job[c].op \in Makers => job[c].name \in Places
    BY NamesKnown DEF Places
  <2> QED
    BY <2>1, NamesKnown DEF WorksOn, Makers
<1>4. ASSUME NEW c \in Calls, pc'[c] = pc[c], job'[c] = job[c]
      PROVE  /\ pc'[c] \in {"replay", "insertRow", "checkKnown"} \/ WorksOn(c, job[c].name)' => Present(job[c].name)'
             /\ pc'[c] \in {"snapFiles", "snapRow"} => Present(SnapId(c))'
             /\ pc'[c] = "snapRow" /\ job'[c].took => FilesPresent(SnapId(c))'
  <2>1. SnapId(c)' = SnapId(c) /\ (WorksOn(c, job[c].name)' <=> WorksOn(c, job[c].name))
    BY <1>4 DEF SnapId, WorksOn
  <2> QED
    BY <1>1, <1>3, <1>4, <2>1
<1>5. ASSUME NEW c \in Calls, Request(c) PROVE Presence'
  <2>1. Begins(c)
    BY <1>5, RequestBegins
  <2>2. databases' \subseteq databases /\ snapshots' = snapshots
    BY <1>5, BegunAsks DEF Forget, DeleteDatabase
  <2>3. /\ pc'[c] \notin {"replay", "insertRow", "checkKnown", "snapFiles", "snapRow"}
        /\ ~WorksOn(c, job[c].name)'
    <3>1. pc'[c] \notin {"replay", "insertRow", "checkKnown", "snapFiles", "snapRow", "hop"}
      BY <1>5, BegunAsks DEF Forget, Begin, Goto, Types, CallTypes
    <3> QED
      BY <1>5, <3>1, BegunAsks DEF WorksOn
  <2> QED
    BY <1>1, <1>2, <1>4, <2>1, <2>2, <2>3 DEF Begins, OthersStay
<1>6. ASSUME NEW c \in Calls, Proceed(c) \/ Ends(c) PROVE Presence'
  <2>1. Proceeds(c)
    BY <1>6, StepProceeds
  <2>2. \A d \in databases' : Present(d.name)'
    <3>1. CASE InsertRow(c)
      <4>1. databases' = databases \cup {[id |-> c, name |-> job[c].name]} /\ pc[c] = "insertRow"
        BY <3>1 DEF InsertRow, InsertDatabase, At
      <4> QED
        BY <1>1, <1>2, <1>3, <4>1
    <3>2. CASE ~InsertRow(c)
      <4>1. databases' \subseteq databases
        BY <1>6, <3>2, StepCourse DEF DropRow, DeleteDatabase
      <4> QED
        BY <1>1, <1>2, <4>1
    <3> QED
      BY <3>1, <3>2
  <2>3. \A x \in snapshots' : Present(x.id)' /\ (x.files => FilesPresent(x.id)')
    <3>1. CASE SnapRow(c)
      <4>1. /\ snapshots' = snapshots \cup {[id |-> SnapId(c), of |-> Source(c).id, files |-> job[c].took]}
            /\ pc[c] = "snapRow"
        BY <3>1 DEF SnapRow, InsertSnapshot, At
      <4> QED
        BY <1>1, <1>2, <1>3, <4>1
    <3>2. CASE ~SnapRow(c)
      <4>1. snapshots' \subseteq snapshots
        BY <1>6, <3>2, StepCourse DEF UnsnapRow, DeleteSnapshot
      <4> QED
        BY <1>1, <1>2, <4>1
    <3> QED
      BY <3>1, <3>2
  <2>4. \A e \in Calls \ {c} :
          /\ pc'[e] \in {"replay", "insertRow", "checkKnown"} \/ WorksOn(e, job[e].name)' => Present(job[e].name)'
          /\ pc'[e] \in {"snapFiles", "snapRow"} => Present(SnapId(e))'
          /\ pc'[e] = "snapRow" /\ job'[e].took => FilesPresent(SnapId(e))'
    <3>1. \A e \in Calls \ {c} : pc'[e] = pc[e] /\ job'[e] = job[e]
      BY <2>1 DEF Proceeds, OthersStay
    <3>2. SUFFICES ASSUME NEW e \in Calls \ {c}
                   PROVE  /\ pc'[e] \in {"replay", "insertRow", "checkKnown"} \/ WorksOn(e, job[e].name)'
                               => Present(job[e].name)'
                          /\ pc'[e] \in {"snapFiles", "snapRow"} => Present(SnapId(e))'
                          /\ pc'[e] = "snapRow" /\ job'[e].took => FilesPresent(SnapId(e))'
      OBVIOUS
    <3> QED
      BY <1>4, <3>1
  <2>5. PICK n : n = job[c].name /\ n = job'[c].name
    BY <2>1 DEF Proceeds, Kept
  <2>8. pc'[c] \in {"replay", "insertRow", "checkKnown"} \/ WorksOn(c, n)' => Present(n)'
    <3>1. CASE pc[c] \in {"replay", "insertRow", "checkKnown"} \/ WorksOn(c, n)
      BY <1>1, <1>3, <2>5, <3>1
    <3>2. CASE CreateDb(c) \/ CopyDb(c)
      <4>1. n \in Places /\ cluster'[n] # Absent
        BY <2>5, <3>2, MadeExists
      <4> QED
        BY <4>1 DEF Present, DatabaseExists
    <3>3. CASE Lookup(c)
      BY <1>1, <2>5, <3>3, NamesKnown DEF Lookup, At, Possible, Present, DatabaseExists
    <3>4. /\ pc'[c] \in {"replay", "insertRow", "checkKnown"} =>
               CreateDb(c) \/ CopyDb(c) \/ Lookup(c) \/ pc[c] \in {"replay", "insertRow", "checkKnown"}
      BY <1>6, StepTo DEF Replay, CheckKnown, At
    <3>5. WorksOn(c, n)' =>
            CreateDb(c) \/ CopyDb(c) \/ WorksOn(c, n)
      <4>1. SUFFICES ASSUME WorksOn(c, n)'
                     PROVE  CreateDb(c) \/ CopyDb(c) \/ WorksOn(c, n)
        OBVIOUS
      <4>2. job[c].op \in {"restore", "upgrade"}
        BY <2>1, <4>1 DEF Proceeds, Kept, WorksOn
      <4>3. pc'[c] \in {"replay", "insertRow", "snapDb", "snapFiles", "snapRow", "hop"}
        BY <4>1 DEF WorksOn
      <4>4. CreateDb(c) \/ Replay(c) \/ CopyDb(c) \/ CheckKnown(c) \/ InsertRow(c) \/ Hop(c) \/ SnapDb(c)
            \/ SnapFiles(c) \/ SnapRow(c)
        BY <1>6, <4>3, StepTo
      <4>5. CASE CheckKnown(c)
        BY <4>2, <4>5 DEF CheckKnown, At, Asking, AskingOf, Passes
      <4>6. CASE Replay(c) \/ InsertRow(c) \/ Hop(c) \/ SnapDb(c) \/ SnapFiles(c) \/ SnapRow(c)
        BY <2>5, <4>2, <4>6 DEF WorksOn, Replay, InsertRow, Hop, SnapDb, SnapFiles, SnapRow, At
      <4> QED
        BY <4>4, <4>5, <4>6
    <3> QED
      BY <3>1, <3>2, <3>3, <3>4, <3>5
  <2>6. pc'[c] \in {"snapFiles", "snapRow"} => Present(SnapId(c))' /\ SnapId(c)' = SnapId(c)
    <3>1. CASE SnapDb(c)
      <4>1. cluster'[SnapId(c)] # Absent /\ UNCHANGED job
        BY <1>3, <3>1 DEF SnapDb, At, Possible, CanDuplicate, DuplicateDatabase, Types, DiskTypes
      <4> QED
        BY <4>1 DEF SnapId, Present, DatabaseExists
    <3>2. CASE SnapFiles(c)
      <4>1. job'[c].hop = job[c].hop /\ pc[c] = "snapFiles"
        BY <3>2 DEF SnapFiles, At, Jobs, Types, CallTypes
      <4>2. SnapId(c)' = SnapId(c)
        BY <4>1 DEF SnapId
      <4> QED
        BY <1>1, <1>3, <4>1, <4>2
    <3> QED
      BY <1>6, <3>1, <3>2, StepTo
  <2>7. pc'[c] = "snapRow" /\ job'[c].took => FilesPresent(SnapId(c))'
    <3>1. SUFFICES ASSUME SnapFiles(c), job'[c].took PROVE FilesPresent(SnapId(c))'
      BY <1>6, StepTo
    <3>2. job'[c].took = (LiveFolder(Source(c).name) # Absent)
      BY <3>1 DEF SnapFiles, Jobs, Types, CallTypes
    <3>3. files'[SnapId(c)] # Absent
      BY <1>3, <3>1, <3>2 DEF SnapFiles, SnapshotDirectory, Types, DiskTypes
    <3>4. job'[c].hop = job[c].hop
      BY <3>1 DEF SnapFiles, Jobs, Types, CallTypes
    <3>5. SnapId(c)' = SnapId(c)
      BY <3>4 DEF SnapId
    <3> QED
      BY <3>3, <3>5 DEF FilesPresent
  <2>9. pc'[c] \in {"replay", "insertRow", "checkKnown"} \/ WorksOn(c, job[c].name)' => Present(job[c].name)'
    BY <2>5, <2>8
  <2> QED
    BY <2>2, <2>3, <2>4, <2>6, <2>7, <2>9
<1>7. ASSUME NEW n \in Places, Attach(n) PROVE Presence'
  BY <1>1, <1>2, <1>4, <1>7, AttachStays
<1>8. CASE UNCHANGED vars
  BY <1>1, <1>2, <1>4, <1>8 DEF vars
<1> QED
  BY <1>5, <1>6, <1>7, <1>8 DEF Next, Ends

-------------------------------------------------------------------------------
\* A name that had a row has one, or whoever removed the row returned Ok.
LEMMA TrackedStays ==
  ASSUME Types, Asking, RowIds, [Next]_vars, NEW n, Tracked(n)
  PROVE  Tracked(n)'
<1>1. CASE \E e \in Calls : pc[e] = "done" /\ job[e].op \in {"drop", "forget"} /\ job[e].row.name = n
  <2>1. PICK e \in Calls : pc[e] = "done" /\ job[e].op \in {"drop", "forget"} /\ job[e].row.name = n
    BY <1>1
  <2>2. pc'[e] = "done" /\ job'[e] = job[e]
    BY <2>1, AskedStays DEF EndLocs
  <2> QED
    BY <2>1, <2>2 DEF Tracked
<1>2. CASE n \in NamesOf(databases)
  <2>1. PICK d \in databases : d.name = n
    BY <1>2 DEF NamesOf
  <2>2. CASE d \in databases'
    BY <2>1, <2>2 DEF Tracked, NamesOf
  <2>3. ASSUME NEW c \in Calls, DropRow(c), d \notin databases'
        PROVE  Tracked(n)'
    <3>1. d.id = job[c].row.id
      BY <2>3 DEF DropRow, DeleteDatabase
    <3>2. job[c].op = "drop"
      BY <2>3 DEF DropRow, At, Asking, AskingOf, Passes
    <3>3. d = job[c].row
      BY <3>1, <3>2 DEF RowIds
    <3>4. pc'[c] = "done" /\ job' = job
      BY <2>3 DEF DropRow, Goto, Types, CallTypes
    <3> QED
      BY <2>1, <3>2, <3>3, <3>4 DEF Tracked
  <2>4. ASSUME NEW c \in Calls, Forget(c), d \notin databases'
        PROVE  Tracked(n)'
    <3>1. PICK x \in databases : Begin(c, "done", Asked("forget", x, Absent, Absent)) /\ DeleteDatabase(x.id)
      BY <2>4 DEF Forget
    <3>2. d = x
      BY <2>4, <3>1 DEF DeleteDatabase, RowIds
    <3>3. pc'[c] = "done" /\ job'[c] = Asked("forget", x, Absent, Absent)
      BY <3>1 DEF Begin, Goto, Types, CallTypes
    <3>4. job'[c].op = "forget" /\ job'[c].row = x
      BY <3>3 DEF Asked
    <3> QED
      BY <2>1, <3>2, <3>3, <3>4 DEF Tracked
  <2>5. ASSUME NEW c \in Calls, InsertRow(c) PROVE databases \subseteq databases'
    BY <2>5 DEF InsertRow, InsertDatabase
  <2>6. ASSUME NEW m \in Places, Attach(m) PROVE databases' = databases
    BY <2>6, AttachStays
  <2>7. databases \subseteq databases' \/ \E c \in Calls : DropRow(c) \/ Forget(c)
    BY <2>5, <2>6, BegunAsks, StepCourse DEF Next, Ends, vars
  <2> QED
    BY <2>1, <2>2, <2>3, <2>4, <2>7
<1> QED
  BY <1>1, <1>2 DEF Tracked

\* The same of snapshots.
LEMMA SnapTrackedStays ==
  ASSUME Types, Asking, [Next]_vars, NEW n, SnapTracked(n)
  PROVE  SnapTracked(n)'
<1>1. CASE \E e \in Calls : pc[e] = "done" /\ job[e].op = "unsnapshot" /\ job[e].snap.id = n
  <2>1. PICK e \in Calls : pc[e] = "done" /\ job[e].op = "unsnapshot" /\ job[e].snap.id = n
    BY <1>1
  <2>2. pc'[e] = "done" /\ job'[e] = job[e]
    BY <2>1, AskedStays DEF EndLocs
  <2> QED
    BY <2>1, <2>2 DEF SnapTracked
<1>2. CASE \E x \in snapshots : x.id = n
  <2>1. PICK x \in snapshots : x.id = n
    BY <1>2
  <2>2. CASE x \in snapshots'
    BY <2>1, <2>2 DEF SnapTracked
  <2>3. ASSUME NEW c \in Calls, UnsnapRow(c), x \notin snapshots'
        PROVE  SnapTracked(n)'
    <3>1. x.id = job[c].snap.id
      BY <2>3 DEF UnsnapRow, DeleteSnapshot
    <3>2. job[c].op = "unsnapshot"
      BY <2>3 DEF UnsnapRow, At, Asking, AskingOf, Passes
    <3>3. pc'[c] = "done" /\ job' = job
      BY <2>3 DEF UnsnapRow, Goto, Types, CallTypes
    <3> QED
      BY <2>1, <3>1, <3>2, <3>3 DEF SnapTracked
  <2>4. ASSUME NEW c \in Calls, SnapRow(c) PROVE snapshots \subseteq snapshots'
    BY <2>4 DEF SnapRow, InsertSnapshot
  <2>5. ASSUME NEW m \in Places, Attach(m) PROVE snapshots' = snapshots
    BY <2>5, AttachStays
  <2>6. snapshots \subseteq snapshots' \/ \E c \in Calls : UnsnapRow(c)
    BY <2>4, <2>5, BegunAsks, StepCourse DEF Next, Ends, vars
  <2> QED
    BY <2>1, <2>2, <2>3, <2>6
<1> QED
  BY <1>1, <1>2 DEF SnapTracked

\* An operation that has made a database goes on to its row, or is cut short.
LEMMA MakingGoesOn ==
  ASSUME Types, Asking, [Next]_vars, NEW c \in Calls, NEW n, Making(c, n)
  PROVE  Making(c, n)' \/ Tracked(n)' \/ SnapTracked(n)'
<1> USE DEF Types, CallTypes
<1>1. pc[c] # "idle"
  BY DEF Making
<1>2. Kept(c)
  BY <1>1, AskedStays
<1>3. CASE pc'[c] = pc[c] /\ job'[c] = job[c]
  BY <1>3 DEF Making, SnapId
<1>4. CASE Proceed(c) \/ Ends(c)
  <2>1. pc[c] \in WorkLocs
    BY <1>4, StepProceeds DEF Proceeds
  <2>2. CASE CutShort(c) \/ FolderPartly(c)
    <3>1. pc'[c] = "cut" /\ job' = job
      BY <2>2, StopsAre DEF Goto
    <3>2. SnapId(c) \in {<<c, k>> : k \in 0 .. Hops - 1}
      BY DEF SnapId, Jobs
    <3> QED
      BY <3>1, <3>2 DEF Making
  <2>3. CASE Replay(c) \/ SnapFiles(c)
    <3>1. CASE Replay(c)
      <4>1. pc[c] = "replay" /\ pc'[c] = "insertRow" /\ job' = job
        BY <3>1 DEF Replay, At, Goto
      <4>2. job[c].op = "restore"
        BY <4>1 DEF Asking, AskingOf, Passes
      <4> QED
        BY <4>1, <4>2 DEF Making, Makers
    <3>2. CASE SnapFiles(c)
      <4>1. pc[c] = "snapFiles" /\ pc'[c] = "snapRow" /\ job'[c].hop = job[c].hop
        BY <3>2 DEF SnapFiles, At, Goto, Jobs
      <4>2. SnapId(c)' = SnapId(c)
        BY <4>1 DEF SnapId
      <4> QED
        BY <1>2, <4>1, <4>2 DEF Making, Kept
    <3> QED
      BY <2>3, <3>1, <3>2
  <2>4. CASE InsertRow(c)
    <3>1. pc[c] = "insertRow" /\ databases' = databases \cup {[id |-> c, name |-> job[c].name]}
      BY <2>4 DEF InsertRow, InsertDatabase, At
    <3>2. n = job[c].name
      BY <3>1 DEF Making
    <3> DEFINE d == [id |-> c, name |-> job[c].name]
    <3>3. d \in databases' /\ d.name = n
      BY <3>1, <3>2
    <3> QED
      BY <3>3 DEF Tracked, NamesOf
  <2>5. CASE SnapRow(c)
    <3>1. /\ pc[c] = "snapRow"
          /\ snapshots' = snapshots \cup {[id |-> SnapId(c), of |-> Source(c).id, files |-> job[c].took]}
      BY <2>5 DEF SnapRow, InsertSnapshot, At
    <3>2. n = SnapId(c)
      BY <3>1 DEF Making
    <3> DEFINE x == [id |-> SnapId(c), of |-> Source(c).id, files |-> job[c].took]
    <3>3. x \in snapshots' /\ x.id = n
      BY <3>1, <3>2
    <3> QED
      BY <3>3 DEF SnapTracked
  <2>6. pc[c] \in {"replay", "insertRow", "snapFiles", "snapRow"}
    BY <2>1 DEF Making, WorkLocs
  <2> QED
    BY <1>4, <2>2, <2>3, <2>4, <2>5, <2>6, StepAt
<1> QED
  BY <1>1, <1>3, <1>4, WhoMoves

\* A database that comes up is being made, or comes back to a name that has a row.
LEMMA NextTracking == Types /\ Asking /\ RowIds /\ Tracking /\ [Next]_vars => Tracking'
<1> SUFFICES ASSUME Types, Asking, RowIds, Tracking, [Next]_vars PROVE Tracking'
  OBVIOUS
<1>1. ASSUME NEW n \in Places, DatabaseExists(n)
      PROVE  Tracked(n)' \/ SnapTracked(n)' \/ \E c \in Calls : Making(c, n)'
  <2>1. Tracked(n) \/ SnapTracked(n) \/ \E c \in Calls : Making(c, n)
    BY <1>1 DEF Tracking
  <2> QED
    BY <2>1, TrackedStays, SnapTrackedStays, MakingGoesOn
<1>2. ASSUME NEW n \in Places, cluster[n] = Absent, cluster'[n] # Absent
      PROVE  Tracked(n)' \/ SnapTracked(n)' \/ \E c \in Calls : Making(c, n)'
  <2>1. \E c \in Calls :
          \/ CreateDb(c) /\ n = job[c].name
          \/ CopyDb(c) /\ n = job[c].name
          \/ DropDb(c) /\ n = job[c].row.name
          \/ DropLive(c) /\ n = job[c].row.name
          \/ UnsnapDb(c) /\ n = job[c].snap.id
          \/ SnapDb(c) /\ n = SnapId(c)
          \/ CopyBack(c) /\ n = job[c].row.name
    BY <1>2, ClusterSteps, ConstantsAssumption
  <2>2. PICK c \in Calls :
          \/ CreateDb(c) /\ n = job[c].name
          \/ CopyDb(c) /\ n = job[c].name
          \/ DropDb(c) /\ n = job[c].row.name
          \/ DropLive(c) /\ n = job[c].row.name
          \/ UnsnapDb(c) /\ n = job[c].snap.id
          \/ SnapDb(c) /\ n = SnapId(c)
          \/ CopyBack(c) /\ n = job[c].row.name
    BY <2>1
  <2>3. Proceeds(c)
    BY <2>2, StepProceeds DEF Proceed
  <2>4. ~DropDb(c) /\ ~DropLive(c) /\ ~UnsnapDb(c)
    BY <1>2, <2>2 DEF DropDb, DropLive, UnsnapDb, DropDatabase, Types, DiskTypes
  <2>5. CASE CreateDb(c) \/ CopyDb(c)
    <3>1. job[c].op \in Makers /\ n = job[c].name
      <4>1. n = job[c].name
        BY <2>2, <2>5 DEF CreateDb, CopyDb, DropDb, DropLive, UnsnapDb, SnapDb, CopyBack, At
      <4> QED
        BY <2>5, <4>1, NamesKnown DEF CreateDb, CopyDb, At
    <3>2. pc'[c] \in {"replay", "insertRow"}
      BY <2>5 DEF CreateDb, CopyDb, Goto, Types, CallTypes
    <3> QED
      BY <2>3, <3>1, <3>2 DEF Making, Proceeds, Kept
  <2>6. CASE SnapDb(c) /\ n = SnapId(c)
    <3>1. pc[c] = "snapDb" /\ pc'[c] = "snapFiles" /\ job' = job
      BY <2>6 DEF SnapDb, At, Goto, Types, CallTypes
    <3>2. job[c].op \in {"snapshot", "revert", "upgrade"}
      BY <3>1 DEF Asking, AskingOf, Passes
    <3>3. SnapId(c)' = SnapId(c)
      BY <3>1 DEF SnapId
    <3> QED
      BY <2>6, <3>1, <3>2, <3>3 DEF Making
  <2>7. CASE CopyBack(c) /\ n = job[c].row.name
    <3>1. job[c].op = "revert"
      BY <2>7 DEF CopyBack, At, Asking, AskingOf, Passes
    <3> QED
      BY <2>7, <3>1, TrackedStays DEF Tracking
  <2> QED
    BY <2>2, <2>4, <2>5, <2>6, <2>7
<1>3. ASSUME NEW c \in Calls, job'[c].op = "revert" PROVE Tracked(job[c].row.name)'
  <2>1. CASE pc[c] # "idle"
    <3>1. job[c].op = "revert" /\ job'[c].row = job[c].row
      BY <1>3, <2>1, AskedStays DEF Kept
    <3>2. Tracked(job[c].row.name)
      BY <3>1 DEF Tracking
    <3> DEFINE m == job[c].row.name
    <3>3. PICK k : k = m
      OBVIOUS
    <3>4. Tracked(k)'
      BY <3>2, <3>3, TrackedStays
    <3>5. job'[c].row.name = k
      BY <3>1, <3>3
    <3> QED
      BY <3>4, <3>5
  <2>2. CASE Request(c)
    <3>1. job'[c].row \in databases /\ databases' = databases
      <4>1. ~Forget(c)
        <5>1. SUFFICES ASSUME NEW d, Begin(c, "done", Asked("forget", d, Absent, Absent)) PROVE FALSE
          BY DEF Forget
        <5>2. job'[c].op = "forget"
          BY <5>1 DEF Begin, Asked, Types, CallTypes
        <5> QED
          BY <1>3, <5>2
      <4> QED
        BY <1>3, <2>2, <4>1, BegunAsks
    <3> QED
      BY <3>1 DEF Tracked, NamesOf
  <2> QED
    BY <1>3, <2>1, <2>2, IdleBegins
<1> QED
  <2>1. \A n \in Places : DatabaseExists(n)' => Tracked(n)' \/ SnapTracked(n)' \/ \E c \in Calls : Making(c, n)'
    BY <1>1, <1>2 DEF DatabaseExists
  <2> QED
    BY <1>3, <2>1 DEF Tracking

-------------------------------------------------------------------------------
\* The attachments of a database only grow, but where an operation drops it.
LEMMA AttStays ==
  ASSUME Types, Asking, [Next]_vars, NEW n \in Places
  PROVE  \/ AttOf(cluster[n]) \subseteq AttOf(cluster'[n])
         \/ \E c \in Calls : Touches(c, n) /\ (job[c].op = "revert" => DropLive(c))
<1>1. CASE cluster'[n] = cluster[n]
  BY <1>1
<1>2. CASE \E c \in Calls : \/ DropDb(c) /\ n = job[c].row.name
                            \/ DropLive(c) /\ n = job[c].row.name
                            \/ UnsnapDb(c) /\ n = job[c].snap.id
  <2>1. PICK c \in Calls : \/ DropDb(c) /\ n = job[c].row.name
                           \/ DropLive(c) /\ n = job[c].row.name
                           \/ UnsnapDb(c) /\ n = job[c].snap.id
    BY <1>2
  <2>2. Touches(c, n) /\ (job[c].op = "revert" => DropLive(c))
    BY <2>1 DEF DropDb, DropLive, UnsnapDb, At, Asking, AskingOf, Passes, Touches
  <2> QED
    BY <2>2
<1>3. CASE cluster[n] = Absent
  BY <1>3 DEF AttOf
<1>4. CASE cluster[n] \in Contents /\ \E c \in Calls :
             \/ Hop(c) /\ cluster'[n] = [cluster[n] EXCEPT !.version = job[c].hop + 1]
             \/ HopFails(c) /\ cluster'[n] = [cluster[n] EXCEPT !.mixed = TRUE]
  <2>1. \A c \in Calls : job[c].hop + 1 \in 0 .. Hops
    BY ConstantsAssumption DEF Types, CallTypes, Jobs
  <2>2. cluster'[n].att = cluster[n].att /\ cluster'[n] \in Contents
    BY <1>4, <2>1 DEF Contents
  <2>3. cluster[n] # Absent /\ cluster'[n] # Absent
    BY <1>4, <2>2, ConstantsAssumption
  <2> QED
    BY <2>2, <2>3 DEF AttOf
<1>5. CASE cluster[n] \in Contents /\ \E a \in Attachments : cluster'[n] = [cluster[n] EXCEPT !.att = @ \cup {a}]
  <2>1. PICK a \in Attachments : cluster'[n] = [cluster[n] EXCEPT !.att = @ \cup {a}]
    BY <1>5
  <2> DEFINE x == cluster[n].att \cup {a}
  <2>2. cluster'[n] = [cluster[n] EXCEPT !.att = x] /\ cluster[n].att \subseteq x /\ x \in SUBSET Attachments
    BY <1>5, <2>1 DEF Contents
  <2> HIDE DEF x
  <2>3. cluster'[n] \in Contents /\ cluster'[n].att = x
    BY <1>5, <2>2 DEF Contents
  <2> QED
    BY <1>5, <2>2, <2>3, ConstantsAssumption DEF AttOf
<1>6. CASE AttOf(cluster[n]) \subseteq AttOf(cluster'[n])
  BY <1>6
<1> QED
  BY <1>1, <1>2, <1>3, <1>4, <1>5, <1>6, ClusterSteps

\* A revert drops what it was asked about when its counter-snapshot has it.
LEMMA NextUndoable == Types /\ Asking /\ Undoable /\ [Next]_vars => Undoable'
<1> SUFFICES ASSUME Types, Asking, Undoable, [Next]_vars,
                    NEW c \in Calls, job'[c].op = "revert", job'[c].undo
             PROVE  \/ pc'[c] \in {"snapDb", "cut"} /\ job'[c].was \subseteq AttOf(cluster'[job'[c].row.name])
                    \/ /\ pc'[c] # "snapDb" /\ job'[c].row.name # <<c, 0>>
                       /\ job'[c].was \subseteq AttOf(cluster'[<<c, 0>>])
                    \/ \E e \in Calls \ {c} : Touches(e, job[c].row.name)' \/ Touches(e, <<c, 0>>)'
  BY DEF Undoable
<1>1. CASE pc[c] = "idle"
  <2>1. Request(c)
    BY <1>1, IdleBegins
  <2>2. /\ pc'[c] = "snapDb" /\ job'[c].was = AttOf(cluster[job'[c].row.name])
        /\ cluster' = cluster
    BY <2>1, BegunAsks
  <2> QED
    BY <2>2
<1>2. CASE pc[c] # "idle"
  <2>1. /\ Kept(c) /\ job[c].op = "revert" /\ job[c].undo
        /\ job'[c].row = job[c].row /\ job'[c].was = job[c].was
    BY <1>2, AskedStays DEF Kept
  <2>2. PICK n : n = job[c].row.name /\ n \in Places /\ n = job'[c].row.name
    BY <2>1, NamesKnown DEF HasRow
  <2>3. <<c, 0>> \in Places /\ SnapId(c) = <<c, 0>>
    <3>1. job[c].hop = 0
      BY <2>1 DEF Asking, AskingOf
    <3> QED
      BY <3>1, NamesKnown DEF SnapId
  <2>4. ASSUME NEW e \in Calls \ {c}, NEW m \in {n, <<c, 0>>}, Touches(e, m)
        PROVE  \E x \in Calls \ {c} : Touches(x, job[c].row.name)' \/ Touches(x, <<c, 0>>)'
    BY <2>2, <2>4, StillTouches
  <2>5. CASE pc[c] \in {"snapDb", "cut"} /\ job[c].was \subseteq AttOf(cluster[n])
    <3>1. CASE pc'[c] = pc[c]
      <4>1. CASE AttOf(cluster[n]) \subseteq AttOf(cluster'[n])
        BY <2>1, <2>2, <2>5, <3>1, <4>1
      <4>2. CASE \E e \in Calls : Touches(e, n) /\ (job[e].op = "revert" => DropLive(e))
        <5>1. PICK e \in Calls : Touches(e, n) /\ (job[e].op = "revert" => DropLive(e))
          BY <4>2
        <5>2. e # c
          BY <2>1, <2>5, <5>1 DEF DropLive, At
        <5> QED
          BY <2>4, <5>1, <5>2
      <4> QED
        BY <2>2, <4>1, <4>2, AttStays
    <3>2. CASE pc'[c] # pc[c]
      <4>1. Proceed(c) \/ Ends(c)
        BY <1>2, <3>2, WhoMoves
      <4>2. pc[c] \in WorkLocs
        BY <4>1, StepProceeds DEF Proceeds
      <4>3. SnapDb(c) \/ CutShort(c)
        BY <2>5, <4>1, <4>2, StepAt DEF WorkLocs
      <4>4. CASE SnapDb(c)
        <5>1. Source(c).name = n
          BY <2>1, <2>2 DEF Source
        <5>2. cluster[n] # Absent /\ cluster[<<c, 0>>] = Absent /\ cluster'[<<c, 0>>] = cluster[n]
          BY <2>3, <4>4, <5>1 DEF SnapDb, At, Possible, CanDuplicate, DuplicateDatabase, Types, DiskTypes
        <5>3. pc'[c] = "snapFiles"
          BY <4>4 DEF SnapDb, Goto, Types, CallTypes
        <5> QED
          BY <2>1, <2>2, <2>5, <5>2, <5>3
      <4>5. CASE CutShort(c)
        <5>1. pc'[c] = "cut" /\ cluster' = cluster
          BY <4>5 DEF CutShort, Goto, Types, CallTypes
        <5> QED
          BY <2>1, <2>2, <2>5, <5>1
      <4> QED
        BY <4>3, <4>4, <4>5
    <3> QED
      BY <3>1, <3>2
  <2>6. CASE pc[c] # "snapDb" /\ n # <<c, 0>> /\ job[c].was \subseteq AttOf(cluster[<<c, 0>>])
    <3>1. pc'[c] # "snapDb"
      <4>1. SUFFICES ASSUME pc'[c] = "snapDb" PROVE FALSE
        OBVIOUS
      <4>2. Proceed(c) \/ Ends(c)
        BY <1>2, <2>6, <4>1, WhoMoves
      <4>3. InsertRow(c) \/ Hop(c)
        BY <4>1, <4>2, StepTo
      <4> QED
        BY <2>1, <4>3 DEF InsertRow, Hop, At, Asking, AskingOf, Passes, Makers
    <3>2. CASE AttOf(cluster[<<c, 0>>]) \subseteq AttOf(cluster'[<<c, 0>>])
      BY <2>1, <2>2, <2>6, <3>1, <3>2
    <3>3. CASE \E e \in Calls : Touches(e, <<c, 0>>)
      <4>1. PICK e \in Calls : Touches(e, <<c, 0>>)
        BY <3>3
      <4>2. e # c
        BY <2>1, <2>2, <2>6, <4>1 DEF Touches
      <4> QED
        BY <2>4, <4>1, <4>2
    <3> QED
      BY <2>3, <3>2, <3>3, AttStays
  <2>7. CASE \E e \in Calls \ {c} : Touches(e, n) \/ Touches(e, <<c, 0>>)
    BY <2>4, <2>7
  <2> QED
    BY <2>1, <2>2, <2>5, <2>6, <2>7 DEF Undoable
<1> QED
  BY <1>1, <1>2

\* An operation comes to work on a name that had no database.
LEMMA WorkBegins ==
  ASSUME Types, Asking, [Next]_vars, NEW c \in Calls, NEW n, WorksOn(c, n)'
  PROVE  WorksOn(c, n) \/ ((CreateDb(c) \/ CopyDb(c)) /\ n = job[c].name /\ cluster[n] = Absent)
<1>1. CASE pc[c] = "idle" /\ (pc'[c] # pc[c] \/ job'[c] # job[c])
  <2>1. Request(c)
    BY <1>1, IdleBegins
  <2>2. job'[c].op \in {"restore", "upgrade"} => pc'[c] \in {"createDb", "copyDb"}
    BY <2>1, BegunAsks
  <2> QED
    BY <2>2 DEF WorksOn
<1>2. CASE pc'[c] = pc[c] /\ job'[c] = job[c]
  BY <1>2 DEF WorksOn
<1>3. CASE pc[c] # "idle" /\ (pc'[c] # pc[c] \/ job'[c] # job[c])
  <2>1. Proceed(c) \/ Ends(c)
    BY <1>3, WhoMoves
  <2>2. job[c].op \in {"restore", "upgrade"} /\ job[c].name = n
    BY <1>3, AskedStays DEF Kept, WorksOn
  <2>3. pc'[c] \in {"replay", "insertRow", "snapDb", "snapFiles", "snapRow", "hop"}
    BY DEF WorksOn
  <2>4. CreateDb(c) \/ Replay(c) \/ CopyDb(c) \/ CheckKnown(c) \/ InsertRow(c) \/ Hop(c) \/ SnapDb(c)
        \/ SnapFiles(c) \/ SnapRow(c)
    BY <2>1, <2>3, StepTo
  <2>5. CASE CheckKnown(c)
    BY <2>2, <2>5 DEF CheckKnown, At, Asking, AskingOf, Passes
  <2>6. CASE Replay(c) \/ InsertRow(c) \/ Hop(c) \/ SnapDb(c) \/ SnapFiles(c) \/ SnapRow(c)
    BY <2>2, <2>6 DEF WorksOn, Replay, InsertRow, Hop, SnapDb, SnapFiles, SnapRow, At
  <2>7. CASE CreateDb(c) \/ CopyDb(c)
    BY <2>2, <2>7 DEF CreateDb, CopyDb, At, Possible, CanCreate, CanDuplicate
  <2> QED
    BY <2>4, <2>5, <2>6, <2>7
<1> QED
  BY <1>1, <1>2, <1>3

\* Nobody works on a name that another makes, unless its database was taken.
LEMMA NextAlone == Types /\ Asking /\ Presence /\ Alone /\ [Next]_vars => Alone'
<1> SUFFICES ASSUME Types, Asking, Presence, Alone, [Next]_vars,
                    NEW c \in Calls, NEW e \in Calls, NEW n \in Names,
                    WorksOn(c, n)', WorksOn(e, n)', c # e
             PROVE  Touched(n)'
  BY DEF Alone
<1>1. ASSUME NEW x \in Calls, WorksOn(x, n), cluster[n] = Absent PROVE Touched(n)'
  <2>1. Present(n)
    BY <1>1 DEF Presence, WorksOn
  <2>2. Touched(n)
    BY <1>1, <2>1 DEF Present, DatabaseExists, Gone, Touched
  <2> QED
    BY <2>2, TouchedStays
<1>2. CASE WorksOn(c, n) /\ WorksOn(e, n)
  BY <1>2, TouchedStays DEF Alone
<1>3. CASE ~WorksOn(c, n) /\ WorksOn(e, n)
  BY <1>1, <1>3, WorkBegins
<1>4. CASE WorksOn(c, n) /\ ~WorksOn(e, n)
  BY <1>1, <1>4, WorkBegins
<1>5. CASE ~WorksOn(c, n) /\ ~WorksOn(e, n)
  <2>1. (CreateDb(c) \/ CopyDb(c)) /\ (CreateDb(e) \/ CopyDb(e))
    BY <1>5, WorkBegins
  <2>2. Proceeds(c) /\ pc'[e] # pc[e]
    <3>1. Proceeds(c)
      BY <2>1, StepProceeds DEF Proceed
    <3>2. pc[e] \in {"createDb", "copyDb"} /\ pc'[e] \in {"replay", "insertRow"}
      BY <2>1 DEF CreateDb, CopyDb, At, Goto, Types, CallTypes
    <3> QED
      BY <3>1, <3>2
  <2> QED
    BY <2>2 DEF Proceeds, OthersStay
<1> QED
  BY <1>2, <1>3, <1>4, <1>5

-------------------------------------------------------------------------------
\* A database keeps its version and its state, but where an operation works on it
\* or took it.
LEMMA FoundStays ==
  ASSUME Types, Asking, [Next]_vars, NEW n \in Places, cluster[n] # Absent
  PROVE  \/ /\ cluster'[n] # Absent
            /\ cluster'[n].version = cluster[n].version /\ cluster'[n].mixed = cluster[n].mixed
         \/ Touched(n)'
         \/ \E e \in Calls : (Replay(e) \/ Hop(e) \/ HopFails(e)) /\ n = job[e].name
<1>1. CASE cluster'[n] = cluster[n]
  BY <1>1
<1>2. CASE \E c \in Calls : \/ DropDb(c) /\ n = job[c].row.name
                            \/ DropLive(c) /\ n = job[c].row.name
                            \/ UnsnapDb(c) /\ n = job[c].snap.id
  <2>1. PICK c \in Calls : \/ DropDb(c) /\ n = job[c].row.name
                           \/ DropLive(c) /\ n = job[c].row.name
                           \/ UnsnapDb(c) /\ n = job[c].snap.id
    BY <1>2
  <2>2. Touches(c, n)
    BY <2>1 DEF DropDb, DropLive, UnsnapDb, At, Asking, AskingOf, Passes, Touches
  <2> QED
    BY <2>2, TouchedStays DEF Touched
<1>3. CASE cluster[n] \in Contents /\ \E a \in Attachments : cluster'[n] = [cluster[n] EXCEPT !.att = @ \cup {a}]
  <2>1. PICK a \in Attachments : cluster'[n] = [cluster[n] EXCEPT !.att = @ \cup {a}]
    BY <1>3
  <2> DEFINE x == cluster[n].att \cup {a}
  <2>2. cluster'[n] = [cluster[n] EXCEPT !.att = x] /\ x \in SUBSET Attachments
    BY <1>3, <2>1 DEF Contents
  <2> HIDE DEF x
  <2>3. /\ cluster'[n] \in Contents
        /\ cluster'[n].version = cluster[n].version
    BY <1>3, <2>2 DEF Contents
  <2>4. cluster'[n].mixed = cluster[n].mixed
    BY <1>3, <2>2 DEF Contents
  <2> QED
    BY <2>3, <2>4, ConstantsAssumption
<1> QED
  BY <1>1, <1>2, <1>3, ClusterSteps

\* Between two of its own steps an upgrade's copy and its checkpoint stay as they are.
LEMMA CopyStays ==
  ASSUME Types, Asking, Alone, [Next]_vars, NEW c \in Calls, job[c].op = "upgrade",
         pc[c] # "idle", pc'[c] = pc[c], job'[c] = job[c]
  PROVE  /\ pc[c] \in WorkLocs \ {"copyDb"} /\ AsFound(c, job[c].name) =>
               AsFound(c, job[c].name)' \/ Touched(job[c].name)'
         /\ AsFound(c, SnapId(c)) => AsFound(c, SnapId(c))' \/ Touched(SnapId(c))'
<1>1. job[c].name \in Names /\ job[c].name \in Places /\ SnapId(c) \in SnapIds /\ SnapId(c) \in Places
  BY NamesKnown DEF Makers, Places
<1>2. FoundAt(c)' = FoundAt(c) /\ SnapId(c)' = SnapId(c)
  BY DEF FoundAt, SnapId
<1>3. ASSUME NEW m \in Places, m = job[c].name \/ m = SnapId(c), AsFound(c, m),
             ~ \E e \in Calls : (Replay(e) \/ Hop(e) \/ HopFails(e)) /\ m = job[e].name
      PROVE  AsFound(c, m)' \/ Touched(m)'
  BY <1>2, <1>3, FoundStays DEF AsFound
<1>4. ASSUME NEW e \in Calls, Replay(e) \/ Hop(e) \/ HopFails(e)
      PROVE  job[e].name \in Names /\ WorksOn(e, job[e].name) /\ e # c
  <2>1. (pc[e] = "replay" /\ job[e].op = "restore") \/ (pc[e] = "hop" /\ job[e].op = "upgrade")
    BY <1>4 DEF Replay, Hop, HopFails, At, Asking, AskingOf, Passes
  <2>2. job[e].name \in Names
    BY <2>1, NamesKnown
  <2>3. pc'[e] # pc[e]
    BY <1>4 DEF Replay, Hop, HopFails, At, Goto, Types, CallTypes
  <2> QED
    BY <2>1, <2>2, <2>3 DEF WorksOn
<1>5. ASSUME pc[c] \in WorkLocs \ {"copyDb"}, AsFound(c, job[c].name)
      PROVE  AsFound(c, job[c].name)' \/ Touched(job[c].name)'
  <2>1. WorksOn(c, job[c].name)
    BY <1>5 DEF WorksOn, Asking, AskingOf, Passes, WorkLocs, Makers
  <2>2. PICK m : m = job[c].name
    OBVIOUS
  <2>3. AsFound(c, m)' \/ Touched(m)'
    <3>1. CASE \E e \in Calls : (Replay(e) \/ Hop(e) \/ HopFails(e)) /\ m = job[e].name
      <4>1. PICK e \in Calls : (Replay(e) \/ Hop(e) \/ HopFails(e)) /\ m = job[e].name
        BY <3>1
      <4>2. WorksOn(e, m) /\ e # c
        BY <1>4, <4>1
      <4>3. Touched(m)
        BY <1>1, <2>1, <2>2, <4>2 DEF Alone
      <4> QED
        BY <4>3, TouchedStays
    <3>2. CASE ~ \E e \in Calls : (Replay(e) \/ Hop(e) \/ HopFails(e)) /\ m = job[e].name
      BY <1>1, <1>3, <1>5, <2>2, <3>2
    <3> QED
      BY <3>1, <3>2
  <2> QED
    BY <2>2, <2>3
<1>6. ASSUME AsFound(c, SnapId(c)) PROVE AsFound(c, SnapId(c))' \/ Touched(SnapId(c))'
  <2>1. PICK m : m = SnapId(c)
    OBVIOUS
  <2>2. ~ \E e \in Calls : (Replay(e) \/ Hop(e) \/ HopFails(e)) /\ m = job[e].name
    BY <1>1, <1>4, <2>1, ConstantsAssumption
  <2>3. AsFound(c, m)' \/ Touched(m)'
    BY <1>1, <1>3, <1>6, <2>1, <2>2
  <2> QED
    BY <1>2, <2>1, <2>3
<1> QED
  BY <1>5, <1>6

\* A hop fails with its checkpoint behind it.
LEMMA NextWaysBack == Types /\ Asking /\ Alone /\ WaysBack /\ [Next]_vars => WaysBack'
<1> DEFINE tag(c) == [id |-> SnapId(c), of |-> c, files |-> job[c].took]
           NeedsCheckpoint(c) == pc[c] \in {"snapFiles", "snapRow", "hop"} \/ job[c].snap # Absent
           NeedsRow(c)  == pc[c] = "hop" \/ job[c].snap # Absent
           WayBack(c) ==
             /\ pc[c] = "copyDb" => job[c].hop = 0
             /\ pc[c] \in WorkLocs \ {"copyDb"} => AsFound(c, job[c].name) \/ Touched(job[c].name)
             /\ NeedsCheckpoint(c) => AsFound(c, SnapId(c)) \/ Touched(SnapId(c)) \/ Touched(job[c].name)
             /\ NeedsRow(c) => tag(c) \in snapshots \/ Touched(SnapId(c))
<1> SUFFICES ASSUME Types, Asking, Alone, WaysBack, [Next]_vars, NEW c \in Calls, job'[c].op = "upgrade"
             PROVE  WayBack(c)'
  BY DEF WaysBack
<1> USE DEF Types, CallTypes
<1>1. CASE pc[c] = "idle"
  <2>1. Request(c)
    BY <1>1, IdleBegins
  <2>2. pc'[c] = "copyDb" /\ job'[c].snap = Absent /\ job'[c].hop = 0
    BY <2>1, BegunAsks
  <2> QED
    BY <2>2
<1>2. CASE pc[c] # "idle"
  <2>1. Kept(c) /\ job[c].op = "upgrade" /\ job'[c].name = job[c].name
    BY <1>2, AskedStays DEF Kept
  <2>2. WayBack(c) /\ AskingOf(c)
    BY <2>1 DEF WaysBack, Asking
  <2>3. \A n : Touched(n) => Touched(n)'
    BY TouchedStays
  <2>4. /\ job[c].name \in Names /\ job[c].name \in Places /\ SnapId(c) \in SnapIds /\ SnapId(c) \in Places
        /\ job[c].name # SnapId(c)
    BY <2>1, NamesKnown, ConstantsAssumption DEF Makers, Places
  <2>5. CASE pc'[c] = pc[c] /\ job'[c] = job[c]
    <3>1. SnapId(c)' = SnapId(c) /\ tag(c)' = tag(c)
      BY <2>5 DEF SnapId
    <3>2. /\ pc[c] \in WorkLocs \ {"copyDb"} /\ AsFound(c, job[c].name) =>
                AsFound(c, job[c].name)' \/ Touched(job[c].name)'
          /\ AsFound(c, SnapId(c)) => AsFound(c, SnapId(c))' \/ Touched(SnapId(c))'
      BY <1>2, <2>1, <2>5, CopyStays
    <3>3. tag(c) \in snapshots => tag(c) \in snapshots' \/ Touched(SnapId(c))'
      <4>1. SUFFICES ASSUME tag(c) \in snapshots, tag(c) \notin snapshots' PROVE Touched(SnapId(c))'
        OBVIOUS
      <4>2. PICK e \in Calls : UnsnapRow(e)
        <5>1. ASSUME NEW e \in Calls, SnapRow(e) PROVE snapshots \subseteq snapshots'
          BY <5>1 DEF SnapRow, InsertSnapshot
        <5>2. ASSUME NEW m \in Places, Attach(m) PROVE snapshots' = snapshots
          BY <5>2, AttachStays
        <5> QED
          BY <4>1, <5>1, <5>2, BegunAsks, StepCourse DEF Next, Ends, vars
      <4>3. job[e].op = "unsnapshot" /\ job[e].snap.id = SnapId(c)
        BY <4>1, <4>2 DEF UnsnapRow, At, DeleteSnapshot, Asking, AskingOf, Passes
      <4>4. Touched(SnapId(c))
        BY <4>3 DEF Touched, Touches
      <4>5. PICK m : m = SnapId(c)
        OBVIOUS
      <4> QED
        BY <2>3, <3>1, <4>4, <4>5
    <3>4. /\ Touched(job[c].name) => Touched(job[c].name)'
          /\ Touched(SnapId(c)) => Touched(SnapId(c))'
      BY <2>1, <2>3, <3>1
    <3> HIDE DEF tag
    <3> QED
      BY <2>2, <2>5, <3>1, <3>2, <3>3, <3>4
  <2>6. CASE pc'[c] # pc[c] \/ job'[c] # job[c]
    <3>1. (Proceed(c) \/ Ends(c)) /\ pc[c] \in WorkLocs /\ job[c].snap = Absent
      <4>1. Proceed(c) \/ Ends(c)
        BY <1>2, <2>6, WhoMoves
      <4> QED
        BY <2>1, <2>2, <4>1, StepProceeds DEF Proceeds, AskingOf, WorkLocs
    <3>2. CASE CopyDb(c)
      <4>1. pc[c] = "copyDb" /\ pc'[c] = "insertRow" /\ job[c].hop = 0
        BY <2>2, <3>2 DEF CopyDb, At, Goto
      <4> DEFINE b == cluster'[job[c].name]
      <4>2. job'[c] = [job[c] EXCEPT !.base = b]
        BY <3>2 DEF CopyDb
      <4>3. b # Absent
        <5>1. cluster[job[c].row.name] \in Contents
          <6>1. job[c].row.name \in Places
            BY <2>1, NamesKnown DEF HasRow
          <6> QED
            BY <3>2, <6>1 DEF CopyDb, At, Possible, CanDuplicate, DiskTypes
        <5>2. [cluster[job[c].row.name] EXCEPT !.bare = TRUE] \in Contents
          BY <5>1 DEF Contents
        <5> QED
          BY <2>4, <3>2, <5>2, ConstantsAssumption DEF CopyDb, DiskTypes
      <4>4. job'[c].base = b /\ job'[c].hop = 0 /\ job'[c].snap = Absent
        <5> HIDE DEF b
        <5> QED
          BY <3>1, <4>1, <4>2 DEF Jobs
      <4>5. AsFound(c, job[c].name)'
        BY <2>1, <4>3, <4>4 DEF AsFound, FoundAt
      <4> QED
        BY <4>1, <4>4, <4>5
    <3>3. CASE InsertRow(c)
      <4>1. pc[c] = "insertRow" /\ pc'[c] = "snapDb" /\ job' = job /\ cluster' = cluster
        BY <2>1, <3>3 DEF InsertRow, At, Goto
      <4>2. AsFound(c, job[c].name) => AsFound(c, job[c].name)'
        BY <4>1 DEF AsFound, FoundAt
      <4>3. Touched(job[c].name) => Touched(job[c].name)'
        BY <2>1, <2>3
      <4> QED
        BY <2>2, <3>1, <4>1, <4>2, <4>3 DEF WorkLocs
    <3>4. CASE SnapDb(c)
      <4>1. pc[c] = "snapDb" /\ pc'[c] = "snapFiles" /\ job' = job
        BY <3>4 DEF SnapDb, At, Goto
      <4>2. Source(c).name = job[c].name
        BY <2>1 DEF Source
      <4>3. /\ cluster'[job[c].name] = cluster[job[c].name]
            /\ cluster'[SnapId(c)] = cluster[job[c].name]
        BY <2>4, <3>4, <4>2 DEF SnapDb, DuplicateDatabase, DiskTypes
      <4>4. SnapId(c)' = SnapId(c)
        BY <4>1 DEF SnapId
      <4>5. AsFound(c, job[c].name) => AsFound(c, job[c].name)' /\ AsFound(c, SnapId(c))'
        BY <4>1, <4>3, <4>4 DEF AsFound, FoundAt
      <4>6. Touched(job[c].name) => Touched(job[c].name)'
        BY <2>1, <2>3
      <4> QED
        BY <2>2, <3>1, <4>1, <4>5, <4>6 DEF WorkLocs
    <3>5. CASE SnapFiles(c)
      <4>1. pc[c] = "snapFiles" /\ pc'[c] = "snapRow" /\ cluster' = cluster
        BY <3>5 DEF SnapFiles, At, Goto
      <4>2. job'[c].hop = job[c].hop /\ job'[c].base = job[c].base /\ job'[c].snap = job[c].snap
        BY <3>5 DEF SnapFiles, Jobs
      <4>3. SnapId(c)' = SnapId(c) /\ FoundAt(c)' = FoundAt(c)
        BY <4>2 DEF SnapId, FoundAt
      <4>4. /\ AsFound(c, job[c].name) => AsFound(c, job[c].name)'
            /\ AsFound(c, SnapId(c)) => AsFound(c, SnapId(c))'
        BY <2>1, <4>1, <4>2, <4>3 DEF AsFound
      <4>5. /\ Touched(job[c].name) => Touched(job[c].name)'
            /\ Touched(SnapId(c)) => Touched(SnapId(c))'
        BY <2>1, <2>3, <4>3
      <4> QED
        BY <2>2, <3>1, <4>1, <4>2, <4>4, <4>5 DEF WorkLocs
    <3>6. CASE SnapRow(c)
      <4>1. pc[c] = "snapRow" /\ pc'[c] = "hop" /\ cluster' = cluster /\ job' = job
        BY <2>1, <3>6 DEF SnapRow, At, Goto
      <4>2. Source(c).id = c
        BY <2>1 DEF Source
      <4>3. SnapId(c)' = SnapId(c) /\ tag(c)' = tag(c)
        BY <4>1 DEF SnapId
      <4>4. tag(c) \in snapshots'
        BY <3>6, <4>2 DEF SnapRow, InsertSnapshot
      <4>5. /\ AsFound(c, job[c].name) => AsFound(c, job[c].name)'
            /\ AsFound(c, SnapId(c)) => AsFound(c, SnapId(c))'
        BY <4>1, <4>3 DEF AsFound, FoundAt
      <4>6. /\ Touched(job[c].name) => Touched(job[c].name)'
            /\ Touched(SnapId(c)) => Touched(SnapId(c))'
        BY <2>1, <2>3, <4>3
      <4> HIDE DEF tag
      <4> QED
        BY <2>2, <3>1, <4>1, <4>3, <4>4, <4>5, <4>6 DEF WorkLocs
    <3>7. CASE Hop(c)
      <4>1. pc[c] = "hop" /\ cluster[job[c].name] # Absent
        BY <3>7 DEF Hop, At, Possible, DatabaseExists
      <4>2. CASE job[c].hop + 1 < Hops
        <5>1. pc'[c] = "snapDb" /\ job' = [job EXCEPT ![c] = [[job[c] EXCEPT !.hop = @ + 1] EXCEPT !.took = FALSE]]
          BY <3>7, <4>2 DEF Hop, Goto
        <5>2. job'[c].hop = job[c].hop + 1 /\ job'[c].base = job[c].base /\ job'[c].snap = job[c].snap
          BY <5>1 DEF Jobs
        <5>3. cluster'[job[c].name] = [cluster[job[c].name] EXCEPT !.version = job[c].hop + 1]
          BY <2>4, <3>7 DEF Hop, DiskTypes
        <5>4. cluster[job[c].name] \in Contents /\ job[c].hop + 1 \in 1 .. Hops
          BY <2>4, <4>1, ConstantsAssumption DEF DiskTypes, Jobs
        <5> DEFINE v == job[c].hop + 1
                   x == cluster[job[c].name]
        <5>5. x \in Contents /\ v \in 1 .. Hops /\ cluster'[job[c].name] = [x EXCEPT !.version = v]
          BY <5>3, <5>4
        <5>6. /\ [x EXCEPT !.version = v] \in Contents /\ [x EXCEPT !.version = v].version = v
              /\ [x EXCEPT !.version = v].mixed = x.mixed
          <6> HIDE DEF x, v
          <6>1. v \in 0 .. Hops
            BY <5>5
          <6>2. [x EXCEPT !.version = v] \in Contents /\ [x EXCEPT !.version = v].version = v
            BY <5>5, <6>1 DEF Contents
          <6>3. [x EXCEPT !.version = v].mixed = x.mixed
            BY <5>5, <6>1 DEF Contents
          <6> QED
            BY <6>2, <6>3
        <5>7. AsFound(c, job[c].name) => AsFound(c, job[c].name)'
          <6>1. job'[c].hop = v /\ v # 0
            BY <5>2, <5>5
          <6>2. cluster'[job[c].name] # Absent /\ cluster'[job[c].name].version = v
            BY <5>5, <5>6, ConstantsAssumption
          <6>3. cluster'[job[c].name].mixed = x.mixed
            BY <5>5, <5>6
          <6> HIDE DEF v
          <6> QED
            BY <2>1, <5>2, <6>1, <6>2, <6>3 DEF AsFound, FoundAt
        <5>8. Touched(job[c].name) => Touched(job[c].name)'
          BY <2>1, <2>3
        <5> QED
          BY <2>2, <3>1, <4>1, <5>1, <5>2, <5>7, <5>8 DEF WorkLocs
      <4>3. CASE ~(job[c].hop + 1 < Hops)
        <5>1. pc'[c] = "done" /\ job' = job
          BY <3>7, <4>3 DEF Hop, Goto
        <5> QED
          BY <3>1, <5>1 DEF WorkLocs
      <4> QED
        BY <4>2, <4>3
    <3>8. CASE HopFails(c)
      <4>1. pc[c] = "hop" /\ pc'[c] = "cut" /\ UNCHANGED snapshots
        BY <3>8 DEF HopFails, At, Goto
      <4>2. /\ job'[c].hop = job[c].hop /\ job'[c].base = job[c].base /\ job'[c].took = job[c].took
        BY <3>8 DEF HopFails, Jobs
      <4>3. SnapId(c)' = SnapId(c) /\ FoundAt(c)' = FoundAt(c) /\ tag(c)' = tag(c)
        BY <4>2 DEF SnapId, FoundAt
      <4>4. cluster'[SnapId(c)] = cluster[SnapId(c)]
        BY <2>4, <3>8 DEF HopFails, DiskTypes
      <4>5. AsFound(c, SnapId(c)) => AsFound(c, SnapId(c))'
        BY <4>2, <4>3, <4>4 DEF AsFound
      <4>6. /\ Touched(job[c].name) => Touched(job[c].name)'
            /\ Touched(SnapId(c)) => Touched(SnapId(c))'
        BY <2>1, <2>3, <4>3
      <4> HIDE DEF tag
      <4> QED
        BY <2>2, <4>1, <4>3, <4>5, <4>6 DEF WorkLocs
    <3>9. CASE CutShort(c) \/ FolderPartly(c)
      <4>1. pc'[c] = "cut" /\ job' = job
        BY <3>9, StopsAre DEF Goto
      <4> QED
        BY <3>1, <4>1 DEF WorkLocs
    <3>10. pc[c] \in {"copyDb", "insertRow", "snapDb", "snapFiles", "snapRow", "hop"}
      BY <2>1, <2>2, <3>1 DEF AskingOf, Passes, WorkLocs, Makers
    <3>11. pc[c] = "copyDb" => CopyDb(c) \/ CutShort(c)
      BY <3>1, StepAt
    <3> QED
      BY <3>1, <3>2, <3>3, <3>4, <3>5, <3>6, <3>7, <3>8, <3>9, <3>10, <3>11, StepAt
  <2> QED
    BY <2>5, <2>6
<1> QED
  BY <1>1, <1>2

\* The names of snapshots still to be taken stay unknown.
LEMMA NextFresh == Types /\ Asking /\ Fresh /\ [Next]_vars => Fresh'
<1> SUFFICES ASSUME Types, Asking, Fresh, [Next]_vars, NEW c \in Calls, NEW k \in 0 .. Hops - 1
             PROVE  /\ pc'[c] = "idle" =>
                         /\ cluster'[<<c, k>>] = Absent
                         /\ <<c, k>> \notin NamesOf(databases)'
                         /\ \A e \in Calls : job'[e].op = "adopt" => job'[e].name # <<c, k>>
                         /\ \A e \in Calls : job'[e].op = "revert" => job'[e].row.name # <<c, k>>
                    /\ job'[c].op = "upgrade" => job'[c].row.name # <<c, k>>
  BY DEF Fresh
<1> DEFINE n == <<c, k>>
<1>1. n \in SnapIds /\ n \in Places /\ n \notin Names
  BY ConstantsAssumption DEF SnapIds, Places
<1>2. pc'[c] = "idle" => pc[c] = "idle" /\ job'[c] = job[c]
  <2>1. CASE pc[c] # "idle"
    BY <2>1, AskedStays
  <2>2. CASE pc[c] = "idle" /\ job'[c] # job[c]
    BY <2>2, IdleBegins, RequestBegins DEF Begins
  <2> QED
    BY <2>1, <2>2
<1>3. ASSUME pc[c] = "idle" PROVE n \notin NamesOf(databases) /\ cluster[n] = Absent
  BY <1>3 DEF Fresh
<1>4. /\ pc[c] = "idle" =>
           \A e \in Calls : (job[e].op = "adopt" => job[e].name # n) /\ (job[e].op = "revert" => job[e].row.name # n)
      /\ job[c].op = "upgrade" => job[c].row.name # n
  <2>1. ASSUME pc[c] = "idle", NEW e \in Calls
        PROVE  (job[e].op = "adopt" => job[e].name # n) /\ (job[e].op = "revert" => job[e].row.name # n)
    BY <2>1 DEF Fresh
  <2>2. job[c].op = "upgrade" => job[c].row.name # n
    BY DEF Fresh
  <2> QED
    BY <2>1, <2>2
<1>5. job'[c].op = "upgrade" => job'[c].row.name # n
  <2>1. CASE pc[c] = "idle"
    <3>1. SUFFICES ASSUME job'[c].op = "upgrade" PROVE job'[c].row.name # n
      OBVIOUS
    <3>2. job'[c].row \in databases
      BY <2>1, <3>1, IdleBegins, BegunAsks
    <3> QED
      BY <1>3, <2>1, <3>2 DEF NamesOf
  <2>2. CASE pc[c] # "idle"
    BY <1>4, <2>2, AskedStays DEF Kept
  <2> QED
    BY <2>1, <2>2
<1> HIDE DEF n
<1>6. ASSUME pc'[c] = "idle" PROVE cluster'[n] = Absent
  <2>1. pc[c] = "idle" /\ cluster[n] = Absent
    BY <1>2, <1>3, <1>6
  <2>2. SUFFICES ASSUME cluster'[n] # Absent PROVE FALSE
    OBVIOUS
  <2>3. PICK e \in Calls :
          \/ CreateDb(e) /\ n = job[e].name
          \/ CopyDb(e) /\ n = job[e].name
          \/ DropDb(e) /\ n = job[e].row.name
          \/ DropLive(e) /\ n = job[e].row.name
          \/ UnsnapDb(e) /\ n = job[e].snap.id
          \/ SnapDb(e) /\ n = SnapId(e)
          \/ CopyBack(e) /\ n = job[e].row.name
    BY <1>1, <2>1, <2>2, ClusterSteps, ConstantsAssumption
  <2>4. ~((CreateDb(e) \/ CopyDb(e)) /\ n = job[e].name)
    BY <1>1, NamesKnown DEF CreateDb, CopyDb, At
  <2>5. (~DropDb(e) /\ ~DropLive(e) /\ ~UnsnapDb(e)) \/ ~(n = job[e].row.name \/ n = job[e].snap.id)
    BY <1>1, <2>1, <2>2 DEF DropDb, DropLive, UnsnapDb, DropDatabase, Types, DiskTypes
  <2>6. ~(SnapDb(e) /\ n = SnapId(e))
    <3>1. SUFFICES ASSUME SnapDb(e), n = SnapId(e) PROVE FALSE
      OBVIOUS
    <3>2. e = c
      BY <3>1 DEF n, SnapId
    <3> QED
      BY <2>1, <3>1, <3>2 DEF SnapDb, At
  <2>7. ~(CopyBack(e) /\ n = job[e].row.name)
    BY <1>4, <2>1 DEF CopyBack, At, Asking, AskingOf, Passes
  <2>8. ~(DropDb(e) /\ n = job[e].row.name) /\ ~(DropLive(e) /\ n = job[e].row.name)
        /\ ~(UnsnapDb(e) /\ n = job[e].snap.id)
    BY <1>1, <2>1, <2>2 DEF DropDb, DropLive, UnsnapDb, DropDatabase, Types, DiskTypes
  <2> QED
    BY <2>3, <2>4, <2>6, <2>7, <2>8
<1>7. ASSUME pc'[c] = "idle" PROVE n \notin NamesOf(databases)'
  <2>1. n \notin NamesOf(databases) /\ pc[c] = "idle"
    BY <1>2, <1>3, <1>7
  <2>2. CASE databases' \subseteq databases
    BY <2>1, <2>2 DEF NamesOf
  <2>3. ASSUME NEW e \in Calls, InsertRow(e) PROVE n \notin NamesOf(databases)'
    <3>1. databases' = databases \cup {[id |-> e, name |-> job[e].name]} /\ pc[e] = "insertRow"
      BY <2>3 DEF InsertRow, InsertDatabase, At
    <3>2. job[e].op \in Makers \cup {"adopt"}
      BY <3>1 DEF Asking, AskingOf, Passes, Makers
    <3>3. job[e].op = "adopt" => job[e].name # n
      BY <1>4, <2>1
    <3>4. job[e].name # n
      BY <1>1, <3>2, <3>3, NamesKnown
    <3> QED
      BY <2>1, <3>1, <3>4 DEF NamesOf
  <2>4. ASSUME NEW e \in Calls, DropRow(e) \/ Forget(e) PROVE databases' \subseteq databases
    BY <2>4 DEF DropRow, Forget, DeleteDatabase
  <2>5. ASSUME NEW m \in Places, Attach(m) PROVE databases' = databases
    BY <2>5, AttachStays
  <2> QED
    BY <2>2, <2>3, <2>4, <2>5, BegunAsks, StepCourse DEF Next, Ends, vars
<1>9. ASSUME pc'[c] = "idle", NEW e \in Calls
      PROVE  /\ job'[e].op = "adopt" => job'[e].name # n
             /\ job'[e].op = "revert" => job'[e].row.name # n
  <2>1. n \notin NamesOf(databases) /\ pc[c] = "idle"
    BY <1>2, <1>3, <1>9
  <2>2. CASE pc[e] # "idle"
    BY <1>4, <2>1, <2>2, AskedStays DEF Kept
  <2>3. CASE pc[e] = "idle" /\ job'[e] = job[e]
    BY <1>4, <2>1, <2>3
  <2>4. CASE Request(e)
    <3>1. n \notin Names \cup ListClusterDatabases
      BY <1>1, <1>2, <1>3, <1>9 DEF ListClusterDatabases, DatabaseExists
    <3> QED
      BY <2>1, <2>4, <3>1, BegunAsks DEF NamesOf
  <2> QED
    BY <2>2, <2>3, <2>4, IdleBegins
<1> QED
  BY <1>5, <1>6, <1>7, <1>9 DEF n

-------------------------------------------------------------------------------
(* Names that nobody shares *)

\* A request learns of the names it shares with those under way.
LEMMA RequestClashes ==
  ASSUME Types, NEW c \in Calls, Request(c)
  PROVE  /\ clashed \subseteq clashed'
         /\ \A e \in InFlight, n \in Places :
              n \in On(c, job'[c]) /\ n \in On(e, job[e]) => n \in clashed'
<1> SUFFICES ASSUME NEW l, NEW j, Begin(c, l, j)
             PROVE  /\ clashed \subseteq clashed'
                    /\ \A e \in InFlight, n \in Places :
                         n \in On(c, job'[c]) /\ n \in On(e, job[e]) => n \in clashed'
  BY DEF Request, BeginCreate, BeginRestore, BeginDuplicate, BeginUpgrade, BeginAdopt, BeginDrop,
         BeginBackup, BeginSnapshot, BeginUnsnapshot, BeginRevert, BeginReconcile, Forget
<1>1. job'[c] = j
  BY DEF Begin, Types, CallTypes
<1> HIDE DEF InFlight
<1> QED
  BY <1>1 DEF Begin

\* Only a request changes what is known of shared names.
LEMMA ClashedStays ==
  ASSUME NEW c \in Calls, Proceed(c) \/ Ends(c)
  PROVE  clashed' = clashed
<1>1. CASE CreateDb(c) \/ Replay(c) \/ InsertRow(c) \/ RestoreFiles(c) \/ CopyDb(c) \/ Lookup(c) \/ CheckKnown(c)
  BY <1>1 DEF CreateDb, Replay, InsertRow, RestoreFiles, CopyDb, Lookup, CheckKnown
<1>2. CASE DropDb(c) \/ DropFiles(c) \/ DropRow(c) \/ Dump(c) \/ CopyFiles(c) \/ Mark(c)
  BY <1>2 DEF DropDb, DropFiles, DropRow, Dump, CopyFiles, Mark
<1>3. CASE SnapDb(c) \/ SnapFiles(c) \/ SnapRow(c) \/ UnsnapDb(c) \/ UnsnapFiles(c) \/ UnsnapRow(c)
  BY <1>3 DEF SnapDb, SnapFiles, SnapRow, UnsnapDb, UnsnapFiles, UnsnapRow
<1>4. CASE DropLive(c) \/ CopyBack(c) \/ RemoveFiles(c) \/ LinkFiles(c)
  BY <1>4 DEF DropLive, CopyBack, RemoveFiles, LinkFiles
<1>5. CASE Hop(c) \/ AskCluster(c)
  BY <1>5 DEF Hop, AskCluster
<1>6. CASE Ends(c)
  BY <1>6 DEF Ends, CutShort, FolderPartly, BackupPartly, DumpTruncated, HopFails, Unchecked
<1> QED
  BY <1>1, <1>2, <1>3, <1>4, <1>5, <1>6 DEF Proceed

\* A name that is shared stays so.
LEMMA ClashedGrows ==
  ASSUME Types, Asking, [Next]_vars
  PROVE  clashed \subseteq clashed'
<1>1. ASSUME NEW n \in Places, Attach(n) PROVE clashed' = clashed
  BY <1>1 DEF Attach
<1> QED
  BY <1>1, RequestClashes, ClashedStays DEF Next, Ends, vars

\* An operation under way is about the names it was asked about.
LEMMA OnStays ==
  ASSUME Types, Asking, Asking', [Next]_vars, NEW c \in Calls, pc[c] # "idle", pc'[c] \in WorkLocs
  PROVE  pc[c] \in WorkLocs /\ On(c, job'[c]) = On(c, job[c])
<1>1. pc[c] \in WorkLocs
  BY AskedStays DEF Types, CallTypes, WorkLocs, EndLocs
<1>2. job'[c].row = job[c].row /\ job'[c].name = job[c].name /\ job'[c].op = job[c].op
  BY AskedStays DEF Kept
<1>3. job'[c].snap = job[c].snap
  <2>1. CASE job[c].op = "upgrade"
    <3>1. job[c].snap = Absent
      BY <1>1, <2>1 DEF Asking, AskingOf, WorkLocs
    <3>2. AskingOf(c)' /\ job'[c].op = "upgrade" /\ pc'[c] # "cut"
      BY <1>2, <2>1 DEF Asking, WorkLocs
    <3>3. job'[c].snap = Absent
      BY <3>2, ZenonT(40) DEF AskingOf
    <3> QED
      BY <3>1, <3>3
  <2>2. CASE job[c].op # "upgrade"
    BY <2>2, AskedStays DEF Kept
  <2> QED
    BY <2>1, <2>2
<1> QED
  BY <1>1, <1>2, <1>3 DEF On

\* Who comes to share a name with somebody under way makes it known.
LEMMA NextApart == Types /\ Asking /\ Asking' /\ Apart /\ [Next]_vars => Apart'
<1> SUFFICES ASSUME Types, Asking, Asking', Apart, [Next]_vars,
                    NEW c \in Calls, NEW e \in Calls, pc'[c] \in WorkLocs, pc'[e] \in WorkLocs, c # e,
                    NEW n \in Places, n \in On(c, job'[c]), n \in On(e, job'[e])
             PROVE  n \in clashed'
  BY DEF Apart, InFlight
<1>1. ASSUME NEW x \in Calls, NEW y \in Calls, x # y, pc[x] = "idle", pc'[x] \in WorkLocs, pc'[y] \in WorkLocs,
             n \in On(x, job'[x]), n \in On(y, job'[y])
      PROVE  n \in clashed'
  <2>1. Request(x)
    BY <1>1, IdleBegins DEF WorkLocs
  <2>2. pc'[y] = pc[y] /\ job'[y] = job[y]
    BY <1>1, <2>1, RequestBegins DEF Begins, OthersStay
  <2> QED
    BY <1>1, <2>1, <2>2, RequestClashes DEF InFlight
<1>2. CASE pc[c] # "idle" /\ pc[e] # "idle"
  <2>1. /\ pc[c] \in WorkLocs /\ On(c, job'[c]) = On(c, job[c])
        /\ pc[e] \in WorkLocs /\ On(e, job'[e]) = On(e, job[e])
    BY <1>2, OnStays
  <2>2. n \in clashed
    BY <2>1 DEF Apart, InFlight
  <2> QED
    BY <2>2, ClashedGrows
<1> QED
  BY <1>1, <1>2

\* What is excused stays so.
LEMMA ExcusedStays ==
  ASSUME Types, Asking, [Next]_vars, NEW n, Excused(n)
  PROVE  Excused(n)'
<1>1. CASE n \in clashed
  BY <1>1, ClashedGrows DEF Excused
<1>2. CASE n \notin clashed
  <2>1. PICK c \in Calls : Touches(c, n) /\ (pc[c] = "cut" \/ job[c].op = "unsnapshot")
    BY <1>2 DEF Excused
  <2>2. Touches(c, n)'
    BY <2>1, StillTouches
  <2>3. pc[c] # "idle"
    <3>1. NoJob.op = "forget"
      BY DEF NoJob, Asked
    <3> QED
      BY <2>1, <3>1 DEF Asking, AskingOf, Touches
  <2>4. job'[c].op = job[c].op /\ (pc[c] = "cut" => pc'[c] = "cut")
    BY <2>3, AskedStays DEF Kept, EndLocs
  <2> QED
    BY <2>1, <2>2, <2>4 DEF Excused
<1> QED
  BY <1>1, <1>2

\* A database that goes leaves whoever took it between two steps, or its name excused;
\* an operation under way that is about that name is the one, or shares it.
LEMMA LossExcused ==
  ASSUME Types, Asking, Apart, [Next]_vars, NEW n \in Places, cluster[n] # Absent, cluster'[n] = Absent
  PROVE  /\ Excused(n)' \/ \E c \in Calls : Touches(c, n)' /\ Between(c)'
         /\ \A e \in InFlight : n \in On(e, job[e]) /\ job[e].op \notin {"drop", "revert"} => Excused(n)'
<1>1. PICK c \in Calls : \/ DropDb(c) /\ n = job[c].row.name
                         \/ DropLive(c) /\ n = job[c].row.name
                         \/ UnsnapDb(c) /\ n = job[c].snap.id
  BY DatabaseLost
<1>2. Touches(c, n)
  BY <1>1 DEF DropDb, DropLive, UnsnapDb, At, Asking, AskingOf, Passes, Touches
<1>3. Touches(c, n)'
  BY <1>2, StillTouches
<1>4. Proceeds(c)
  BY <1>1, StepProceeds DEF Proceed
<1>5. CASE UnsnapDb(c)
  <2>1. job'[c].op = "unsnapshot"
    BY <1>4, <1>5 DEF UnsnapDb, At, Asking, AskingOf, Passes, Proceeds, Kept
  <2> QED
    BY <1>3, <2>1 DEF Excused
<1>6. CASE DropDb(c) \/ DropLive(c)
  <2>1. Between(c)' /\ job[c].op \in {"drop", "revert"} /\ job[c].row \in Rows /\ n = job[c].row.name
    BY <1>1, <1>6 DEF DropDb, DropLive, UnsnapDb, At, Goto, Between, Asking, AskingOf, Passes, HasRow, Types, CallTypes
  <2>2. n \in On(c, job[c]) /\ c \in InFlight
    BY <1>4, <2>1, ConstantsAssumption DEF On, InFlight, Proceeds
  <2>3. ASSUME NEW e \in InFlight, n \in On(e, job[e]), job[e].op \notin {"drop", "revert"}
        PROVE  Excused(n)'
    <3>1. n \in clashed
      BY <2>1, <2>2, <2>3 DEF Apart
    <3> QED
      BY <3>1, ExcusedStays DEF Excused
  <2> QED
    BY <1>3, <2>1, <2>3
<1> QED
  BY <1>1, <1>5, <1>6

\* Where a row comes from.
LEMMA RowsCome ==
  ASSUME Types, Asking, [Next]_vars, NEW d \in databases', d \notin databases
  PROVE  \E c \in Calls : InsertRow(c) /\ d = [id |-> c, name |-> job[c].name]
<1>1. ASSUME NEW c \in Calls, InsertRow(c) PROVE d = [id |-> c, name |-> job[c].name]
  BY <1>1 DEF InsertRow, InsertDatabase
<1>2. ASSUME NEW c \in Calls, DropRow(c) \/ Forget(c) PROVE FALSE
  BY <1>2 DEF DropRow, Forget, DeleteDatabase
<1>3. ASSUME NEW n \in Places, Attach(n) PROVE FALSE
  BY <1>3, AttachStays
<1> QED
  BY <1>1, <1>2, <1>3, BegunAsks, StepCourse DEF Next, Ends, vars

\* Where a row goes.
LEMMA RowsGo ==
  ASSUME Types, Asking, RowIds, [Next]_vars, NEW d \in databases, d \notin databases'
  PROVE  \E c \in Calls : \/ DropRow(c) /\ job[c].op = "drop" /\ job[c].row = d
                          \/ Forget(c) /\ job'[c].row = d
<1>1. ASSUME NEW c \in Calls, InsertRow(c) PROVE FALSE
  BY <1>1 DEF InsertRow, InsertDatabase
<1>2. ASSUME NEW c \in Calls, DropRow(c) PROVE job[c].op = "drop" /\ job[c].row = d
  <2>1. job[c].op = "drop" /\ d.id = job[c].row.id
    BY <1>2 DEF DropRow, DeleteDatabase, At, Asking, AskingOf, Passes
  <2> QED
    BY <2>1 DEF RowIds
<1>3. ASSUME NEW c \in Calls, Forget(c) PROVE job'[c].row = d
  <2>1. PICK x \in databases : Begin(c, "done", Asked("forget", x, Absent, Absent)) /\ DeleteDatabase(x.id)
    BY <1>3 DEF Forget
  <2>2. d = x
    BY <2>1 DEF DeleteDatabase, RowIds
  <2>3. job'[c] = Asked("forget", x, Absent, Absent)
    BY <2>1 DEF Begin, Types, CallTypes
  <2> QED
    BY <2>2, <2>3 DEF Asked
<1>4. ASSUME NEW n \in Places, Attach(n) PROVE FALSE
  BY <1>4, AttachStays
<1> QED
  BY <1>1, <1>2, <1>3, <1>4, BegunAsks, StepCourse DEF Next, Ends, vars

\* A row whose database goes is excused, or whoever takes it is between the two.
LEMMA RowsSettled ==
  ASSUME Types, Asking, RowIds, Apart, Settled, [Next]_vars, NEW d \in databases'
  PROVE  DatabaseExists(d.name)' \/ Excused(d.name)' \/ \E c \in Calls : Touches(c, d.name)' /\ Between(c)'
<1>1. PICK n \in Places : n = d.name
  <2>1. d \in Rows
    BY NextBookTypes DEF BookTypes
  <2> QED
    BY <2>1 DEF Rows
<1>2. CASE d \notin databases
  <2>1. PICK c \in Calls : InsertRow(c) /\ d = [id |-> c, name |-> job[c].name]
    BY <1>2, RowsCome
  <2>2. pc[c] = "insertRow" /\ n = job[c].name /\ cluster' = cluster
    BY <1>1, <2>1 DEF InsertRow, At
  <2>3. DatabaseExists(n) \/ Excused(n)
    BY <2>2 DEF Settled
  <2> QED
    BY <1>1, <2>2, <2>3, ExcusedStays DEF DatabaseExists
<1>3. CASE d \in databases
  <2>1. CASE DatabaseExists(n)
    BY <1>1, <2>1, LossExcused DEF DatabaseExists
  <2>2. CASE Excused(n)
    BY <1>1, <2>2, ExcusedStays
  <2>3. CASE ~DatabaseExists(n) /\ ~Excused(n)
    <3>1. PICK c \in Calls : Touches(c, n) /\ Between(c)
      BY <1>1, <1>3, <2>3 DEF Settled
    <3>2. Touches(c, n)'
      BY <3>1, StillTouches
    <3>3. CASE pc'[c] = pc[c]
      BY <1>1, <3>1, <3>2, <3>3 DEF Between
    <3>4. CASE pc'[c] # pc[c]
      <4>1. Proceed(c) \/ Ends(c)
        BY <3>1, <3>4, WhoMoves DEF Between
      <4>2. CASE CutShort(c)
        BY <1>1, <3>2, <4>2 DEF CutShort, Goto, Excused, Types, CallTypes
      <4>3. CASE DropFiles(c)
        BY <1>1, <3>2, <4>3 DEF DropFiles, Goto, Between, Types, CallTypes
      <4>4. CASE DropRow(c)
        <5>1. job[c].op = "drop" /\ pc[c] \in WorkLocs
          BY <4>4 DEF DropRow, At, Asking, AskingOf, Passes, WorkLocs
        <5>2. job[c].row.name = n /\ d.id # job[c].row.id
          BY <3>1, <4>4, <5>1 DEF Touches, DropRow, DeleteDatabase
        <5>3. job[c].row \in databases \/ n \in clashed
          BY <5>1, <5>2 DEF Settled
        <5> QED
          BY <1>1, <1>3, <2>3, <5>2, <5>3 DEF Settled, Excused
      <4>5. CASE CopyBack(c)
        <5>1. job[c].op = "revert"
          BY <4>5 DEF CopyBack, At, Asking, AskingOf, Passes
        <5>2. n = job[c].row.name
          BY <3>1, <5>1 DEF Touches
        <5>3. cluster'[n] = cluster[job[c].snap.id] /\ cluster[job[c].snap.id] # Absent
          BY <4>5, <5>2 DEF CopyBack, At, Possible, CanDuplicate, DuplicateDatabase, Types, DiskTypes
        <5> QED
          BY <1>1, <5>3 DEF DatabaseExists
      <4> QED
        BY <3>1, <4>1, <4>2, <4>3, <4>4, <4>5, StepAt DEF Between
    <3> QED
      BY <3>3, <3>4
  <2> QED
    BY <2>1, <2>2, <2>3
<1> QED
  BY <1>2, <1>3

\* A name gets a second row only where operations shared it.
LEMMA SecondRows ==
  ASSUME Types, Asking, Settled, [Next]_vars, NEW d \in databases', NEW e \in databases',
         d.name = e.name, d # e
  PROVE  Excused(d.name)'
<1>1. CASE d \in databases /\ e \in databases
  BY <1>1, ExcusedStays DEF Settled
<1>2. ASSUME NEW x \in databases', x \notin databases, NEW y \in databases, x.name = y.name
      PROVE  Excused(x.name)'
  <2>1. PICK c \in Calls : InsertRow(c) /\ x = [id |-> c, name |-> job[c].name]
    BY <1>2, RowsCome
  <2>2. pc[c] = "insertRow" /\ y.name = job[c].name
    BY <1>2, <2>1 DEF InsertRow, At
  <2>3. Excused(y.name)
    BY <2>2 DEF Settled
  <2> QED
    BY <1>2, <2>3, ExcusedStays
<1>3. CASE d \notin databases /\ e \notin databases
  <2>1. PICK c \in Calls : InsertRow(c) /\ d = [id |-> c, name |-> job[c].name]
    BY <1>3, RowsCome
  <2>2. PICK x \in Calls : InsertRow(x) /\ e = [id |-> x, name |-> job[x].name]
    BY <1>3, RowsCome
  <2>3. x = c
    <3>1. Proceeds(c) /\ pc'[x] # pc[x]
      BY <2>1, <2>2, StepProceeds DEF Proceed, InsertRow, At, Goto, Types, CallTypes
    <3> QED
      BY <3>1 DEF Proceeds, OthersStay
  <2> QED
    BY <2>1, <2>2, <2>3
<1> QED
  BY <1>1, <1>2, <1>3

\* Who has yet to write the row of a name writes its first.
LEMMA FirstRows ==
  ASSUME Types, Asking, Apart, Settled, [Next]_vars, NEW c \in Calls, NEW d \in databases',
         pc'[c] \in {"replay", "insertRow"}, d.name = job'[c].name
  PROVE  Excused(d.name)'
<1>1. pc[c] # "idle"
  <2>1. SUFFICES ASSUME pc[c] = "idle" PROVE FALSE
    OBVIOUS
  <2>2. Request(c)
    BY <2>1, IdleBegins
  <2>3. ~Forget(c)
    BY DEF Forget, Begin, Goto, Types, CallTypes
  <2> QED
    BY <2>2, <2>3, BegunAsks
<1>2. PICK n : n = d.name /\ n = job[c].name /\ n = job'[c].name
  BY <1>1, AskedStays DEF Kept
<1>3. CASE pc[c] \in {"replay", "insertRow"}
  <2>1. CASE d \in databases
    BY <1>2, <1>3, <2>1, ExcusedStays DEF Settled
  <2>2. CASE d \notin databases
    <3>1. PICK e \in Calls : InsertRow(e) /\ d = [id |-> e, name |-> job[e].name]
      BY <2>2, RowsCome
    <3>2. pc[e] = "insertRow" /\ pc'[e] \notin {"replay", "insertRow"} /\ n = job[e].name
      BY <1>2, <3>1 DEF InsertRow, At, Goto, Types, CallTypes
    <3>3. n \in Places /\ c # e /\ c \in InFlight /\ e \in InFlight
      BY <1>3, <3>2, NamesKnown DEF InFlight, WorkLocs
    <3>4. n \in On(c, job[c]) /\ n \in On(e, job[e])
      BY <1>2, <3>2, <3>3 DEF On
    <3>5. n \in clashed
      BY <3>3, <3>4 DEF Apart
    <3> QED
      BY <1>2, <3>5, ExcusedStays DEF Excused
  <2> QED
    BY <2>1, <2>2
<1>4. CASE pc[c] \notin {"replay", "insertRow"}
  <2>1. Proceed(c) \/ Ends(c)
    BY <1>1, <1>4, WhoMoves
  <2>2. CreateDb(c) \/ CopyDb(c) \/ CheckKnown(c)
    BY <1>4, <2>1, StepTo DEF Replay, At
  <2>3. d \in databases
    BY <2>2 DEF CreateDb, CopyDb, CheckKnown
  <2>4. CASE CheckKnown(c)
    BY <1>2, <2>3, <2>4 DEF CheckKnown, At, Possible
  <2>5. CASE CreateDb(c) \/ CopyDb(c)
    <3>1. cluster[n] = Absent /\ n \in Places
      BY <1>2, <2>5, MadeExists
    <3>2. CASE Excused(n)
      BY <1>2, <3>2, ExcusedStays
    <3>3. CASE \E e \in Calls : Touches(e, n) /\ Between(e)
      <4>1. PICK e \in Calls : Touches(e, n) /\ Between(e)
        BY <3>3
      <4>2. job[e].op \in {"drop", "revert"} /\ pc[e] \in WorkLocs
        BY <4>1 DEF Between, WorkLocs, Asking, AskingOf, Passes
      <4>3. job[e].row.name = n /\ job[e].row \in Rows
        BY <4>1, <4>2 DEF Touches, Asking, AskingOf, HasRow
      <4>4. n \in On(e, job[e]) /\ n \in On(c, job[c])
        BY <1>2, <3>1, <4>3, ConstantsAssumption DEF On
      <4>5. c # e /\ c \in InFlight /\ e \in InFlight
        BY <2>5, <4>1, <4>2 DEF CreateDb, CopyDb, At, Between, InFlight, WorkLocs
      <4>6. n \in clashed
        BY <3>1, <4>4, <4>5 DEF Apart
      <4> QED
        BY <1>2, <4>6, ExcusedStays DEF Excused
    <3> QED
      BY <1>2, <2>3, <3>1, <3>2, <3>3 DEF Settled, DatabaseExists
  <2> QED
    BY <2>2, <2>4, <2>5
<1> QED
  BY <1>3, <1>4

\* Who has yet to write the row of a name has its database, or shared the name.
LEMMA RowsToCome ==
  ASSUME Types, Asking, Apart, Settled, [Next]_vars, NEW c \in Calls,
         pc'[c] \in {"replay", "insertRow", "checkKnown"}
  PROVE  DatabaseExists(job[c].name)' \/ Excused(job[c].name)'
<1>1. pc[c] # "idle"
  <2>1. SUFFICES ASSUME pc[c] = "idle" PROVE FALSE
    OBVIOUS
  <2>2. Request(c)
    BY <2>1, IdleBegins
  <2>3. ~Forget(c)
    BY DEF Forget, Begin, Goto, Types, CallTypes
  <2> QED
    BY <2>2, <2>3, BegunAsks
<1>2. PICK n : n = job[c].name /\ n = job'[c].name
  BY <1>1, AskedStays DEF Kept
<1>3. CASE pc[c] \in {"replay", "insertRow", "checkKnown"}
  <2>1. n \in Places /\ c \in InFlight
    BY <1>2, <1>3, NamesKnown DEF InFlight, WorkLocs, Places
  <2>2. n \in On(c, job[c]) /\ job[c].op \notin {"drop", "revert"}
    BY <1>2, <1>3, <2>1 DEF On, Asking, AskingOf, Passes, Makers
  <2>3. CASE Excused(n)
    BY <1>2, <2>3, ExcusedStays
  <2>4. CASE DatabaseExists(n)
    <3>1. cluster'[n] = Absent => Excused(n)'
      BY <2>1, <2>2, <2>4, LossExcused DEF DatabaseExists
    <3> QED
      BY <1>2, <3>1 DEF DatabaseExists
  <2> QED
    BY <1>2, <1>3, <2>3, <2>4 DEF Settled
<1>4. CASE pc[c] \notin {"replay", "insertRow", "checkKnown"}
  <2>1. Proceed(c) \/ Ends(c)
    BY <1>1, <1>4, WhoMoves
  <2>2. CreateDb(c) \/ CopyDb(c) \/ Lookup(c)
    BY <1>4, <2>1, StepTo DEF Replay, CheckKnown, At
  <2>3. cluster'[n] # Absent
    <3>1. CASE CreateDb(c) \/ CopyDb(c)
      BY <1>2, <3>1, MadeExists
    <3>2. CASE Lookup(c)
      BY <1>2, <3>2 DEF Lookup, At, Possible, DatabaseExists
    <3> QED
      BY <2>2, <3>1, <3>2
  <2> QED
    BY <1>2, <2>3 DEF DatabaseExists
<1> QED
  BY <1>3, <1>4

\* Who drops a row finds it, or shared its name.
LEMMA DropsFind ==
  ASSUME Types, Asking, RowIds, Apart, Settled, [Next]_vars, NEW c \in Calls,
         job'[c].op = "drop", pc'[c] \in WorkLocs
  PROVE  job'[c].row \in databases' \/ job'[c].row.name \in clashed'
<1>1. CASE pc[c] = "idle"
  <2>1. Request(c)
    BY <1>1, IdleBegins DEF WorkLocs
  <2>2. ~Forget(c)
    BY DEF Forget, Begin, Goto, WorkLocs, Types, CallTypes
  <2> QED
    BY <2>1, <2>2, BegunAsks
<1>2. CASE pc[c] # "idle"
  <2>1. pc[c] \in WorkLocs /\ job[c].op = "drop"
    BY <1>2, AskedStays DEF Kept, Types, CallTypes, WorkLocs, EndLocs
  <2>2. PICK d \in Rows : d = job[c].row /\ d = job'[c].row
    BY <1>2, <2>1, AskedStays DEF Kept, Asking, AskingOf, HasRow
  <2>3. d \in databases \/ d.name \in clashed
    BY <2>1, <2>2 DEF Settled
  <2>4. CASE d.name \in clashed
    BY <2>2, <2>4, ClashedGrows
  <2>5. CASE d \in databases'
    BY <2>2, <2>5
  <2>6. CASE d \in databases /\ d \notin databases'
    <3>1. d.name \in Places /\ d.name \in On(c, job[c]) /\ c \in InFlight
      BY <2>1, <2>2, ConstantsAssumption DEF On, Rows, InFlight
    <3>2. PICK e \in Calls : \/ DropRow(e) /\ job[e].op = "drop" /\ job[e].row = d
                             \/ Forget(e) /\ job'[e].row = d
      BY <2>6, RowsGo
    <3>3. CASE DropRow(e) /\ job[e].op = "drop" /\ job[e].row = d
      <4>1. pc[e] = "dropRow" /\ pc'[e] = "done"
        BY <3>3 DEF DropRow, At, Goto, Types, CallTypes
      <4>2. e # c /\ e \in InFlight
        BY <4>1 DEF InFlight, WorkLocs
      <4>3. d.name \in On(e, job[e])
        BY <3>1, <3>3, ConstantsAssumption DEF On
      <4>4. d.name \in clashed
        BY <3>1, <4>2, <4>3 DEF Apart
      <4> QED
        BY <2>2, <4>4, ClashedGrows
    <3>4. CASE Forget(e) /\ job'[e].row = d
      <4>1. d.name \in On(e, job'[e])
        BY <3>1, <3>4, ConstantsAssumption DEF On
      <4>2. Request(e)
        BY <3>4 DEF Request
      <4> QED
        BY <2>2, <3>1, <4>1, <4>2, RequestClashes
    <3> QED
      BY <3>2, <3>3, <3>4
  <2> QED
    BY <2>3, <2>4, <2>5, <2>6
<1> QED
  BY <1>1, <1>2

\* Rows stay settled.
LEMMA NextSettled == Types /\ Asking /\ RowIds /\ Apart /\ Settled /\ [Next]_vars => Settled'
<1> SUFFICES ASSUME Types, Asking, RowIds, Apart, Settled, [Next]_vars PROVE Settled'
  OBVIOUS
<1>1. \A d \in databases' :
        DatabaseExists(d.name)' \/ Excused(d.name)' \/ \E c \in Calls : Touches(c, d.name)' /\ Between(c)'
  BY RowsSettled
<1>2. \A d, e \in databases' : d.name = e.name => d = e \/ Excused(d.name)'
  BY SecondRows
<1>3. \A c \in Calls, d \in databases' :
        pc'[c] \in {"replay", "insertRow"} /\ d.name = job'[c].name => Excused(d.name)'
  BY FirstRows
<1>4. \A c \in Calls : pc'[c] \in {"replay", "insertRow", "checkKnown"} =>
        DatabaseExists(job[c].name)' \/ Excused(job[c].name)'
  BY RowsToCome
<1>5. \A c \in Calls : job'[c].op = "drop" /\ pc'[c] \in WorkLocs =>
        job'[c].row \in databases' \/ job'[c].row.name \in clashed'
  BY DropsFind
<1> QED
  BY <1>1, <1>2, <1>3, <1>4, <1>5 DEF Settled

-------------------------------------------------------------------------------
(* The theorems *)

\* At first there is one database, with its row, and nobody has asked for anything.
LEMMA InitOrder == Init => Order
<1> SUFFICES ASSUME Init PROVE Order
  OBVIOUS
<1> USE ConstantsAssumption DEF Init
<1>1. \A c \in Calls : pc[c] = "idle" /\ job[c] = NoJob
  OBVIOUS
<1>2. /\ NoJob.op = "forget" /\ NoJob.row = Absent /\ NoJob.name = Absent /\ NoJob.snap = Absent
      /\ NoJob.hop = 0 /\ NoJob.undo = FALSE /\ NoJob.was = {}
  <2>1. NoJob.op = "forget" /\ NoJob.row = Absent /\ NoJob.name = Absent /\ NoJob.snap = Absent /\ NoJob.hop = 0
    BY DEF NoJob, Asked
  <2>2. NoJob.undo = FALSE /\ NoJob.was = {}
    BY DEF NoJob, Asked
  <2> QED
    BY <2>1, <2>2
<1>3. Types
  <2>1. NoJob \in Jobs
    BY AskedTypes DEF NoJob, OpKinds
  <2>2. CallTypes
    BY <2>1 DEF CallTypes
  <2>3. BookTypes
    BY DEF BookTypes, Rows, Ids, Places
  <2>4. DiskTypes
    BY EmptyIs DEF DiskTypes
  <2> QED
    BY <2>2, <2>3, <2>4 DEF Types
<1>4. Asking
  BY <1>1, <1>2 DEF Asking, AskingOf, Passes, OpKinds, HasRow, HasSnap, Makers
<1>5. RowIds
  BY <1>1, <1>2 DEF RowIds
<1>6. SnapshotIds
  BY <1>1, <1>2 DEF SnapshotIds
<1>7. Home \in Places /\ cluster[Home] # Absent
  BY EmptyIs DEF Places
<1>8. Presence
  <2>1. \A d \in databases : Present(d.name)
    BY <1>7 DEF Present, DatabaseExists
  <2> QED
    BY <1>1, <1>2, <2>1 DEF Presence, WorksOn
<1>9. Tracking
  <2>1. \A n \in Places : DatabaseExists(n) => Tracked(n)
    BY DEF DatabaseExists, Tracked, NamesOf
  <2> QED
    BY <1>1, <1>2, <2>1 DEF Tracking
<1>10. Undoable /\ WaysBack
  BY <1>1, <1>2 DEF Undoable, WaysBack
<1>11. Alone
  BY <1>1, <1>2 DEF Alone, WorksOn
<1>12. Fresh
  <2>1. \A c \in Calls, k \in 0 .. Hops - 1 :
          <<c, k>> \in Places /\ <<c, k>> # Home /\ <<c, k>> \notin NamesOf(databases)
    BY DEF SnapIds, Places, NamesOf
  <2> QED
    BY <1>1, <1>2, <2>1 DEF Fresh
<1>13. Apart
  BY <1>1 DEF Apart, InFlight, WorkLocs
<1>14. Settled
  BY <1>1, <1>2, <1>7 DEF Settled, DatabaseExists
<1> QED
  BY <1>3, <1>4, <1>5, <1>6, <1>8, <1>9, <1>10, <1>11, <1>12, <1>13, <1>14 DEF Order

\* Every step keeps every part.
LEMMA NextOrder == Order /\ [Next]_vars => Order'
<1> SUFFICES ASSUME Order, [Next]_vars PROVE Order'
  OBVIOUS
<1>1. Types'
  BY NextBookTypes, NextDiskTypes, NextCallTypes DEF Order, Types
<1>2. Asking'
  BY NextAsking DEF Order
<1> QED
  BY <1>1, <1>2, NextRowIds, NextSnapshotIds, NextPresence, NextTracking, NextUndoable, NextAlone,
     NextWaysBack, NextFresh, NextApart, NextSettled DEF Order

\* The operations' order: what is said of a name, a row or a snapshot is never
\* undone by a step of another operation, wherever any of them ends.
THEOREM OrderHolds == Spec => []Order
BY InitOrder, NextOrder, PTL DEF Spec

\* What the rows, the cluster, the folders and the operations hold is what they may
\* hold: no step writes a row, a database or a folder that is not one.
THEOREM TypeCorrect == Spec => []TypeOK
<1>1. Order => TypeOK
  BY TypeParts DEF Order
<1> QED
  BY <1>1, OrderHolds, PTL

\* However operations interleave and end, a row without its database is the work of
\* one that takes it away and is under way or was cut, of two that shared its name, or
\* of the deletion of the snapshot it adopted; and a snapshot without its database or
\* folder of one under way or cut, or of the drop of a row that adopted it.
THEOREM RowsAreReal == Spec => []RowsHaveDatabases
<1>1. Order => RowsHaveDatabases
  <2> SUFFICES ASSUME Order PROVE RowsHaveDatabases
    OBVIOUS
  <2> USE DEF Order
  <2>1. ASSUME NEW d \in databases, ~DatabaseExists(d.name)
        PROVE  \E c \in Calls :
                 Touches(c, d.name) /\ (Unfinished(c) \/ d.name \in clashed \/ job[c].op = "unsnapshot")
    <3>1. \E c \in Calls : Touches(c, d.name)
      BY <2>1 DEF Presence, Present, Gone
    <3>2. Excused(d.name) \/ \E c \in Calls : Touches(c, d.name) /\ Between(c)
      BY <2>1 DEF Settled
    <3> QED
      BY <3>1, <3>2 DEF Excused, Between, Unfinished, WorkLocs
  <2>2. ASSUME NEW s \in snapshots, ~DatabaseExists(s.id) \/ (s.files /\ files[s.id] = Absent)
        PROVE  \E c \in Calls : Touches(c, s.id) /\ (Unfinished(c) \/ job[c].op = "drop")
    <3>1. PICK c \in Calls : Touches(c, s.id) /\ (job[c].op = "revert" => pc[c] \in {"copyBack", "linkFiles", "cut"})
      BY <2>2 DEF Presence, Present, Gone, FilesPresent, FilesGone
    <3>2. CASE job[c].op = "revert"
      BY <3>1, <3>2 DEF Unfinished, WorkLocs
    <3>3. CASE job[c].op = "unsnapshot"
      <4>1. s.id = job[c].snap.id
        BY <3>1, <3>3 DEF Touches
      <4>2. pc[c] # "done"
        BY <3>3, <4>1 DEF SnapshotIds
      <4>3. pc[c] # "idle"
        <5>1. NoJob.op = "forget"
          BY DEF NoJob, Asked
        <5> QED
          BY <3>3, <5>1 DEF Asking, AskingOf
      <4> QED
        BY <3>1, <4>2, <4>3 DEF Unfinished, Types, CallTypes, EndLocs
    <3> QED
      BY <3>1, <3>2, <3>3 DEF Touches
  <2> QED
    BY <2>1, <2>2 DEF RowsHaveDatabases
<1> QED
  BY <1>1, OrderHolds, PTL

\* A database nobody tracks was left by an operation that did not get to its row,
\* or lost the row to a drop, a delete or a forget.
THEOREM DatabasesAreFiled == Spec => []DatabasesHaveRows
<1>1. Order => DatabasesHaveRows
  <2> SUFFICES ASSUME Order, NEW n \in Places, DatabaseExists(n)
               PROVE  \/ n \in NamesOf(databases) \cup {s.id : s \in snapshots}
                      \/ \E c \in Calls : Makes(c, n) \/ Removes(c, n)
                      \/ \E c \in Calls : pc[c] = "done" /\ job[c].op = "forget" /\ job[c].row.name = n
    BY DEF DatabasesHaveRows
  <2> USE DEF Order, Types, CallTypes
  <2>1. Tracked(n) \/ SnapTracked(n) \/ \E c \in Calls : Making(c, n)
    BY DEF Tracking
  <2>2. CASE Tracked(n)
    BY <2>2 DEF Tracked, Removes, Touches
  <2>3. CASE SnapTracked(n)
    BY <2>3 DEF SnapTracked, Removes, Touches
  <2>4. CASE \E c \in Calls : Making(c, n)
    <3>1. PICK c \in Calls : Making(c, n)
      BY <2>4
    <3>2. SnapId(c) \in {<<c, k>> : k \in 0 .. Hops - 1}
      BY DEF SnapId, Jobs
    <3>3. Makes(c, n)
      BY <3>1, <3>2 DEF Making, Makes, Makers, Unfinished, WorkLocs
    <3> QED
      BY <3>3
  <2> QED
    BY <2>1, <2>2, <2>3, <2>4
<1> QED
  BY <1>1, OrderHolds, PTL

\* What a revert was to keep is live or in its counter-snapshot, wherever it ends,
\* unless another operation took either away.
THEOREM RevertsCanBeUndone == Spec => []RevertCanBeUndone
<1>1. Order => RevertCanBeUndone
  BY DEF Order, Undoable, RevertCanBeUndone
<1> QED
  BY <1>1, OrderHolds, PTL

\* A hop that failed names a checkpoint that is there, with its row, and as the hop
\* found the copy, unless somebody took either away.
THEOREM HopsHaveWayBack == Spec => []UpgradeHasWayBack
<1>1. Order => UpgradeHasWayBack
  <2> SUFFICES ASSUME Order, NEW c \in Calls, job[c].op = "upgrade", job[c].snap # Absent
               PROVE  \/ /\ job[c].snap \in snapshots
                         /\ DatabaseExists(job[c].snap.id)
                         /\ cluster[job[c].snap.id].version = FoundAt(c)
                         /\ cluster[job[c].snap.id].mixed = job[c].base.mixed
                      \/ \E e \in Calls : Touches(e, SnapId(c)) \/ Touches(e, job[c].name)
    BY DEF UpgradeHasWayBack
  <2>1. job[c].snap = [id |-> SnapId(c), of |-> c, files |-> job[c].took]
    BY DEF Order, Asking, AskingOf
  <2>2. /\ AsFound(c, SnapId(c)) \/ Touched(SnapId(c)) \/ Touched(job[c].name)
        /\ job[c].snap \in snapshots \/ Touched(SnapId(c))
    BY <2>1 DEF Order, WaysBack
  <2>3. job[c].snap.id = SnapId(c)
    BY <2>1
  <2> QED
    BY <2>2, <2>3 DEF AsFound, DatabaseExists, Touched
<1> QED
  BY <1>1, OrderHolds, PTL

\* No step of an upgrade changes the database it was asked for, nor its files.
THEOREM OriginalsAreSpared == Spec => UpgradeSparesOriginal
<1>1. Order /\ [Next]_vars =>
        [\A c \in Calls :
           job[c].op = "upgrade" /\ pc[c] \in WorkLocs /\ pc'[c] # pc[c] =>
             /\ cluster'[job[c].row.name] = cluster[job[c].row.name]
             /\ files'[job[c].row.name] = files[job[c].row.name]]_vars
  <2> SUFFICES ASSUME Order, [Next]_vars, NEW c \in Calls,
                      job[c].op = "upgrade", pc[c] \in WorkLocs, pc'[c] # pc[c]
               PROVE  /\ cluster'[job[c].row.name] = cluster[job[c].row.name]
                      /\ files'[job[c].row.name] = files[job[c].row.name]
    OBVIOUS
  <2> USE DEF Order, Types, DiskTypes
  <2>1. Proceed(c) \/ Ends(c)
    BY WhoMoves DEF WorkLocs
  <2>2. job[c].row.name # job[c].name /\ job[c].row.name # SnapId(c)
    <3>1. job[c].row.name \in DOMAIN Into /\ job[c].name = Into[job[c].row.name]
      BY DEF Asking, AskingOf
    <3>2. job[c].hop \in 0 .. Hops - 1
      BY DEF CallTypes, Jobs
    <3>3. job[c].row.name # <<c, job[c].hop>>
      BY <3>2 DEF Fresh
    <3> QED
      BY <3>1, <3>3, ConstantsAssumption DEF SnapId
  <2>3. pc[c] \in {"copyDb", "insertRow", "snapDb", "snapFiles", "snapRow", "hop"}
    BY DEF Asking, AskingOf, Passes, WorkLocs, Makers
  <2>4. job[c].row.name \in Places
    BY NamesKnown DEF HasRow
  <2>5. CASE CopyDb(c) \/ Hop(c) \/ HopFails(c)
    BY <2>2, <2>4, <2>5 DEF CopyDb, Hop, HopFails
  <2>6. CASE SnapDb(c) \/ SnapFiles(c)
    BY <2>2, <2>4, <2>6 DEF SnapDb, SnapFiles, DuplicateDatabase, SnapshotDirectory
  <2>7. CASE InsertRow(c) \/ SnapRow(c) \/ CutShort(c)
    BY <2>7 DEF InsertRow, SnapRow, CutShort
  <2>8. CASE pc[c] = "snapFiles" /\ FolderPartly(c)
    BY <2>2, <2>4, <2>8 DEF FolderPartly, At
  <2> QED
    BY <2>1, <2>3, <2>5, <2>6, <2>7, <2>8, StepAt
<1> QED
  BY <1>1, OrderHolds, PTL DEF Spec, UpgradeSparesOriginal

-------------------------------------------------------------------------------
(* Operations that take turns: with one under way at a time and none failing, its *)
(* place tells which rows, databases and folders it has made or taken away, and   *)
(* all the others agree.                                                          *)

\* What operation c, at l with the arguments j, has made and not yet filed.
Unfiled(l, j, c) ==
  {n \in Places : \/ l \in {"replay", "insertRow"} /\ n = j.name
                  \/ l \in {"snapFiles", "snapRow"} /\ n = <<c, j.hop>>}

\* What it has dropped from the cluster and not yet struck off, or put back.
Emptied(l, j) ==
  {n \in Places : \/ l \in {"dropFiles", "dropRow", "copyBack"} /\ n = j.row.name
                  \/ l \in {"unsnapFiles", "unsnapRow"} /\ n = j.snap.id}

\* The names that a row of a database or of a snapshot stands for.
Filed == NamesOf(databases) \cup {s.id : s \in snapshots}

\* Rows and databases are the same, but for those and the forgotten, and no name is
\* taken twice.
RowsAgree(l, j, c) ==
  /\ \A n \in Places : n \in (Filed \ Emptied(l, j)) \cup Unfiled(l, j, c) => DatabaseExists(n)
  /\ \A n \in Places : DatabaseExists(n) =>
       n \in ((Filed \cup Forgotten) \ Emptied(l, j)) \cup Unfiled(l, j, c)
  /\ \A n \in Unfiled(l, j, c) : n \notin Filed
  /\ \A d, e \in databases : d.name = e.name => d = e
  /\ NamesOf(databases) \subseteq Names
  /\ \A s, t \in snapshots : s.id = t.id => s = t
  /\ report.untracked \subseteq Forgotten /\ report.missing = {}

\* What it was asked about is still what it was.
Stands(l, j) ==
  /\ j.op = "adopt" => j.name \in Names
  /\ l = "checkKnown" => DatabaseExists(j.name)
  /\ j.op \in {"drop", "backup", "snapshot", "revert"} => j.row \in databases
  /\ j.op \in {"unsnapshot", "revert"} => j.snap \in snapshots
  /\ j.op = "reconcile" => j.tracked = databases /\ j.ours = {s.id : s \in snapshots}
  /\ l = "restoreFiles" => j.name \in NamesOf(databases)
  /\ l = "replay" => cluster[j.name] = Empty
  /\ l \in {"removeFiles", "linkFiles"} => cluster[j.row.name] = cluster[j.snap.id]
  /\ l \in {"copyFiles", "mark"} => dumps[j.row.id] # Absent

\* Where the attachments of a database are, or are about to be copied from.
Held(l, j, c, n) ==
  CASE l = "snapFiles" /\ n = <<c, j.hop>> ->
         FilesOf(files[IF j.op = "upgrade" THEN j.name ELSE j.row.name])
    [] l \in {"removeFiles", "linkFiles"} /\ n = j.row.name -> FilesOf(files[j.snap.id])
    [] l \in {"insertRow", "restoreFiles"} /\ j.op = "restore" /\ n = j.name ->
         FilesOf(files[n]) \cup FilesOf(dumpFiles[j.row.id])
    [] OTHER -> FilesOf(files[n])

\* What a database refers to is in its folder, and no folder is without a database, but
\* for what the operation is about to link, copy or remove.
FoldersAgree(l, j, c) ==
  /\ \A n \in Places : DatabaseExists(n) /\ ~cluster[n].bare => cluster[n].att \subseteq Held(l, j, c, n)
  /\ \A n \in Places : ~DatabaseExists(n) /\ files[n] # Absent =>
       \/ l \in {"dropFiles", "copyBack"} /\ n = j.row.name
       \/ l = "unsnapFiles" /\ n = j.snap.id
  /\ l \in {"replay", "insertRow"} /\ j.op # "adopt" => files[j.name] = Absent
  /\ l = "snapFiles" => files[<<c, j.hop>>] = Absent
  /\ \A s \in snapshots : files[s.id] # Absent => s.files
  /\ l = "snapRow" /\ files[<<c, j.hop>>] # Absent => j.took

\* A dump has its files, or the folder it was made from still has them.
DumpsAgree(l, j) ==
  /\ \A i \in Ids : dumps[i] # Absent /\ ~dumps[i].bare =>
       dumps[i].att \subseteq IF l = "copyFiles" /\ i = j.row.id
                              THEN FilesOf(files[j.row.name]) ELSE FilesOf(dumpFiles[i])
  /\ \A i \in backedUp : dumps[i] # Absent

\* All that operation c, at l with the arguments j, owes to the rest.
Agree(l, j, c) == RowsAgree(l, j, c) /\ FoldersAgree(l, j, c) /\ DumpsAgree(l, j)

\* Operation c can go on from where it is.
Sound(c) == (pc[c] \in WorkLocs => Stands(pc[c], job[c])) /\ Agree(pc[c], job[c], c)

\* As long as operations took turns and succeeded, and no snapshot was adopted, one at
\* most is under way, and all else is as it is at rest.
Coherent ==
  calm /\ ~SnapshotAdopted =>
    /\ InFlight = {} => Agree("done", NoJob, First)
    /\ \A c \in InFlight : InFlight = {c} /\ Sound(c)

\* The forgotten stay so, and so does a snapshot that was adopted.
LEMMA ForgottenStay ==
  ASSUME Types, Asking, [Next]_vars
  PROVE  Forgotten \subseteq Forgotten' /\ (SnapshotAdopted => SnapshotAdopted')
<1>1. \A e \in Begun : e \in Begun' /\ Kept(e)
  BY AskedStays DEF Begun
<1> QED
  BY <1>1 DEF Forgotten, SnapshotAdopted, Kept

\* Nobody is forgotten by an operation that goes on.
LEMMA NoneForgotten ==
  ASSUME Types, Asking, NEW c \in Calls, Proceeds(c)
  PROVE  Forgotten' = Forgotten
<1>1. Begun' = Begun
  BY DEF Begun, Proceeds, OthersStay, WorkLocs, EndLocs
<1>2. \A e \in Calls : job'[e].op = job[e].op /\ job'[e].row = job[e].row
  BY DEF Proceeds, OthersStay, Kept
<1> QED
  BY <1>1, <1>2 DEF Forgotten, Begun

\* The names of databases are not those of snapshots, and what an operation makes or
\* adopts is given a database's.
LEMMA SoundNames ==
  ASSUME Order, NEW c \in Calls, Sound(c), pc[c] \in WorkLocs
  PROVE  /\ job[c] \in Jobs /\ <<c, job[c].hop>> \in SnapIds /\ SnapIds \subseteq Places /\ Names \subseteq Places
         /\ NamesOf(databases) \subseteq Names /\ {s.id : s \in snapshots} \subseteq SnapIds
         /\ Names \cap SnapIds = {}
         /\ \A d \in databases : d.name \in Names /\ d.name \in Places /\ d.id \in Ids
         /\ \A s \in snapshots : s.id \in SnapIds /\ s.id \in Places
         /\ pc[c] \in {"createDb", "replay", "restoreFiles", "copyDb", "hop"} =>
              job[c].op \in Makers /\ job[c].name \in Names
         /\ pc[c] = "insertRow" => job[c].op \in Makers \cup {"adopt"} /\ job[c].name \in Names
         /\ pc[c] \in {"lookup", "checkKnown"} => job[c].op = "adopt" /\ job[c].name \in Names
<1> USE ConstantsAssumption DEF Order, Types, CallTypes, BookTypes, Sound, Stands, Agree, RowsAgree, SnapRows, Rows
<1>1. AskingOf(c)
  BY DEF Asking
<1>2. job[c] \in Jobs /\ <<c, job[c].hop>> \in SnapIds /\ SnapIds \subseteq Places /\ Names \subseteq Places
  BY DEF SnapIds, Places, Jobs
<1>3. \A d \in databases : d.name \in Names /\ d.name \in Places /\ d.id \in Ids
  BY <1>2 DEF NamesOf
<1>4. \A s \in snapshots : s.id \in SnapIds /\ s.id \in Places
  BY <1>2
<1>5. /\ pc[c] \in {"lookup", "checkKnown"} => job[c].op = "adopt"
      /\ pc[c] = "insertRow" => job[c].op \in Makers \cup {"adopt"}
  BY <1>1 DEF AskingOf, Passes
<1>6. pc[c] \in {"createDb", "replay", "restoreFiles", "copyDb", "hop"} => job[c].op \in Makers
  BY <1>1 DEF AskingOf, Passes, Makers
<1>7. job[c].op \in Makers \cup {"adopt"} => job[c].name \in Names
  BY <1>1 DEF AskingOf
<1> QED
  BY <1>2, <1>3, <1>4, <1>5, <1>6, <1>7

\* A new database is asked for under a name that nothing has, and is filed as it is.
LEMMA CreateSound ==
  ASSUME Order, NEW c \in Calls, Sound(c), Forgotten' = Forgotten, CreateDb(c) \/ CopyDb(c)
  PROVE  Sound(c)'
<1> DEFINE n == job[c].name
<1>1. /\ pc[c] \in {"createDb", "copyDb"} /\ n \in Places /\ n \in Names /\ cluster[n] = Absent
      /\ job[c].op \in Makers
      /\ pc'[c] \in {"replay", "insertRow"} /\ (pc'[c] = "replay" => cluster'[n] = Empty /\ CreateDb(c))
      /\ UNCHANGED <<files, dumps, dumpFiles, book>>
      /\ job'[c].op = job[c].op /\ job'[c].row = job[c].row /\ job'[c].name = n /\ job'[c].hop = job[c].hop
  <2>1. pc[c] \in {"createDb", "copyDb"}
    BY DEF CreateDb, CopyDb, At
  <2>2. n \in Places /\ n \in Names /\ job[c].op \in Makers
    BY <2>1, SoundNames DEF WorkLocs
  <2>3. cluster[n] = Absent
    BY <2>1 DEF CreateDb, CopyDb, At, Possible, CanCreate, CanDuplicate
  <2> QED
    BY <2>1, <2>2, <2>3 DEF CreateDb, CopyDb, CreateDatabase, Goto, Order, Types, CallTypes, DiskTypes, Jobs
<1>2. \E x \in Contents : (x.att = {} \/ x.bare) /\ cluster' = [cluster EXCEPT ![n] = x]
  <2>1. CASE CreateDb(c)
    BY <2>1, EmptyIs DEF CreateDb, CreateDatabase, Empty
  <2>2. CASE CopyDb(c)
    <3>1. cluster[job[c].row.name] \in Contents
      <4>1. pc[c] = "copyDb" /\ cluster[job[c].row.name] # Absent
        BY <2>2 DEF CopyDb, At, Possible, CanDuplicate
      <4>2. job[c].row.name \in Places
        BY <4>1, NamesKnown DEF Order, Asking, AskingOf, Passes, HasRow
      <4> QED
        BY <4>1, <4>2 DEF Order, Types, DiskTypes
    <3> DEFINE y == cluster[job[c].row.name]
    <3>2. [y EXCEPT !.bare = TRUE] \in Contents /\ [y EXCEPT !.bare = TRUE].bare
      BY <3>1 DEF Contents
    <3> QED
      BY <2>2, <3>2 DEF CopyDb
  <2> QED
    BY <2>1, <2>2
<1>3. PICK x \in Contents : (x.att = {} \/ x.bare) /\ cluster' = [cluster EXCEPT ![n] = x]
  BY <1>2
<1>4. x # Absent /\ cluster'[n] = x /\ \A m \in Places \ {n} : cluster'[m] = cluster[m]
  BY <1>1, <1>3, ConstantsAssumption DEF Order, Types, DiskTypes
<1>5. job[c].op \notin {"drop", "backup", "snapshot", "revert", "unsnapshot", "reconcile", "adopt"}
  BY <1>1 DEF Makers
<1> HIDE DEF n
<1>6. Stands(pc[c], job[c])'
  BY <1>1, <1>5 DEF Stands
<1>7. RowsAgree(pc[c], job[c], c)'
  BY <1>1, <1>4 DEF n, Sound, Agree, RowsAgree, Unfiled, Emptied, Filed, DatabaseExists
<1>8. FoldersAgree(pc[c], job[c], c)'
  BY <1>1, <1>3, <1>4 DEF n, Sound, Agree, FoldersAgree, Held, DatabaseExists
<1>9. DumpsAgree(pc[c], job[c])'
  BY <1>1 DEF Sound, Agree, DumpsAgree
<1> QED
  BY <1>6, <1>7, <1>8, <1>9 DEF Sound, Agree

\* A restore brings the rows of the dump, whose attachments are beside it.
LEMMA ReplaySound ==
  ASSUME Order, NEW c \in Calls, Sound(c), Forgotten' = Forgotten, Replay(c)
  PROVE  Sound(c)'
<1> DEFINE n == job[c].name
           i == job[c].row.id
<1>1. /\ pc[c] = "replay" /\ pc'[c] = "insertRow" /\ job' = job /\ dumps[i] # Absent
      /\ UNCHANGED <<files, dumps, dumpFiles, book>> /\ job[c].op = "restore"
      /\ n \in Places /\ n \in Names /\ i \in Ids
  <2>1. pc[c] = "replay" /\ dumps[i] # Absent
    BY DEF Replay, At, Possible
  <2>2. job[c].op = "restore" /\ i \in Ids
    BY <2>1 DEF Order, Asking, AskingOf, Passes, HasRow, Rows
  <2>3. n \in Places /\ n \in Names
    BY <2>1, SoundNames DEF WorkLocs
  <2> QED
    BY <2>1, <2>2, <2>3 DEF Replay, Goto, Order, Types, CallTypes
<1>2. cluster[n] = Empty /\ files[n] = Absent
  BY <1>1 DEF Sound, WorkLocs, Stands, Agree, FoldersAgree
<1>3. \E x \in Contents : x.att = dumps[i].att /\ x.bare = dumps[i].bare /\ cluster' = [cluster EXCEPT ![n] = x]
  <2> DEFINE d == dumps[i]
  <2>1. d \in Contents
    BY <1>1 DEF Order, Types, DiskTypes
  <2>2. cluster[n].att = {}
    BY <1>2 DEF Empty
  <2>3. cluster' = [cluster EXCEPT ![n] = [d EXCEPT !.att = d.att \cup {}]]
    BY <2>2 DEF Replay
  <2>4. [d EXCEPT !.att = d.att \cup {}] \in Contents
    BY <2>1 DEF Contents
  <2>5. [d EXCEPT !.att = d.att \cup {}].att = d.att /\ [d EXCEPT !.att = d.att \cup {}].bare = d.bare
    BY <2>1 DEF Contents
  <2> QED
    BY <2>3, <2>4, <2>5
<1>4. PICK x \in Contents : x.att = dumps[i].att /\ x.bare = dumps[i].bare /\ cluster' = [cluster EXCEPT ![n] = x]
  BY <1>3
<1>5. x # Absent /\ cluster'[n] = x /\ \A m \in Places \ {n} : cluster'[m] = cluster[m]
  BY <1>1, <1>4, ConstantsAssumption DEF Order, Types, DiskTypes
<1>6. cluster[n] # Absent
  BY <1>2, EmptyIs
<1> HIDE DEF n, i
<1>7. Stands(pc[c], job[c])'
  BY <1>1 DEF Sound, WorkLocs, Stands
<1>8. RowsAgree(pc[c], job[c], c)'
  BY <1>1, <1>5, <1>6 DEF n, Sound, Agree, RowsAgree, Unfiled, Emptied, Filed, DatabaseExists
<1>9. ~x.bare => x.att \subseteq FilesOf(dumpFiles[i])
  BY <1>1, <1>4 DEF Sound, Agree, DumpsAgree
<1>10. FoldersAgree(pc[c], job[c], c)'
  BY <1>1, <1>2, <1>5, <1>6, <1>9 DEF n, i, Sound, Agree, FoldersAgree, Held, DatabaseExists
<1>11. DumpsAgree(pc[c], job[c])'
  BY <1>1 DEF Sound, Agree, DumpsAgree
<1> QED
  BY <1>7, <1>8, <1>10, <1>11 DEF Sound, Agree

\* A database is adopted under a name it is found under and no row has.
LEMMA LookupSound ==
  ASSUME Order, NEW c \in Calls, Sound(c), Forgotten' = Forgotten, Lookup(c) \/ CheckKnown(c)
  PROVE  Sound(c)'
<1>0. PICK n : n = job[c].name
  OBVIOUS
<1>1. /\ pc[c] \in {"lookup", "checkKnown"} /\ pc'[c] = (IF pc[c] = "lookup" THEN "checkKnown" ELSE "insertRow")
      /\ job' = job /\ UNCHANGED <<disk, book>> /\ job[c].op = "adopt" /\ n \in Names /\ n \in Places
  <2>1. pc[c] \in {"lookup", "checkKnown"}
    BY DEF Lookup, CheckKnown, At
  <2>2. job[c].op = "adopt" /\ n \in Names /\ n \in Places
    BY <1>0, <2>1, SoundNames DEF WorkLocs
  <2> QED
    BY <2>1, <2>2 DEF Lookup, CheckKnown, At, Goto, Order, Types, CallTypes
<1>2. DatabaseExists(n) /\ (pc[c] = "checkKnown" => n \notin NamesOf(databases))
  BY <1>0, <1>1 DEF Lookup, CheckKnown, At, Possible, Sound, WorkLocs, Stands, NamesOf
<1>3. n \notin {s.id : s \in snapshots}
  BY <1>1, SoundNames DEF WorkLocs
<1> USE DEF Sound, Agree
<1>4. Stands(pc[c], job[c])'
  BY <1>0, <1>1, <1>2 DEF Stands, DatabaseExists
<1>5. RowsAgree(pc[c], job[c], c)'
  BY <1>0, <1>1, <1>2, <1>3 DEF RowsAgree, Unfiled, Emptied, Filed, DatabaseExists
<1>6. FoldersAgree(pc[c], job[c], c)'
  BY <1>1 DEF FoldersAgree, Held, DatabaseExists
<1>7. DumpsAgree(pc[c], job[c])'
  BY <1>1 DEF DumpsAgree
<1> QED
  BY <1>4, <1>5, <1>6, <1>7

\* The row of a new database has a name that no row has.
LEMMA InsertSound ==
  ASSUME Order, NEW c \in Calls, Sound(c), Forgotten' = Forgotten, InsertRow(c)
  PROVE  Sound(c)'
<1> DEFINE n == job[c].name
           d == [id |-> c, name |-> n]
<1>1. /\ pc[c] = "insertRow" /\ job' = job /\ databases' = databases \cup {d}
      /\ UNCHANGED <<disk, snapshots, backedUp, report>>
      /\ job[c].op \in Makers \cup {"adopt"} /\ n \in Places /\ n \in Names
      /\ pc'[c] = IF job[c].op = "restore" THEN "restoreFiles" ELSE IF job[c].op = "upgrade" THEN "snapDb" ELSE "done"
  <2>1. pc[c] = "insertRow"
    BY DEF InsertRow, At
  <2>2. n \in Places /\ n \in Names /\ job[c].op \in Makers \cup {"adopt"}
    BY <2>1, SoundNames DEF WorkLocs
  <2> QED
    BY <2>1, <2>2 DEF InsertRow, InsertDatabase, Goto, Order, Types, CallTypes, Makers
<1>2. /\ job[c].op \notin {"drop", "backup", "snapshot", "revert", "unsnapshot", "reconcile"}
      /\ pc'[c] \in {"restoreFiles", "snapDb", "done"} /\ (pc'[c] = "restoreFiles" <=> job[c].op = "restore")
  BY <1>1 DEF Makers
<1>3. NamesOf(databases') = NamesOf(databases) \cup {n}
  <2>1. d.name = n
    OBVIOUS
  <2> HIDE DEF d, n
  <2> QED
    BY <1>1, <2>1 DEF NamesOf
<1>4. n \notin NamesOf(databases) /\ n \notin {s.id : s \in snapshots} /\ cluster[n] # Absent
  BY <1>1 DEF Sound, Agree, RowsAgree, Unfiled, Filed, DatabaseExists
<1>5. \A a, b \in databases' : a.name = b.name => a = b
  BY <1>1, <1>4 DEF Sound, Agree, RowsAgree, NamesOf
<1> HIDE DEF n, d
<1>6. Stands(pc[c], job[c])'
  BY <1>1, <1>2, <1>3 DEF n, Stands, DatabaseExists
<1>7. RowsAgree(pc[c], job[c], c)'
  BY <1>1, <1>2, <1>3, <1>4, <1>5 DEF n, Sound, Agree, RowsAgree, Unfiled, Emptied, Filed, DatabaseExists
<1>8. FoldersAgree(pc[c], job[c], c)'
  BY <1>1, <1>2 DEF n, Sound, Agree, FoldersAgree, Held, DatabaseExists
<1>9. DumpsAgree(pc[c], job[c])'
  BY <1>1, <1>2 DEF Sound, Agree, DumpsAgree
<1> QED
  BY <1>6, <1>7, <1>8, <1>9 DEF Sound, Agree

\* The folder of a restored database holds what its rows point at, though somebody
\* may have attached a file before it came.
LEMMA RestoreSound ==
  ASSUME Order, NEW c \in Calls, Sound(c), Forgotten' = Forgotten, RestoreFiles(c)
  PROVE  Sound(c)'
<1> DEFINE n == job[c].name
           i == job[c].row.id
<1>1. /\ pc[c] = "restoreFiles" /\ pc'[c] = "done" /\ job' = job
      /\ UNCHANGED <<cluster, dumps, dumpFiles, book>> /\ job[c].op = "restore"
      /\ n \in Places /\ n \in Names /\ i \in Ids
  <2>1. pc[c] = "restoreFiles"
    BY DEF RestoreFiles, At
  <2>2. job[c].op = "restore" /\ i \in Ids
    BY <2>1 DEF Order, Asking, AskingOf, Passes, HasRow, Rows
  <2>3. n \in Places /\ n \in Names
    BY <2>1, SoundNames DEF WorkLocs
  <2> QED
    BY <2>1, <2>2, <2>3 DEF RestoreFiles, Goto, Order, Types, CallTypes
<1>2. \/ dumpFiles[i] = Absent /\ files' = files
      \/ /\ dumpFiles[i] # Absent /\ files[n] = Absent /\ files' = [files EXCEPT ![n] = dumpFiles[i]]
         /\ GetDatabase(c) # {}
  BY <1>1 DEF RestoreFiles, At, Possible, CanCopyDirectory
<1>3. /\ FilesOf(files'[n]) = FilesOf(files[n]) \cup FilesOf(dumpFiles[i])
      /\ \A m \in Places \ {n} : files'[m] = files[m]
  BY <1>1, <1>2 DEF FilesOf, Order, Types, DiskTypes
<1>4. cluster[n] # Absent /\ \A s \in snapshots : s.id # n
  BY <1>1, SoundNames DEF Sound, WorkLocs, Stands, Agree, RowsAgree, Emptied, Filed, DatabaseExists
<1>5. job[c].op \notin {"drop", "backup", "snapshot", "revert", "unsnapshot", "reconcile", "adopt"}
  BY <1>1
<1> HIDE DEF n, i
<1>6. Stands(pc[c], job[c])'
  BY <1>1, <1>5 DEF Stands
<1>7. RowsAgree(pc[c], job[c], c)'
  BY <1>1 DEF Sound, Agree, RowsAgree, Unfiled, Emptied, Filed, DatabaseExists
<1>8. FoldersAgree(pc[c], job[c], c)'
  BY <1>1, <1>3, <1>4, SoundNames DEF n, i, Sound, Agree, FoldersAgree, Held, DatabaseExists, WorkLocs
<1>9. DumpsAgree(pc[c], job[c])'
  BY <1>1 DEF Sound, Agree, DumpsAgree
<1> QED
  BY <1>6, <1>7, <1>8, <1>9 DEF Sound, Agree

\* A drop takes the database, then the folder, then the row, and leaves nothing of them.
LEMMA DropSound ==
  ASSUME Order, NEW c \in Calls, Sound(c), Forgotten' = Forgotten, DropDb(c) \/ DropFiles(c) \/ DropRow(c), calm'
  PROVE  Sound(c)'
<1> DEFINE n == job[c].row.name
           d == job[c].row
<1>1. /\ pc[c] \in {"dropDb", "dropFiles", "dropRow"} /\ job' = job /\ job[c].op = "drop" /\ d \in databases
      /\ n \in Places /\ n \in Names /\ n \in Filed /\ \A s \in snapshots : s.id # n /\ s.id \in Places
      /\ UNCHANGED <<dumps, dumpFiles, snapshots, backedUp, report>> /\ pc'[c] \in {"dropFiles", "dropRow", "done"}
  <2>1. pc[c] \in {"dropDb", "dropFiles", "dropRow"}
    BY DEF DropDb, DropFiles, DropRow, At
  <2>2. job[c].op = "drop" /\ d \in databases
    BY <2>1 DEF Order, Asking, AskingOf, Passes, Sound, WorkLocs, Stands
  <2>3. n \in Places /\ n \in Names /\ n \in Filed /\ \A s \in snapshots : s.id # n /\ s.id \in Places
    BY <2>1, <2>2, SoundNames DEF WorkLocs, Filed, NamesOf
  <2> QED
    BY <2>1, <2>2, <2>3 DEF DropDb, DropFiles, DropRow, Goto, Order, Types, CallTypes
<1> USE DEF Sound, Agree
<1>2. d \in databases' => Stands(pc[c], job[c])'
  BY <1>1 DEF Stands
<1>3. CASE DropDb(c)
  <2>1. pc[c] = "dropDb" /\ pc'[c] = "dropFiles" /\ UNCHANGED <<files, book>>
    BY <1>3 DEF DropDb, At, Goto, Order, Types, CallTypes
  <2>2. cluster'[n] = Absent /\ \A m \in Places \ {n} : cluster'[m] = cluster[m]
    BY <1>1, <1>3 DEF DropDb, DropDatabase, Order, Types, DiskTypes
  <2> HIDE DEF n, d
  <2>3. RowsAgree(pc[c], job[c], c)'
    BY <1>1, <2>1, <2>2 DEF n, RowsAgree, Unfiled, Emptied, Filed, DatabaseExists
  <2>4. FoldersAgree(pc[c], job[c], c)'
    BY <1>1, <2>1, <2>2 DEF n, FoldersAgree, Held, DatabaseExists
  <2>5. DumpsAgree(pc[c], job[c])'
    BY <1>1, <2>1 DEF DumpsAgree
  <2> QED
    BY <1>1, <1>2, <2>1, <2>3, <2>4, <2>5
<1>4. CASE DropFiles(c)
  <2>1. pc[c] = "dropFiles" /\ pc'[c] = "dropRow" /\ UNCHANGED <<cluster, book>>
    BY <1>4 DEF DropFiles, At, Goto, Order, Types, CallTypes
  <2>2. files'[n] = Absent /\ \A m \in Places \ {n} : files'[m] = files[m]
    BY <1>1, <1>4 DEF DropFiles, RemoveDirectory, Order, Types, DiskTypes
  <2>3. cluster[n] = Absent
    BY <1>1, <2>1 DEF RowsAgree, Unfiled, Emptied, DatabaseExists
  <2> HIDE DEF n, d
  <2>4. RowsAgree(pc[c], job[c], c)'
    BY <1>1, <2>1 DEF n, RowsAgree, Unfiled, Emptied, Filed, DatabaseExists
  <2>5. FoldersAgree(pc[c], job[c], c)'
    BY <1>1, <2>1, <2>2, <2>3 DEF n, FoldersAgree, Held, DatabaseExists
  <2>6. DumpsAgree(pc[c], job[c])'
    BY <1>1, <2>1 DEF DumpsAgree
  <2> QED
    BY <1>1, <1>2, <2>1, <2>4, <2>5, <2>6
<1>5. CASE DropRow(c)
  <2>1. pc[c] = "dropRow" /\ pc'[c] = "done" /\ UNCHANGED disk
    BY <1>5 DEF DropRow, At, Goto, Order, Types, CallTypes
  <2>2. databases' = databases \ {d}
    <3>1. databases' = {e \in databases : e.id # d.id}
      BY <1>5 DEF DropRow, DeleteDatabase
    <3>2. \A e \in databases : e.id = d.id => e = d
      BY <1>1 DEF Order, RowIds
    <3> QED
      BY <1>1, <3>1, <3>2
  <2>3. NamesOf(databases') = NamesOf(databases) \ {n}
    BY <1>1, <2>2 DEF RowsAgree, NamesOf
  <2> HIDE DEF n, d
  <2>4. Filed' = Filed \ {n}
    BY <1>1, <2>3 DEF Filed
  <2>5. RowsAgree(pc[c], job[c], c)'
    <3>1. \A m \in Places : (m \in Filed' => DatabaseExists(m)') /\ (DatabaseExists(m)' => m \in Filed' \cup Forgotten)
      BY <1>1, <2>1, <2>4 DEF n, RowsAgree, Unfiled, Emptied, DatabaseExists
    <3> QED
      BY <1>1, <2>1, <2>2, <2>3, <3>1 DEF RowsAgree, Unfiled, Emptied
  <2>6. FoldersAgree(pc[c], job[c], c)'
    BY <1>1, <2>1 DEF FoldersAgree, Held, DatabaseExists
  <2>7. DumpsAgree(pc[c], job[c])'
    BY <1>1, <2>1 DEF DumpsAgree
  <2> QED
    BY <1>1, <2>1, <2>5, <2>6, <2>7 DEF WorkLocs
<1> QED
  BY <1>3, <1>4, <1>5

\* The same for a snapshot that is deleted.
LEMMA UnsnapSound ==
  ASSUME Order, NEW c \in Calls, Sound(c), Forgotten' = Forgotten, UnsnapDb(c) \/ UnsnapFiles(c) \/ UnsnapRow(c)
  PROVE  Sound(c)'
<1> DEFINE x == job[c].snap
           n == x.id
<1>1. /\ pc[c] \in {"unsnapDb", "unsnapFiles", "unsnapRow"} /\ job' = job /\ job[c].op = "unsnapshot"
      /\ x \in snapshots /\ n \in Places /\ n \notin Names /\ n \in Filed
      /\ \A s \in snapshots : s.id \in Places
      /\ \A s \in snapshots : s.id = n => s = x
      /\ UNCHANGED <<dumps, dumpFiles, databases, backedUp, report>>
      /\ pc'[c] \in {"unsnapFiles", "unsnapRow", "done"}
  <2>1. pc[c] \in {"unsnapDb", "unsnapFiles", "unsnapRow"}
    BY DEF UnsnapDb, UnsnapFiles, UnsnapRow, At
  <2>2. job[c].op = "unsnapshot" /\ x \in snapshots
    BY <2>1 DEF Order, Asking, AskingOf, Passes, Sound, WorkLocs, Stands
  <2>3. n \in Places /\ n \notin Names /\ n \in Filed /\ \A s \in snapshots : s.id \in Places
    BY <2>1, <2>2, SoundNames DEF WorkLocs, Filed
  <2>4. \A s \in snapshots : s.id = n => s = x
    BY <2>2 DEF Sound, Agree, RowsAgree
  <2> QED
    BY <2>1, <2>2, <2>3, <2>4 DEF UnsnapDb, UnsnapFiles, UnsnapRow, Goto, Order, Types, CallTypes
<1> USE DEF Sound, Agree
<1>2. x \in snapshots' => Stands(pc[c], job[c])'
  BY <1>1 DEF Stands
<1>3. n \notin NamesOf(databases)
  BY <1>1 DEF RowsAgree
<1>4. CASE UnsnapDb(c)
  <2>1. pc[c] = "unsnapDb" /\ pc'[c] = (IF x.files THEN "unsnapFiles" ELSE "unsnapRow") /\ UNCHANGED <<files, book>>
    BY <1>4 DEF UnsnapDb, At, Goto, Order, Types, CallTypes
  <2>2. cluster'[n] = Absent /\ \A m \in Places \ {n} : cluster'[m] = cluster[m]
    BY <1>1, <1>4 DEF UnsnapDb, DropDatabase, Order, Types, DiskTypes
  <2>3. ~x.files => files[n] = Absent
    BY <1>1 DEF FoldersAgree
  <2> HIDE DEF n, x
  <2>4. RowsAgree(pc[c], job[c], c)'
    BY <1>1, <2>1, <2>2 DEF n, x, RowsAgree, Unfiled, Emptied, Filed, DatabaseExists
  <2>5. FoldersAgree(pc[c], job[c], c)'
    BY <1>1, <2>1, <2>2, <2>3 DEF n, x, FoldersAgree, Held, DatabaseExists
  <2>6. DumpsAgree(pc[c], job[c])'
    BY <1>1, <2>1 DEF DumpsAgree
  <2> QED
    BY <1>1, <1>2, <2>1, <2>4, <2>5, <2>6
<1>5. CASE UnsnapFiles(c)
  <2>1. pc[c] = "unsnapFiles" /\ pc'[c] = "unsnapRow" /\ UNCHANGED <<cluster, book>>
    BY <1>5 DEF UnsnapFiles, At, Goto, Order, Types, CallTypes
  <2>2. files'[n] = Absent /\ \A m \in Places \ {n} : files'[m] = files[m]
    BY <1>1, <1>5 DEF UnsnapFiles, RemoveDirectory, Order, Types, DiskTypes
  <2>3. cluster[n] = Absent
    BY <1>1, <2>1 DEF RowsAgree, Unfiled, Emptied, DatabaseExists
  <2> HIDE DEF n, x
  <2>4. RowsAgree(pc[c], job[c], c)'
    BY <1>1, <2>1 DEF n, x, RowsAgree, Unfiled, Emptied, Filed, DatabaseExists
  <2>5. FoldersAgree(pc[c], job[c], c)'
    BY <1>1, <2>1, <2>2, <2>3 DEF n, x, FoldersAgree, Held, DatabaseExists
  <2>6. DumpsAgree(pc[c], job[c])'
    BY <1>1, <2>1 DEF DumpsAgree
  <2> QED
    BY <1>1, <1>2, <2>1, <2>4, <2>5, <2>6
<1>6. CASE UnsnapRow(c)
  <2>1. pc[c] = "unsnapRow" /\ pc'[c] = "done" /\ UNCHANGED disk
    BY <1>6 DEF UnsnapRow, At, Goto, Order, Types, CallTypes
  <2>2. snapshots' = snapshots \ {x}
    BY <1>1, <1>6 DEF UnsnapRow, DeleteSnapshot
  <2>3. {s.id : s \in snapshots'} = {s.id : s \in snapshots} \ {n}
    BY <1>1, <2>2
  <2> HIDE DEF n, x
  <2>4. Filed' = Filed \ {n}
    BY <1>1, <1>3, <2>3 DEF Filed
  <2>5. RowsAgree(pc[c], job[c], c)'
    <3>1. \A m \in Places : (m \in Filed' => DatabaseExists(m)') /\ (DatabaseExists(m)' => m \in Filed' \cup Forgotten)
      BY <1>1, <2>1, <2>4 DEF n, x, RowsAgree, Unfiled, Emptied, DatabaseExists
    <3> QED
      BY <1>1, <2>1, <2>2, <3>1 DEF RowsAgree, Unfiled, Emptied
  <2>6. FoldersAgree(pc[c], job[c], c)'
    BY <1>1, <2>1, <2>2 DEF FoldersAgree, Held, DatabaseExists
  <2>7. DumpsAgree(pc[c], job[c])'
    BY <1>1, <2>1 DEF DumpsAgree
  <2> QED
    BY <1>1, <2>1, <2>5, <2>6, <2>7 DEF WorkLocs
<1> QED
  BY <1>4, <1>5, <1>6

\* A backup's dump has its files once they are copied; the rows and the cluster are as they were.
LEMMA BackupSound ==
  ASSUME Order, NEW c \in Calls, Sound(c), Forgotten' = Forgotten, Dump(c) \/ CopyFiles(c) \/ Mark(c)
  PROVE  Sound(c)'
<1> DEFINE n == job[c].row.name
           i == job[c].row.id
<1>1. /\ pc[c] \in {"dump", "copyFiles", "mark"} /\ job' = job /\ job[c].op = "backup" /\ job[c].row \in databases
      /\ n \in Names /\ n \in Places /\ i \in Ids /\ backedUp \subseteq Ids
      /\ UNCHANGED <<cluster, files, databases, snapshots, report>>
      /\ pc'[c] \in {"copyFiles", "mark", "done"}
  <2>1. pc[c] \in {"dump", "copyFiles", "mark"}
    BY DEF Dump, CopyFiles, Mark, At
  <2>2. job[c].op = "backup" /\ job[c].row \in databases
    BY <2>1 DEF Order, Asking, AskingOf, Passes, Sound, WorkLocs, Stands
  <2>3. n \in Names /\ n \in Places /\ i \in Ids /\ backedUp \subseteq Ids
    BY <2>1, <2>2, SoundNames DEF WorkLocs, Order, Types, BookTypes
  <2> QED
    BY <2>1, <2>2, <2>3 DEF Dump, CopyFiles, Mark, Goto, Order, Types, CallTypes
<1> USE DEF Sound, Agree
<1>2. dumps'[i] # Absent => Stands(pc[c], job[c])'
  BY <1>1 DEF Stands
<1> HIDE DEF n, i
<1>3. RowsAgree(pc[c], job[c], c)'
  BY <1>1 DEF RowsAgree, Unfiled, Emptied, Filed, DatabaseExists
<1>4. CASE Dump(c)
  <2>1. pc[c] = "dump" /\ pc'[c] = "copyFiles" /\ UNCHANGED <<dumpFiles, book>> /\ cluster[n] # Absent
    BY <1>4 DEF n, Dump, At, Possible, DatabaseExists, Goto, Order, Types, CallTypes
  <2>2. dumps'[i] = cluster[n] /\ \A k \in Ids \ {i} : dumps'[k] = dumps[k]
    BY <1>1, <1>4 DEF n, i, Dump, Order, Types, DiskTypes
  <2>3. ~cluster[n].bare => cluster[n].att \subseteq FilesOf(files[n])
    BY <1>1, <2>1 DEF n, FoldersAgree, Held, DatabaseExists
  <2>4. FoldersAgree(pc[c], job[c], c)'
    BY <1>1, <2>1 DEF FoldersAgree, Held, DatabaseExists
  <2>5. DumpsAgree(pc[c], job[c])'
    BY <1>1, <2>1, <2>2, <2>3 DEF n, i, DumpsAgree
  <2> QED
    BY <1>2, <1>3, <2>1, <2>2, <2>4, <2>5
<1>5. CASE CopyFiles(c)
  <2>1. pc[c] = "copyFiles" /\ pc'[c] = "mark" /\ UNCHANGED <<dumps, book>>
    BY <1>5 DEF CopyFiles, At, Goto, Order, Types, CallTypes
  <2>2. FilesOf(files[n]) \subseteq FilesOf(dumpFiles'[i]) /\ \A k \in Ids \ {i} : dumpFiles'[k] = dumpFiles[k]
    BY <1>1, <1>5 DEF n, i, CopyFiles, FilesOf, Order, Types, DiskTypes
  <2>3. dumps[i] # Absent
    BY <2>1 DEF i, Stands, WorkLocs
  <2>4. FoldersAgree(pc[c], job[c], c)'
    BY <1>1, <2>1 DEF FoldersAgree, Held, DatabaseExists
  <2>5. DumpsAgree(pc[c], job[c])'
    BY <1>1, <2>1, <2>2 DEF n, i, DumpsAgree
  <2> QED
    BY <1>2, <1>3, <2>1, <2>3, <2>4, <2>5
<1>6. CASE Mark(c)
  <2>1. pc[c] = "mark" /\ pc'[c] = "done" /\ UNCHANGED disk
    BY <1>6 DEF Mark, At, Goto, Order, Types, CallTypes
  <2>2. dumps[i] # Absent /\ backedUp' \subseteq backedUp \cup {i}
    BY <1>6, <2>1 DEF i, Stands, WorkLocs, Mark, MarkBackedUp
  <2>3. FoldersAgree(pc[c], job[c], c)'
    BY <1>1, <2>1 DEF FoldersAgree, Held, DatabaseExists
  <2>4. DumpsAgree(pc[c], job[c])'
    BY <1>1, <2>1, <2>2 DEF i, DumpsAgree
  <2> QED
    BY <1>3, <2>1, <2>3, <2>4 DEF WorkLocs
<1> QED
  BY <1>4, <1>5, <1>6

\* A snapshot takes a copy of the database under a name that nothing has, then the
\* folder as it is by then, then writes the row of both.
LEMMA SnapSound ==
  ASSUME Order, NEW c \in Calls, Sound(c), Forgotten' = Forgotten, SnapDb(c) \/ SnapFiles(c) \/ SnapRow(c)
  PROVE  Sound(c)'
<1>0. PICK m, n, d : m = <<c, job[c].hop>> /\ n = Source(c).name
                     /\ d = [id |-> m, of |-> Source(c).id, files |-> job[c].took]
  OBVIOUS
<1>1. /\ pc[c] \in {"snapDb", "snapFiles", "snapRow"} /\ job[c].op \in {"snapshot", "revert", "upgrade"}
      /\ n = IF job[c].op = "upgrade" THEN job[c].name ELSE job[c].row.name
      /\ n \in Names /\ n \in Places /\ m \in Places /\ m \notin Names /\ m = SnapId(c)
      /\ \A s \in snapshots : s.id \in Places
      /\ UNCHANGED <<dumps, dumpFiles, databases, backedUp, report>>
      /\ pc'[c] \in {"snapFiles", "snapRow", "dropLive", "hop", "done"}
  <2>1. pc[c] \in {"snapDb", "snapFiles", "snapRow"}
    BY DEF SnapDb, SnapFiles, SnapRow, At
  <2>2. job[c].op \in {"snapshot", "revert", "upgrade"}
    BY <2>1 DEF Order, Asking, AskingOf, Passes
  <2>3. n = IF job[c].op = "upgrade" THEN job[c].name ELSE job[c].row.name
    BY <1>0 DEF Source
  <2>4. n \in Names /\ n \in Places
    <3>1. CASE job[c].op = "upgrade"
      BY <2>1, <2>3, <3>1, SoundNames DEF Order, Asking, AskingOf, Makers, WorkLocs
    <3>2. CASE job[c].op # "upgrade"
      BY <2>1, <2>2, <2>3, <3>2, SoundNames DEF Sound, Stands, WorkLocs
    <3> QED
      BY <3>1, <3>2
  <2>5. m \in Places /\ m \notin Names /\ m = SnapId(c) /\ \A s \in snapshots : s.id \in Places
    BY <1>0, <2>1, SoundNames DEF WorkLocs, SnapId
  <2> QED
    BY <2>1, <2>2, <2>3, <2>4, <2>5 DEF SnapDb, SnapFiles, SnapRow, Goto, Order, Types, CallTypes
<1>2. /\ job'[c].op = job[c].op /\ job'[c].row = job[c].row /\ job'[c].name = job[c].name
      /\ job'[c].snap = job[c].snap /\ job'[c].hop = job[c].hop
      /\ (~SnapFiles(c) => job' = job)
      /\ (SnapFiles(c) => job'[c].took = (files[n] # Absent))
  <2>1. job[c] \in Jobs
    BY <1>1, SoundNames DEF WorkLocs
  <2>2. CASE SnapFiles(c)
    <3>1. PICK t : t = (files[n] # Absent)
      OBVIOUS
    <3>2. job' = [job EXCEPT ![c].took = t]
      BY <1>0, <1>1, <2>2, <3>1 DEF SnapFiles
    <3> QED
      BY <2>1, <2>2, <3>1, <3>2 DEF SnapFiles, Order, Types, CallTypes, Jobs
  <2>3. CASE SnapDb(c) \/ SnapRow(c)
    BY <2>2, <2>3 DEF SnapDb, SnapRow
  <2> QED
    BY <2>2, <2>3
<1> USE DEF Sound, Agree
<1>3. snapshots \subseteq snapshots' => Stands(pc[c], job[c])'
  BY <1>1, <1>2 DEF Stands, WorkLocs
<1>4. CASE SnapDb(c)
  <2>1. /\ pc[c] = "snapDb" /\ pc'[c] = "snapFiles" /\ job' = job /\ UNCHANGED <<files, book>>
        /\ cluster[n] # Absent /\ cluster[m] = Absent
    BY <1>0, <1>1, <1>4 DEF SnapDb, At, Possible, CanDuplicate, Goto, Order, Types, CallTypes
  <2>2. cluster'[m] = cluster[n] /\ \A k \in Places \ {m} : cluster'[k] = cluster[k]
    BY <1>0, <1>1, <1>4 DEF SnapDb, DuplicateDatabase, Order, Types, DiskTypes
  <2>3. files[m] = Absent /\ m \notin Filed
    BY <1>1, <2>1 DEF RowsAgree, FoldersAgree, Emptied, Unfiled, DatabaseExists
  <2>4. ~cluster[n].bare => cluster[n].att \subseteq FilesOf(files[n])
    BY <1>1, <2>1 DEF FoldersAgree, Held, DatabaseExists
  <2>5. RowsAgree(pc[c], job[c], c)'
    BY <1>0, <1>1, <2>1, <2>2, <2>3 DEF RowsAgree, Unfiled, Emptied, Filed, DatabaseExists
  <2>6. FoldersAgree(pc[c], job[c], c)'
    <3>1. n = (IF job'[c].op = "upgrade" THEN job'[c].name ELSE job'[c].row.name) /\ m = <<c, job'[c].hop>>
      BY <1>0, <1>1, <2>1
    <3>2. Held(pc[c], job[c], c, m)' = FilesOf(files[n])
      BY <2>1, <3>1 DEF Held
    <3>3. \A k \in Places \ {m} : /\ Held(pc[c], job[c], c, k)' = FilesOf(files[k])
                                /\ Held(pc[c], job[c], c, k) = FilesOf(files[k])
      BY <2>1, <3>1 DEF Held
    <3> QED
      BY <1>1, <2>1, <2>2, <2>3, <2>4, <3>1, <3>2, <3>3 DEF FoldersAgree, DatabaseExists
  <2>7. DumpsAgree(pc[c], job[c])'
    BY <1>1, <2>1 DEF DumpsAgree
  <2> QED
    BY <1>3, <2>1, <2>5, <2>6, <2>7
<1>5. CASE SnapFiles(c)
  <2>1. pc[c] = "snapFiles" /\ pc'[c] = "snapRow" /\ UNCHANGED <<cluster, book>>
    BY <1>5 DEF SnapFiles, At, Goto, Order, Types, CallTypes
  <2>2. /\ files'[m] = files[n]
        /\ \A k \in Places \ {m} : files'[k] = files[k]
    <3>1. files[m] = Absent
      BY <1>0, <2>1 DEF FoldersAgree
    <3> QED
      BY <1>0, <1>1, <1>5, <3>1 DEF SnapFiles, SnapshotDirectory, Order, Types, DiskTypes
  <2>3. m \notin Filed /\ cluster[m] # Absent
    BY <1>0, <1>1, <2>1 DEF RowsAgree, Unfiled, DatabaseExists
  <2>4. RowsAgree(pc[c], job[c], c)'
    BY <1>1, <1>2, <2>1 DEF RowsAgree, Unfiled, Emptied, Filed, DatabaseExists
  <2>5. FoldersAgree(pc[c], job[c], c)'
    <3>1. Held(pc[c], job[c], c, m) = FilesOf(files[n]) /\ m = <<c, job'[c].hop>>
      BY <1>0, <1>1, <1>2, <2>1 DEF Held
    <3>2. Held(pc[c], job[c], c, m)' = FilesOf(files'[m])
      BY <1>2, <2>1 DEF Held
    <3>3. \A k \in Places \ {m} : /\ Held(pc[c], job[c], c, k)' = FilesOf(files[k])
                                /\ Held(pc[c], job[c], c, k) = FilesOf(files[k])
      BY <1>0, <2>1, <2>2, <3>1 DEF Held
    <3>4. \A s \in snapshots : s.id # m
      BY <2>3 DEF Filed
    <3>5. files'[m] # Absent => job'[c].took
      BY <1>2, <1>5, <2>2
    <3>6. \A k \in Places : (DatabaseExists(k) /\ ~cluster[k].bare => cluster[k].att \subseteq Held(pc[c], job[c], c, k))'
      BY <1>1, <2>1, <3>1, <3>2, <2>2, <3>3 DEF FoldersAgree, DatabaseExists
    <3> QED
      BY <1>1, <2>1, <2>2, <2>3, <3>1, <3>4, <3>5, <3>6 DEF FoldersAgree, DatabaseExists
  <2>6. DumpsAgree(pc[c], job[c])'
    BY <1>1, <2>1 DEF DumpsAgree
  <2> QED
    BY <1>3, <2>1, <2>4, <2>5, <2>6
<1>6. CASE SnapRow(c)
  <2>1. /\ pc[c] = "snapRow" /\ pc'[c] \in {"dropLive", "hop", "done"} /\ job' = job /\ UNCHANGED disk
        /\ snapshots' = snapshots \cup {d} /\ d.id = m /\ d.files = job[c].took
    BY <1>0, <1>1, <1>6 DEF SnapRow, InsertSnapshot, At, Goto, Order, Types, CallTypes
  <2>2. m \notin Filed /\ cluster[m] # Absent /\ m = <<c, job[c].hop>>
    BY <1>0, <1>1, <2>1 DEF RowsAgree, Unfiled, DatabaseExists
  <2>3. Filed' = Filed \cup {m}
    BY <1>1, <2>1 DEF Filed
  <2>4. RowsAgree(pc[c], job[c], c)'
    <3>1. \A k \in Places : (k \in Filed' => DatabaseExists(k)') /\ (DatabaseExists(k)' => k \in Filed' \cup Forgotten)
      BY <1>1, <2>1, <2>2, <2>3 DEF RowsAgree, Unfiled, Emptied, DatabaseExists
    <3>2. \A s, t \in snapshots' : s.id = t.id => s = t
      BY <2>1, <2>2 DEF Filed, RowsAgree
    <3> QED
      BY <1>1, <2>1, <3>1, <3>2 DEF RowsAgree, Unfiled, Emptied
  <2>5. FoldersAgree(pc[c], job[c], c)'
    BY <1>1, <2>1, <2>2 DEF FoldersAgree, Held, DatabaseExists
  <2>6. DumpsAgree(pc[c], job[c])'
    BY <1>1, <2>1 DEF DumpsAgree
  <2> QED
    BY <1>3, <2>1, <2>4, <2>5, <2>6
<1> QED
  BY <1>4, <1>5, <1>6

\* A revert puts the snapshot's database in place of the live one, then its folder.
LEMMA RevertSound ==
  ASSUME Order, NEW c \in Calls, Sound(c), Forgotten' = Forgotten, DropLive(c) \/ CopyBack(c) \/ RemoveFiles(c) \/ LinkFiles(c)
  PROVE  Sound(c)'
<1>0. PICK n, x, m : n = job[c].row.name /\ x = job[c].snap /\ m = x.id
  OBVIOUS
<1>1. /\ pc[c] \in {"dropLive", "copyBack", "removeFiles", "linkFiles"} /\ job' = job /\ job[c].op = "revert"
      /\ n \in Places /\ n \in Names /\ n \in Filed /\ m \in Filed /\ m \in Places /\ m \notin Names
      /\ x \in snapshots /\ \A s \in snapshots : s.id \in Places /\ s.id # n
      /\ UNCHANGED <<dumps, dumpFiles, book>>
      /\ pc'[c] \in {"copyBack", "removeFiles", "linkFiles", "done"}
  <2>1. pc[c] \in {"dropLive", "copyBack", "removeFiles", "linkFiles"}
    BY DEF DropLive, CopyBack, RemoveFiles, LinkFiles, At
  <2>2. job[c].op = "revert" /\ job[c].row \in databases /\ x \in snapshots
    BY <1>0, <2>1 DEF Order, Asking, AskingOf, Passes, Sound, WorkLocs, Stands
  <2>3. n \in Places /\ n \in Names /\ m \in Places /\ m \notin Names /\ \A s \in snapshots : s.id \in Places /\ s.id # n
    BY <1>0, <2>1, <2>2, SoundNames DEF WorkLocs
  <2>4. n \in Filed /\ m \in Filed
    BY <1>0, <2>2 DEF Filed, NamesOf
  <2> QED
    BY <2>1, <2>2, <2>3, <2>4 DEF DropLive, CopyBack, RemoveFiles, LinkFiles, Goto, Order, Types, CallTypes
<1> USE DEF Sound, Agree
<1>2. (pc'[c] \in {"removeFiles", "linkFiles"} => cluster'[n] = cluster'[m]) => Stands(pc[c], job[c])'
  BY <1>0, <1>1 DEF Stands, WorkLocs
<1>3. CASE DropLive(c)
  <2>1. pc[c] = "dropLive" /\ pc'[c] = "copyBack" /\ UNCHANGED files
    BY <1>3 DEF DropLive, At, Goto, Order, Types, CallTypes
  <2>2. cluster'[n] = Absent /\ \A k \in Places \ {n} : cluster'[k] = cluster[k]
    BY <1>0, <1>1, <1>3 DEF DropLive, DropDatabase, Order, Types, DiskTypes
  <2>3. RowsAgree(pc[c], job[c], c)'
    BY <1>0, <1>1, <2>1, <2>2 DEF RowsAgree, Unfiled, Emptied, Filed, DatabaseExists
  <2>4. FoldersAgree(pc[c], job[c], c)'
    BY <1>0, <1>1, <2>1, <2>2 DEF FoldersAgree, Held, DatabaseExists
  <2>5. DumpsAgree(pc[c], job[c])'
    BY <1>1, <2>1 DEF DumpsAgree
  <2> QED
    BY <1>2, <2>1, <2>3, <2>4, <2>5
<1>4. CASE CopyBack(c)
  <2>1. /\ pc[c] = "copyBack" /\ pc'[c] = (IF x.files THEN "removeFiles" ELSE "done") /\ UNCHANGED files
        /\ cluster[m] # Absent /\ cluster[n] = Absent
    BY <1>0, <1>4 DEF CopyBack, At, Possible, CanDuplicate, Goto, Order, Types, CallTypes
  <2>2. cluster'[n] = cluster[m] /\ \A k \in Places \ {n} : cluster'[k] = cluster[k]
    BY <1>0, <1>1, <1>4 DEF CopyBack, DuplicateDatabase, Order, Types, DiskTypes
  <2>3. ~x.files => FilesOf(files[m]) = {}
    BY <1>0, <1>1 DEF FoldersAgree, FilesOf
  <2>4. ~cluster[m].bare => cluster[m].att \subseteq FilesOf(files[m])
    BY <1>0, <1>1, <2>1 DEF FoldersAgree, Held, DatabaseExists
  <2>5. RowsAgree(pc[c], job[c], c)'
    BY <1>0, <1>1, <2>1, <2>2 DEF RowsAgree, Unfiled, Emptied, Filed, DatabaseExists
  <2>6. FoldersAgree(pc[c], job[c], c)'
    <3>1. ~cluster'[n].bare => cluster'[n].att \subseteq Held(pc[c], job[c], c, n)'
      BY <1>0, <1>1, <2>1, <2>2, <2>3, <2>4 DEF Held
    <3>2. \A k \in Places \ {n} : /\ Held(pc[c], job[c], c, k)' = FilesOf(files[k])
                                /\ Held(pc[c], job[c], c, k) = FilesOf(files[k])
      BY <1>0, <1>1, <2>1 DEF Held
    <3> QED
      BY <1>0, <1>1, <2>1, <2>2, <3>1, <3>2 DEF FoldersAgree, DatabaseExists
  <2>7. DumpsAgree(pc[c], job[c])'
    BY <1>1, <2>1 DEF DumpsAgree
  <2> QED
    BY <1>1, <1>2, <2>2, <2>5, <2>6, <2>7
<1>5. CASE RemoveFiles(c)
  <2>1. pc[c] = "removeFiles" /\ pc'[c] = "linkFiles" /\ UNCHANGED cluster
    BY <1>5 DEF RemoveFiles, At, Goto, Order, Types, CallTypes
  <2>2. files'[n] = Absent /\ \A k \in Places \ {n} : files'[k] = files[k]
    BY <1>0, <1>1, <1>5 DEF RemoveFiles, RemoveDirectory, Order, Types, DiskTypes
  <2>3. RowsAgree(pc[c], job[c], c)'
    BY <1>0, <1>1, <2>1 DEF RowsAgree, Unfiled, Emptied, Filed, DatabaseExists
  <2>4. FoldersAgree(pc[c], job[c], c)'
    BY <1>0, <1>1, <2>1, <2>2 DEF FoldersAgree, Held, DatabaseExists
  <2>5. DumpsAgree(pc[c], job[c])'
    BY <1>1, <2>1 DEF DumpsAgree
  <2> QED
    BY <1>0, <1>2, <2>1, <2>3, <2>4, <2>5 DEF Stands, WorkLocs
<1>6. CASE LinkFiles(c)
  <2>1. pc[c] = "linkFiles" /\ pc'[c] = "done" /\ UNCHANGED cluster
    BY <1>6 DEF LinkFiles, At, Goto, Order, Types, CallTypes
  <2>2. files'[n] = files[m] /\ \A k \in Places \ {n} : files'[k] = files[k]
    BY <1>0, <1>1, <1>6 DEF LinkFiles, SnapshotDirectory, Order, Types, DiskTypes
  <2>3. cluster[n] # Absent
    BY <1>1, <2>1 DEF RowsAgree, Unfiled, Emptied, DatabaseExists
  <2>4. RowsAgree(pc[c], job[c], c)'
    BY <1>0, <1>1, <2>1 DEF RowsAgree, Unfiled, Emptied, Filed, DatabaseExists
  <2>5. FoldersAgree(pc[c], job[c], c)'
    BY <1>0, <1>1, <2>1, <2>2, <2>3 DEF FoldersAgree, Held, DatabaseExists
  <2>6. DumpsAgree(pc[c], job[c])'
    BY <1>1, <2>1 DEF DumpsAgree
  <2> QED
    BY <1>2, <2>1, <2>4, <2>5, <2>6
<1> QED
  BY <1>3, <1>4, <1>5, <1>6

\* A hop changes the version of a database, a reconciliation finds nothing to report.
LEMMA HopSound ==
  ASSUME Order, NEW c \in Calls, Sound(c), Forgotten' = Forgotten, Hop(c)
  PROVE  Sound(c)'
<1>0. PICK n : n = job[c].name
  OBVIOUS
<1>1. /\ pc[c] = "hop" /\ pc'[c] \in {"snapDb", "done"} /\ job[c].op = "upgrade"
      /\ n \in Places /\ cluster[n] \in Contents
      /\ UNCHANGED <<files, dumps, dumpFiles, book>>
  <2>1. pc[c] = "hop" /\ job[c].op = "upgrade" /\ cluster[n] # Absent
    BY <1>0 DEF Hop, At, Possible, DatabaseExists, Order, Asking, AskingOf, Passes
  <2>2. n \in Places
    BY <1>0, <2>1, SoundNames DEF WorkLocs
  <2> QED
    BY <2>1, <2>2 DEF Hop, Goto, Order, Types, CallTypes, DiskTypes
<1>2. job'[c].op = job[c].op
  <2>1. job[c] \in Jobs
    BY <1>1, SoundNames DEF WorkLocs
  <2>2. job'[c] = job[c] \/ job'[c] = [[job[c] EXCEPT !.hop = @ + 1] EXCEPT !.took = FALSE]
    BY DEF Hop, Order, Types, CallTypes
  <2> QED
    BY <2>1, <2>2 DEF Jobs
<1>3. /\ cluster'[n] # Absent /\ cluster'[n].att = cluster[n].att /\ cluster'[n].bare = cluster[n].bare
      /\ \A k \in Places \ {n} : cluster'[k] = cluster[k]
  <2>1. PICK x, v : x = cluster[n] /\ v = job[c].hop + 1
    OBVIOUS
  <2>2. v \in 0 .. Hops
    <3>1. job[c].hop \in 0 .. Hops - 1
      BY <1>1, SoundNames DEF Jobs, WorkLocs
    <3> QED
      BY <2>1, <3>1, ConstantsAssumption
  <2>3. cluster' = [cluster EXCEPT ![n] = [x EXCEPT !.version = v]]
    BY <1>0, <2>1 DEF Hop
  <2>4. [x EXCEPT !.version = v] \in Contents
    BY <1>1, <2>1, <2>2 DEF Contents
  <2>5. [x EXCEPT !.version = v].att = x.att /\ [x EXCEPT !.version = v].bare = x.bare
    BY <1>1, <2>1 DEF Contents
  <2> QED
    BY <1>1, <2>1, <2>3, <2>4, <2>5, ConstantsAssumption DEF Order, Types, DiskTypes
<1>4. cluster[n] # Absent
  BY <1>1, ConstantsAssumption
<1> USE DEF Sound, Agree
<1>5. Stands(pc[c], job[c])'
  BY <1>1, <1>2 DEF Stands
<1>6. RowsAgree(pc[c], job[c], c)'
  BY <1>1, <1>3, <1>4 DEF RowsAgree, Unfiled, Emptied, Filed, DatabaseExists
<1>7. FoldersAgree(pc[c], job[c], c)'
  BY <1>1, <1>3, <1>4 DEF FoldersAgree, Held, DatabaseExists
<1>8. DumpsAgree(pc[c], job[c])'
  BY <1>1 DEF DumpsAgree
<1> QED
  BY <1>5, <1>6, <1>7, <1>8

\* A reconciliation that nobody disturbed reports what was forgotten, and nothing else.
LEMMA AskSound ==
  ASSUME Order, NEW c \in Calls, Sound(c), Forgotten' = Forgotten, AskCluster(c)
  PROVE  Sound(c)'
<1>1. /\ pc[c] = "askCluster" /\ pc'[c] = "done" /\ job[c].op = "reconcile"
      /\ UNCHANGED <<disk, databases, snapshots, backedUp>>
      /\ job[c].tracked = databases /\ job[c].ours = {s.id : s \in snapshots}
  <2>1. pc[c] = "askCluster" /\ job[c].op = "reconcile"
    BY DEF AskCluster, At, Order, Asking, AskingOf, Passes
  <2> QED
    BY <2>1 DEF AskCluster, Reports, Goto, Order, Types, CallTypes, Sound, Stands, WorkLocs
<1> USE DEF Sound, Agree
<1>2. Filed \subseteq ListClusterDatabases /\ ListClusterDatabases \subseteq Filed \cup Forgotten
  <2>1. Filed \subseteq Places
    BY <1>1, SoundNames DEF WorkLocs, Filed
  <2> QED
    BY <1>1, <2>1 DEF RowsAgree, Unfiled, Emptied, ListClusterDatabases
<1>3. report'.untracked \subseteq Forgotten /\ report'.missing = {}
  <2>1. report' = [untracked |-> ListClusterDatabases \ (NamesOf(databases) \cup {s.id : s \in snapshots}),
                   missing |-> {d \in databases : d.name \notin ListClusterDatabases}]
    BY <1>1 DEF AskCluster, Reports
  <2>2. \A d \in databases : d.name \in Filed
    BY DEF Filed, NamesOf
  <2> QED
    BY <1>2, <2>1, <2>2 DEF Filed
<1>4. RowsAgree(pc[c], job[c], c)'
  BY <1>1, <1>3 DEF RowsAgree, Unfiled, Emptied, Filed, DatabaseExists
<1>5. FoldersAgree(pc[c], job[c], c)'
  BY <1>1 DEF FoldersAgree, Held, DatabaseExists
<1>6. DumpsAgree(pc[c], job[c])'
  BY <1>1 DEF DumpsAgree
<1> QED
  BY <1>1, <1>4, <1>5, <1>6 DEF WorkLocs

\* A file that is attached meanwhile goes into the folder and the database at once, and
\* never into one that is not filed yet.
LEMMA AttachAgrees ==
  ASSUME Order, NEW n \in Places, Attach(n), NEW l, NEW j, NEW c, Agree(l, j, c),
         l \notin {"copyBack", "removeFiles", "linkFiles"},
         l \in {"replay", "insertRow"} => j.name \in Places,
         l \in {"snapFiles", "snapRow"} => <<c, j.hop>> \in SnapIds,
         l = "snapFiles" => (IF j.op = "upgrade" THEN j.name ELSE j.row.name) \in Places,
         l = "copyFiles" => j.row.name \in Places
  PROVE  /\ Agree(l, j, c)'
         /\ l = "replay" => cluster'[j.name] = cluster[j.name]
         /\ \A p \in Places : DatabaseExists(p) => DatabaseExists(p)'
<1>0. Forgotten' = Forgotten
  BY DEF Attach, Forgotten, Begun
<1>1. /\ n \in Names /\ n \in Places /\ cluster[n] \in Contents /\ n \in Filed /\ n \notin SnapIds
      /\ UNCHANGED <<dumps, dumpFiles, book>>
      /\ \A p \in SnapIds : p \in Places
      /\ \A s \in snapshots : s.id \in SnapIds
      /\ backedUp \subseteq Ids
  <2>1. n \in Names /\ n \in Places /\ cluster[n] \in Contents /\ n \notin SnapIds
    BY ConstantsAssumption DEF Attach, Agree, RowsAgree, NamesOf, DatabaseExists, Order, Types, DiskTypes
  <2>2. n \in Filed
    BY DEF Attach, Filed, NamesOf
  <2> QED
    BY <2>1, <2>2 DEF Attach, Places, Order, Types, BookTypes, SnapRows
<1>2. PICK a \in Attachments : /\ cluster' = [cluster EXCEPT ![n].att = @ \cup {a}]
                               /\ files' = [files EXCEPT ![n] = FilesOf(@) \cup {a}]
  BY <1>1 DEF Attach
<1>3. /\ cluster'[n] # Absent /\ cluster'[n].att = cluster[n].att \cup {a} /\ cluster'[n].bare = cluster[n].bare
      /\ \A p \in Places \ {n} : cluster'[p] = cluster[p]
  <2>1. PICK x : x = cluster[n]
    OBVIOUS
  <2>2. cluster' = [cluster EXCEPT ![n] = [x EXCEPT !.att = x.att \cup {a}]]
    BY <1>2, <2>1
  <2>3. [x EXCEPT !.att = x.att \cup {a}] \in Contents
    BY <1>1, <2>1 DEF Contents
  <2>4. [x EXCEPT !.att = x.att \cup {a}].att = x.att \cup {a} /\ [x EXCEPT !.att = x.att \cup {a}].bare = x.bare
    BY <1>1, <2>1 DEF Contents
  <2> QED
    BY <1>1, <2>1, <2>2, <2>3, <2>4, ConstantsAssumption DEF Order, Types, DiskTypes
<1>4. /\ FilesOf(files'[n]) = FilesOf(files[n]) \cup {a} /\ \A p \in Places \ {n} : files'[p] = files[p]
      /\ \A p \in Places : FilesOf(files[p]) \subseteq FilesOf(files'[p])
  <2>1. files'[n] = FilesOf(files[n]) \cup {a} /\ \A p \in Places \ {n} : files'[p] = files[p]
    BY <1>1, <1>2 DEF Order, Types, DiskTypes
  <2>2. files'[n] # Absent
    <3>1. FilesOf(files[n]) \cup {a} \in SUBSET Attachments
      BY <1>1 DEF FilesOf, Order, Types, DiskTypes
    <3> QED
      BY <2>1, <3>1, ConstantsAssumption
  <2> QED
    BY <2>1, <2>2 DEF FilesOf
<1>5. cluster[n] # Absent
  BY <1>1, ConstantsAssumption
<1> USE DEF Agree
<1>6. l \in {"replay", "insertRow"} => j.name # n
  BY <1>1 DEF RowsAgree, Unfiled
<1>7. RowsAgree(l, j, c)'
  BY <1>0, <1>1, <1>3, <1>5 DEF RowsAgree, Unfiled, Emptied, Filed, DatabaseExists
<1>8. FoldersAgree(l, j, c)'
  <2>1. ASSUME NEW p \in Places PROVE (DatabaseExists(p) /\ ~cluster[p].bare => cluster[p].att \subseteq Held(l, j, c, p))'
    <3>1. CASE p # n
      BY <1>1, <1>3, <1>4, <3>1 DEF FoldersAgree, Held, DatabaseExists
    <3>2. CASE p = n
      <4>1. Held(l, j, c, n)' = Held(l, j, c, n) \cup {a}
        BY <1>1, <1>4 DEF Held
      <4> QED
        BY <1>1, <1>3, <1>5, <3>2, <4>1 DEF FoldersAgree, DatabaseExists
    <3> QED
      BY <3>1, <3>2
  <2>2. \A p \in Places : (~DatabaseExists(p) /\ files[p] # Absent =>
           \/ l \in {"dropFiles", "copyBack"} /\ p = j.row.name
           \/ l = "unsnapFiles" /\ p = j.snap.id)'
    BY <1>3, <1>4 DEF FoldersAgree, DatabaseExists
  <2>3. (/\ l \in {"replay", "insertRow"} /\ j.op # "adopt" => files[j.name] = Absent
         /\ l = "snapFiles" => files[<<c, j.hop>>] = Absent
         /\ l = "snapRow" /\ files[<<c, j.hop>>] # Absent => j.took)'
    BY <1>1, <1>4, <1>6 DEF FoldersAgree
  <2>4. (\A s \in snapshots : files[s.id] # Absent => s.files)'
    BY <1>1, <1>4 DEF FoldersAgree
  <2> QED
    BY <2>1, <2>2, <2>3, <2>4 DEF FoldersAgree
<1>9. DumpsAgree(l, j)'
  BY <1>1, <1>4 DEF DumpsAgree
<1>10. \A p \in Places : DatabaseExists(p) => DatabaseExists(p)'
  BY <1>3 DEF DatabaseExists
<1> QED
  BY <1>3, <1>6, <1>7, <1>8, <1>9, <1>10

\* A forget takes the row of a database and leaves all else as it is.
LEMMA ForgetSound ==
  ASSUME Order, NEW c \in Calls, Forget(c), Agree("done", NoJob, First), Forgotten \subseteq Forgotten'
  PROVE  Sound(c)'
<1> USE DEF Order, Types, BookTypes, CallTypes
<1>1. PICK d \in databases : Begin(c, "done", Asked("forget", d, Absent, Absent)) /\ DeleteDatabase(d.id)
  BY DEF Forget
<1>2. PICK a : a = Asked("forget", d, Absent, Absent)
  OBVIOUS
<1>3. a.op = "forget" /\ a.row = d
  BY <1>2 DEF Asked
<1>4. pc'[c] = "done" /\ job'[c] = a /\ UNCHANGED <<disk, snapshots, backedUp, report>>
  BY <1>1, <1>2 DEF Begin, Goto, Forget
<1>5. d.name \in Forgotten'
  <2>1. c \in Begun' /\ job'[c].op = "forget" /\ d.name = job'[c].row.name
    BY <1>3, <1>4 DEF Begun
  <2> QED
    BY <2>1 DEF Forgotten
<1>6. databases' = databases \ {d}
  BY <1>1 DEF DeleteDatabase, RowIds
<1>7. NamesOf(databases') = NamesOf(databases) \ {d.name}
  BY <1>6 DEF Agree, RowsAgree, NamesOf
<1>8. d.name \notin {s.id : s \in snapshots}
  <2>1. d.name \in Names
    BY DEF Agree, RowsAgree, NamesOf
  <2> QED
    BY <2>1, ConstantsAssumption DEF SnapRows
<1>9. Filed' = Filed \ {d.name}
  BY <1>4, <1>7, <1>8 DEF Filed
<1> USE DEF Agree
<1>10. RowsAgree(pc[c], job[c], c)'
  BY <1>4, <1>5, <1>6, <1>7, <1>9 DEF RowsAgree, Unfiled, Emptied, DatabaseExists
<1>11. FoldersAgree(pc[c], job[c], c)'
  BY <1>4 DEF FoldersAgree, Held, DatabaseExists
<1>12. DumpsAgree(pc[c], job[c])'
  BY <1>4 DEF DumpsAgree
<1> QED
  BY <1>4, <1>10, <1>11, <1>12 DEF Sound, WorkLocs

\* What an operation is asked about is there when it begins.
LEMMA BeginSound ==
  ASSUME Order, NEW c \in Calls, Request(c), ~Forget(c), Agree("done", NoJob, First),
         Forgotten \subseteq Forgotten', ~SnapshotAdopted'
  PROVE  Sound(c)'
<1> USE DEF Order, Types, BookTypes, CallTypes
<1>1. job'[c].op = "adopt" => job'[c].name \in Names
  <2>1. job'[c].op = "adopt" => job'[c].name \in Places /\ c \in Begun'
    BY BegunAsks DEF Begun, ListClusterDatabases, Places
  <2> QED
    BY <2>1 DEF SnapshotAdopted, Places
<1>2. ~Forget(c)
  OBVIOUS
<1>3. UNCHANGED <<disk, databases, snapshots, report, backedUp>>
  BY <1>2 DEF Request, BeginCreate, BeginRestore, BeginDuplicate, BeginUpgrade, BeginAdopt, BeginDrop,
         BeginBackup, BeginSnapshot, BeginUnsnapshot, BeginRevert, BeginReconcile
<1>4. pc'[c] \in {"createDb", "copyDb", "lookup", "dropDb", "dump", "snapDb", "unsnapDb", "dropLive", "askCluster"}
  BY <1>2, BegunAsks
<1>5. Agree(pc[c], job[c], c)'
  <2>1. RowsAgree(pc[c], job[c], c)'
    BY <1>3, <1>4 DEF Agree, RowsAgree, Unfiled, Emptied, Filed, DatabaseExists
  <2>2. FoldersAgree(pc[c], job[c], c)'
    BY <1>3, <1>4 DEF Agree, FoldersAgree, Held, DatabaseExists
  <2>3. DumpsAgree(pc[c], job[c])'
    BY <1>3, <1>4 DEF Agree, DumpsAgree
  <2> QED
    BY <2>1, <2>2, <2>3 DEF Agree
<1>6. /\ job'[c].op \in {"drop", "backup", "snapshot", "revert"} => job'[c].row \in databases
      /\ job'[c].op \in {"unsnapshot", "revert"} => job'[c].snap \in snapshots
      /\ job'[c].op = "reconcile" => job'[c].tracked = databases /\ job'[c].ours = {s.id : s \in snapshots}
  <2>1. ASSUME NEW l, NEW j, Begin(c, l, j) PROVE job'[c] = j
    BY <2>1 DEF Begin, Goto
  <2>2. ASSUME NEW l, NEW op, NEW r, NEW m, NEW x, Begin(c, l, Asked(op, r, m, x))
        PROVE  job'[c].op = op /\ job'[c].row = r /\ job'[c].snap = x
    BY <2>1, <2>2 DEF Asked
  <2>3. CASE BeginCreate(c) \/ BeginRestore(c) \/ BeginDuplicate(c) \/ BeginUpgrade(c)
    <3>1. job'[c].op \in Makers
      BY <2>2, <2>3 DEF BeginCreate, BeginRestore, BeginDuplicate, BeginUpgrade, Makers
    <3> QED
      BY <3>1 DEF Makers
  <2>4. CASE BeginDrop(c) \/ BeginBackup(c) \/ BeginSnapshot(c)
    <3>1. job'[c].op \in {"drop", "backup", "snapshot"} /\ job'[c].row \in databases
      BY <2>2, <2>4 DEF BeginDrop, BeginBackup, BeginSnapshot
    <3> QED
      BY <3>1
  <2>5. CASE BeginUnsnapshot(c)
    <3>1. job'[c].op = "unsnapshot" /\ job'[c].snap \in snapshots
      BY <2>2, <2>5 DEF BeginUnsnapshot
    <3> QED
      BY <3>1
  <2>6. CASE BeginRevert(c)
    <3>1. PICK d \in databases, x \in snapshots, u \in BOOLEAN :
            Begin(c, IF u THEN "snapDb" ELSE "dropLive",
                  [Asked("revert", d, Absent, x) EXCEPT !.undo = u, !.was = AttOf(cluster[d.name])])
      BY <2>6 DEF BeginRevert
    <3>2. PICK a, w : a = Asked("revert", d, Absent, x) /\ w = AttOf(cluster[d.name])
      OBVIOUS
    <3>3. a \in Jobs /\ w \in SUBSET Attachments
      BY <3>2, AskedTypes DEF AttOf, DiskTypes, Contents, Rows, OpKinds
    <3>4. a.op = "revert" /\ a.row = d /\ a.snap = x
      BY <3>2 DEF Asked
    <3>5. job'[c] = [a EXCEPT !.undo = u, !.was = w]
      BY <2>1, <3>1, <3>2
    <3>6. job'[c].op = "revert" /\ job'[c].row = d /\ job'[c].snap = x
      BY <3>3, <3>4, <3>5 DEF Jobs
    <3> QED
      BY <3>6
  <2>7. CASE BeginReconcile(c)
    <3>1. PICK a, t, o : a = Asked("reconcile", Absent, Absent, Absent) /\ t = databases /\ o = {s.id : s \in snapshots}
      OBVIOUS
    <3>2. job'[c] = [a EXCEPT !.tracked = t, !.ours = o]
      BY <2>1, <2>7, <3>1 DEF BeginReconcile
    <3>3. a \in Jobs /\ t \in SUBSET Rows /\ o \in SUBSET SnapIds
      BY <3>1, AskedTypes DEF OpKinds, SnapRows
    <3>4. a.op = "reconcile"
      BY <3>1 DEF Asked
    <3>5. job'[c].op = "reconcile" /\ job'[c].tracked = t /\ job'[c].ours = o
      BY <3>2, <3>3, <3>4 DEF Jobs
    <3> QED
      BY <3>1, <3>5
  <2>8. CASE BeginAdopt(c)
    <3>1. job'[c].op = "adopt"
      BY <2>2, <2>8 DEF BeginAdopt
    <3> QED
      BY <3>1
  <2> QED
    BY <1>2, <2>3, <2>4, <2>5, <2>6, <2>7, <2>8 DEF Request
<1>7. Stands(pc[c], job[c])'
  BY <1>1, <1>3, <1>4, <1>6 DEF Stands
<1> QED
  BY <1>5, <1>7 DEF Sound

\* Where no operation is under way it does not matter which one ended last.
LEMMA SoundRests ==
  ASSUME NEW c \in Calls, Sound(c)', pc'[c] \notin WorkLocs
  PROVE  Agree("done", NoJob, First)'
<1> USE DEF Sound, Agree, WorkLocs
<1>1. RowsAgree("done", NoJob, First)'
  BY DEF RowsAgree, Unfiled, Emptied, Filed, DatabaseExists
<1>2. FoldersAgree("done", NoJob, First)'
  BY DEF FoldersAgree, Held, DatabaseExists
<1>3. DumpsAgree("done", NoJob)'
  BY DEF DumpsAgree
<1> QED
  BY <1>1, <1>2, <1>3

\* Each step of an operation that is alone leaves it able to go on, or all at rest.
LEMMA ProceedSound ==
  ASSUME Order, NEW c \in Calls, Sound(c), Proceed(c), calm'
  PROVE  Sound(c)'
<1>0. Forgotten' = Forgotten
  BY StepProceeds, NoneForgotten DEF Order
<1>1. CASE Lookup(c) \/ CheckKnown(c)
  BY <1>0, <1>1, LookupSound
<1>2. CASE CreateDb(c) \/ Replay(c) \/ InsertRow(c) \/ RestoreFiles(c) \/ CopyDb(c)
  BY <1>0, <1>2, CreateSound, ReplaySound, InsertSound, RestoreSound
<1>3. CASE DropDb(c) \/ DropFiles(c) \/ DropRow(c) \/ UnsnapDb(c) \/ UnsnapFiles(c) \/ UnsnapRow(c)
  BY <1>0, <1>3, DropSound, UnsnapSound
<1>4. CASE Dump(c) \/ CopyFiles(c) \/ Mark(c) \/ SnapDb(c) \/ SnapFiles(c) \/ SnapRow(c)
  BY <1>0, <1>4, BackupSound, SnapSound
<1>5. CASE DropLive(c) \/ CopyBack(c) \/ RemoveFiles(c) \/ LinkFiles(c)
  BY <1>0, <1>5, RevertSound
<1>6. CASE Hop(c) \/ AskCluster(c)
  BY <1>0, <1>6, HopSound, AskSound
<1> QED
  BY <1>1, <1>2, <1>3, <1>4, <1>5, <1>6 DEF Proceed

\* At first there is one database, with its row and no attachment.
LEMMA InitCoherent == Init => Coherent
<1> SUFFICES ASSUME Init PROVE Agree("done", NoJob, First) /\ InFlight = {}
  BY DEF Coherent
<1> USE ConstantsAssumption DEF Init
<1>1. Filed = {Home} /\ Home \in Places /\ Empty # Absent
  BY EmptyIs DEF Filed, NamesOf, Places
<1>2. Empty.att = {}
  BY DEF Empty
<1>3. RowsAgree("done", NoJob, First)
  BY <1>1 DEF RowsAgree, Unfiled, Emptied, DatabaseExists, NamesOf
<1>4. FoldersAgree("done", NoJob, First)
  BY <1>1, <1>2 DEF FoldersAgree, Held, DatabaseExists
<1>5. DumpsAgree("done", NoJob)
  BY DEF DumpsAgree
<1>6. InFlight = {}
  BY DEF InFlight, WorkLocs
<1> QED
  BY <1>3, <1>4, <1>5, <1>6 DEF Agree

\* Every step keeps it.
LEMMA NextCoherent == Order /\ Coherent /\ [Next]_vars => Coherent'
<1> SUFFICES ASSUME Order, Coherent, [Next]_vars, calm', ~SnapshotAdopted'
             PROVE  (/\ InFlight = {} => Agree("done", NoJob, First)
                     /\ \A c \in InFlight : InFlight = {c} /\ Sound(c))'
  BY DEF Coherent
<1> USE DEF Order
<1>0. Forgotten \subseteq Forgotten' /\ ~SnapshotAdopted
  BY ForgottenStay
<1>1. ASSUME NEW c \in Calls, Sound(c)', InFlight' \subseteq {c}
      PROVE  (/\ InFlight = {} => Agree("done", NoJob, First)
              /\ \A e \in InFlight : InFlight = {e} /\ Sound(e))'
  <2>1. InFlight' = {} => pc'[c] \notin WorkLocs
    BY DEF InFlight
  <2>2. InFlight' = {} \/ InFlight' = {c}
    BY <1>1
  <2> QED
    BY <1>1, <2>1, <2>2, SoundRests
<1>2. ASSUME NEW c \in Calls, Request(c) PROVE Sound(c)' /\ InFlight' \subseteq {c}
  <2>1. calm /\ InFlight = {}
    BY <1>2 DEF Request, BeginCreate, BeginRestore, BeginDuplicate, BeginUpgrade, BeginAdopt, BeginDrop,
           BeginBackup, BeginSnapshot, BeginUnsnapshot, BeginRevert, BeginReconcile, Forget, Begin
  <2>2. Sound(c)'
    BY <1>0, <1>2, <2>1, BeginSound, ForgetSound DEF Coherent
  <2>3. InFlight' \subseteq {c}
    BY <1>2, <2>1, RequestBegins DEF Begins, OthersStay, InFlight
  <2> QED
    BY <2>2, <2>3
<1>3. ASSUME NEW c \in Calls, Proceed(c) PROVE Sound(c)' /\ InFlight' \subseteq {c}
  <2>1. Proceeds(c)
    BY <1>3, StepProceeds
  <2>2. c \in InFlight
    BY <2>1 DEF Proceeds, InFlight
  <2>3. calm
    BY <1>3 DEF Proceed, CreateDb, Replay, InsertRow, RestoreFiles, CopyDb, Lookup, CheckKnown, DropDb, DropFiles,
           DropRow, Dump, CopyFiles, Mark, SnapDb, SnapFiles, SnapRow, UnsnapDb, UnsnapFiles, UnsnapRow,
           DropLive, CopyBack, RemoveFiles, LinkFiles, Hop, AskCluster
  <2>4. Sound(c) /\ InFlight = {c}
    BY <1>0, <2>2, <2>3 DEF Coherent
  <2>5. InFlight' \subseteq {c}
    BY <2>1, <2>4 DEF Proceeds, OthersStay, InFlight
  <2> QED
    BY <1>3, <2>4, <2>5, ProceedSound
<1>4. ASSUME NEW c \in Calls, Ends(c) PROVE FALSE
  BY <1>4 DEF Ends, CutShort, FolderPartly, BackupPartly, DumpTruncated, HopFails, Unchecked
<1>5. ASSUME NEW n \in Places, Attach(n)
      PROVE  (/\ InFlight = {} => Agree("done", NoJob, First)
              /\ \A e \in InFlight : InFlight = {e} /\ Sound(e))'
  <2>1. UNCHANGED <<dumps, dumpFiles, book, pc, job>> /\ calm /\ \A e \in InFlight : job[e].op # "revert"
    BY <1>5 DEF Attach
  <2>2. InFlight' = InFlight
    BY <2>1 DEF InFlight
  <2>3. InFlight = {} => Agree("done", NoJob, First)'
    BY <1>0, <1>5, <2>1, AttachAgrees DEF Coherent
  <2>4. ASSUME NEW e \in InFlight PROVE InFlight = {e} /\ Sound(e)'
    <3>1. InFlight = {e} /\ Sound(e) /\ e \in Calls /\ pc[e] \in WorkLocs
      BY <1>0, <2>1, <2>4 DEF Coherent, InFlight
    <3>2. PICK l, j : l = pc[e] /\ j = job[e]
      OBVIOUS
    <3>3. /\ l \notin {"copyBack", "removeFiles", "linkFiles"}
          /\ l \in {"replay", "insertRow", "checkKnown"} => j.name \in Places
          /\ l \in {"snapFiles", "snapRow"} => <<e, j.hop>> \in SnapIds
          /\ l = "copyFiles" => j.row.name \in Places
      BY <2>1, <3>1, <3>2, SoundNames, NamesKnown DEF Asking, AskingOf, Passes, HasRow
    <3>4. l = "snapFiles" => (IF j.op = "upgrade" THEN j.name ELSE j.row.name) \in Places
      BY <3>1, <3>2, NamesKnown DEF Source
    <3>5. Agree(l, j, e)
      BY <3>1, <3>2 DEF Sound
    <3>6. /\ Agree(l, j, e)' /\ (l = "replay" => cluster'[j.name] = cluster[j.name])
          /\ \A p \in Places : DatabaseExists(p) => DatabaseExists(p)'
      BY <1>5, <3>3, <3>4, <3>5, AttachAgrees
    <3>7. pc'[e] = l /\ job'[e] = j
      BY <2>1, <3>2
    <3>8. Stands(pc[e], job[e])'
      <4>1. Stands(l, j)
        BY <3>1, <3>2 DEF Sound
      <4> QED
        BY <2>1, <3>3, <3>6, <3>7, <4>1 DEF Stands
    <3> QED
      BY <3>1, <3>6, <3>7, <3>8 DEF Sound
  <2> QED
    BY <2>2, <2>3, <2>4
<1>6. CASE UNCHANGED vars
  BY <1>0, <1>6 DEF vars, Coherent, InFlight, Sound, Stands, Agree, RowsAgree, FoldersAgree, DumpsAgree,
     Held, Unfiled, Emptied, Filed, Forgotten, Begun, DatabaseExists
<1> QED
  BY <1>1, <1>2, <1>3, <1>4, <1>5, <1>6 DEF Next, Ends

\* "Put it back exactly as it was": after operations that took turns and succeeded,
\* however many and in whatever order, rows, cluster, folders and backups agree, but
\* for the databases somebody forgot; unless a snapshot was adopted.
THEOREM RestsAreCoherent == Spec => []RestIsCoherent
<1>1. Init => Order /\ Coherent
  BY InitOrder, InitCoherent
<1>2. Order /\ Coherent /\ [Next]_vars => (Order /\ Coherent)'
  BY NextOrder, NextCoherent
<1>3. Order /\ Coherent => RestIsCoherent
  <2> SUFFICES ASSUME Order, Coherent, calm, InFlight = {}, ~SnapshotAdopted PROVE RestIsCoherent
    BY DEF RestIsCoherent
  <2>1. RowsAgree("done", NoJob, First) /\ FoldersAgree("done", NoJob, First) /\ DumpsAgree("done", NoJob)
    BY DEF Coherent, Agree
  <2>2. Filed \subseteq Places
    BY DEF Filed, NamesOf, Order, Types, BookTypes, Rows, SnapRows, Places
  <2>3. /\ Filed \subseteq ListClusterDatabases /\ ListClusterDatabases \subseteq Filed \cup Forgotten
        /\ report.untracked \subseteq Forgotten /\ report.missing = {}
    BY <2>1, <2>2 DEF ListClusterDatabases, RowsAgree, Unfiled, Emptied
  <2>4. \A n \in Places : DatabaseExists(n) /\ ~cluster[n].bare => cluster[n].att \subseteq FilesOf(files[n])
    BY <2>1 DEF FoldersAgree, Held
  <2>5. \A n \in Places : ~DatabaseExists(n) => files[n] = Absent
    BY <2>1 DEF FoldersAgree
  <2>6. \A i \in backedUp : ~dumps[i].bare => dumps[i].att \subseteq FilesOf(dumpFiles[i])
    BY <2>1 DEF DumpsAgree, Order, Types, BookTypes
  <2> QED
    BY <2>3, <2>4, <2>5, <2>6 DEF RestIsCoherent, Filed
<1> QED
  BY <1>1, <1>2, <1>3, PTL DEF Spec

\* The steps that change a folder, each at its place.
LEMMA FilesSteps ==
  ASSUME Types, Asking, [Next]_vars, NEW n \in Places, files'[n] # files[n]
  PROVE  \/ \E c \in Calls :
              /\ pc'[c] # pc[c]
              /\ \/ pc[c] = "restoreFiles" /\ n = job[c].name
                 \/ pc[c] = "snapFiles" /\ n = SnapId(c)
                 \/ pc[c] = "unsnapFiles" /\ n = job[c].snap.id
                 \/ pc[c] \in {"dropFiles", "removeFiles", "linkFiles"} /\ n = job[c].row.name
         \/ n \in Names
<1> USE DEF Types, DiskTypes
<1>1. ASSUME NEW m \in Places, Attach(m) PROVE n \in Names
  BY <1>1 DEF Attach
<1>2. ASSUME NEW c \in Calls, Request(c) PROVE FALSE
  BY <1>2, BegunAsks
<1>3. ASSUME NEW c \in Calls, CreateDb(c) \/ Replay(c) \/ InsertRow(c) \/ CopyDb(c) \/ Lookup(c) \/ CheckKnown(c)
                              \/ DropDb(c) \/ DropRow(c) \/ Dump(c) \/ CopyFiles(c) \/ Mark(c) \/ SnapDb(c)
      PROVE  FALSE
  BY <1>3 DEF CreateDb, Replay, InsertRow, CopyDb, Lookup, CheckKnown, DropDb, DropRow, Dump, CopyFiles, Mark, SnapDb
<1>4. ASSUME NEW c \in Calls, SnapRow(c) \/ UnsnapDb(c) \/ UnsnapRow(c) \/ DropLive(c) \/ CopyBack(c) \/ Hop(c)
                              \/ AskCluster(c)
      PROVE  FALSE
  BY <1>4 DEF SnapRow, UnsnapDb, UnsnapRow, DropLive, CopyBack, Hop, AskCluster, Reports
<1>5. ASSUME NEW c \in Calls, CutShort(c) \/ BackupPartly(c) \/ DumpTruncated(c) \/ HopFails(c) \/ Unchecked(c)
      PROVE  FALSE
  BY <1>5 DEF CutShort, BackupPartly, DumpTruncated, HopFails, Unchecked, Reports
<1>6. ASSUME NEW c \in Calls,
             \/ RestoreFiles(c) \/ DropFiles(c) \/ RemoveFiles(c) \/ LinkFiles(c) \/ SnapFiles(c) \/ UnsnapFiles(c)
             \/ FolderPartly(c)
      PROVE  /\ pc'[c] # pc[c]
             /\ \/ pc[c] = "restoreFiles" /\ n = job[c].name
                \/ pc[c] = "snapFiles" /\ n = SnapId(c)
                \/ pc[c] = "unsnapFiles" /\ n = job[c].snap.id
                \/ pc[c] \in {"dropFiles", "removeFiles", "linkFiles"} /\ n = job[c].row.name
  <2> USE DEF At, Goto, CallTypes
  <2>1. CASE RestoreFiles(c) \/ SnapFiles(c) \/ UnsnapFiles(c)
    BY <2>1 DEF RestoreFiles, SnapFiles, UnsnapFiles, RemoveDirectory, SnapshotDirectory
  <2>2. CASE DropFiles(c) \/ RemoveFiles(c) \/ LinkFiles(c)
    BY <2>2 DEF DropFiles, RemoveFiles, LinkFiles, SnapshotDirectory
  <2>3. CASE FolderPartly(c)
    BY <2>3 DEF FolderPartly
  <2> QED
    BY <1>6, <2>1, <2>2, <2>3
<1> QED
  BY <1>1, <1>2, <1>3, <1>4, <1>5, <1>6 DEF Next, Proceed, Ends, vars

\* A snapshot is never changed: no step of any operation alters the database or the
\* folder of one that has a row, however operations interleave, unless it is a step of
\* one that deletes that snapshot, or drops or reverts a database adopted under its
\* name; nor does Odoo, which writes to no database but one so adopted.
SnapshotsAreFrozen ==
  [][\A s \in snapshots :
       \/ cluster'[s.id] = cluster[s.id] /\ files'[s.id] = files[s.id]
       \/ \E c \in Calls : Touches(c, s.id) /\ pc'[c] # pc[c]
       \/ s.id \in NamesOf(databases) /\ files'[s.id] = files[s.id] /\ Attach(s.id)]_vars

\* What a revert that ended well has put in place is what the snapshot has, both the
\* database and, where the snapshot has one, the folder.
RevertRestores ==
  [][\A c \in Calls :
       calm' /\ ~SnapshotAdopted /\ job[c].op = "revert" /\ pc[c] \in WorkLocs /\ pc'[c] = "done" =>
         /\ cluster'[job[c].row.name] = cluster[job[c].snap.id]
         /\ job[c].snap.files => files'[job[c].row.name] = files[job[c].snap.id]]_vars

\* No step but a delete, or a drop or a revert of a row of that name, changes what a
\* snapshot with a row holds.
THEOREM SnapshotsKeep == Spec => SnapshotsAreFrozen
<1>1. Order /\ [Next]_vars =>
        [\A s \in snapshots :
           \/ cluster'[s.id] = cluster[s.id] /\ files'[s.id] = files[s.id]
           \/ \E c \in Calls : Touches(c, s.id) /\ pc'[c] # pc[c]
           \/ s.id \in NamesOf(databases) /\ files'[s.id] = files[s.id] /\ Attach(s.id)]_vars
  <2> SUFFICES ASSUME Order, [Next]_vars, NEW s \in snapshots,
                      cluster'[s.id] # cluster[s.id] \/ files'[s.id] # files[s.id]
               PROVE  \/ \E c \in Calls : Touches(c, s.id) /\ pc'[c] # pc[c]
                      \/ s.id \in NamesOf(databases) /\ files'[s.id] = files[s.id] /\ Attach(s.id)
    OBVIOUS
  <2> USE DEF Order
  <2>0. PICK n : n = s.id
    OBVIOUS
  <2>1. n \in SnapIds /\ n \in Places /\ n \notin Names
    BY <2>0, ConstantsAssumption DEF Types, BookTypes, SnapRows, Places
  <2>2. ASSUME NEW c \in Calls, job[c].op \in Makers PROVE job[c].name # n
    BY <2>1, <2>2 DEF Asking, AskingOf
  <2>3. ASSUME NEW c \in Calls, pc[c] \in {"snapDb", "snapFiles"} PROVE SnapId(c) # n
    <3>1. job[c].hop \in 0 .. Hops - 1 /\ NotYet(c, job[c].hop)
      BY <2>3 DEF Types, CallTypes, Jobs, NotYet
    <3> QED
      BY <2>0, <3>1 DEF SnapshotIds, SnapId
  <2>4. CASE Attach(n)
    <3>1. n \in NamesOf(databases) /\ files'[n] = files[n]
      BY <2>1, <2>4 DEF Attach, NamesOf, Types, DiskTypes
    <3> QED
      BY <2>0, <2>4, <3>1
  <2>5. CASE ~Attach(n) /\ cluster'[n] # cluster[n]
    <3>1. PICK c \in Calls :
            \/ (CreateDb(c) \/ Replay(c) \/ CopyDb(c) \/ Hop(c) \/ HopFails(c)) /\ n = job[c].name
            \/ (DropDb(c) \/ DropLive(c) \/ CopyBack(c)) /\ n = job[c].row.name
            \/ UnsnapDb(c) /\ n = job[c].snap.id
            \/ SnapDb(c) /\ n = SnapId(c)
      BY <2>1, <2>5, ClusterSteps
    <3>2. CreateDb(c) \/ Replay(c) \/ CopyDb(c) \/ Hop(c) \/ HopFails(c) => job[c].op \in Makers
      BY NamesKnown DEF CreateDb, Replay, CopyDb, Hop, HopFails, At
    <3>3. DropDb(c) \/ DropLive(c) \/ CopyBack(c) => job[c].op \in {"drop", "revert"}
      BY DEF DropDb, DropLive, CopyBack, At, Asking, AskingOf, Passes
    <3>4. UnsnapDb(c) => job[c].op = "unsnapshot"
      BY DEF UnsnapDb, At, Asking, AskingOf, Passes
    <3>5. SnapDb(c) => pc[c] = "snapDb"
      BY DEF SnapDb, At
    <3>6. Touches(c, n)
      BY <2>2, <2>3, <3>1, <3>2, <3>3, <3>4, <3>5 DEF Touches
    <3>7. pc'[c] # pc[c]
      <4>1. pc \in [Calls -> {"idle"} \cup WorkLocs \cup EndLocs]
        BY DEF Types, CallTypes
      <4> QED
        BY <2>2, <2>3, <3>1, <3>2, <3>5, <4>1 DEF DropDb, DropLive, CopyBack, UnsnapDb, At, Goto
    <3> QED
      BY <2>0, <3>6, <3>7
  <2>6. CASE files'[n] # files[n]
    <3>1. PICK c \in Calls :
            /\ pc'[c] # pc[c]
            /\ \/ pc[c] = "restoreFiles" /\ n = job[c].name
               \/ pc[c] = "snapFiles" /\ n = SnapId(c)
               \/ pc[c] = "unsnapFiles" /\ n = job[c].snap.id
               \/ pc[c] \in {"dropFiles", "removeFiles", "linkFiles"} /\ n = job[c].row.name
      BY <2>1, <2>6, FilesSteps
    <3>2. /\ pc[c] = "restoreFiles" => job[c].op \in Makers
          /\ pc[c] \in {"dropFiles", "removeFiles", "linkFiles"} => job[c].op \in {"drop", "revert"}
          /\ pc[c] = "unsnapFiles" => job[c].op = "unsnapshot"
      BY DEF Asking, AskingOf, Passes, Makers
    <3>3. Touches(c, n)
      BY <2>2, <2>3, <3>1, <3>2 DEF Touches
    <3> QED
      BY <2>0, <3>1, <3>3
  <2> QED
    BY <2>0, <2>4, <2>5, <2>6
<1> QED
  BY <1>1, OrderHolds, PTL DEF Spec, SnapshotsAreFrozen

\* A revert that nobody disturbed has put back what the snapshot has.
THEOREM RevertsRestore == Spec => RevertRestores
<1>1. Order /\ Coherent /\ [Next]_vars =>
        [\A c \in Calls :
           calm' /\ ~SnapshotAdopted /\ job[c].op = "revert" /\ pc[c] \in WorkLocs /\ pc'[c] = "done" =>
             /\ cluster'[job[c].row.name] = cluster[job[c].snap.id]
             /\ job[c].snap.files => files'[job[c].row.name] = files[job[c].snap.id]]_vars
  <2> SUFFICES ASSUME Order, Coherent, [Next]_vars, NEW c \in Calls,
                      calm', ~SnapshotAdopted, job[c].op = "revert", pc[c] \in WorkLocs, pc'[c] = "done"
               PROVE  /\ cluster'[job[c].row.name] = cluster[job[c].snap.id]
                      /\ job[c].snap.files => files'[job[c].row.name] = files[job[c].snap.id]
    OBVIOUS
  <2> USE DEF Order
  <2>0. PICK n, m : n = job[c].row.name /\ m = job[c].snap.id
    OBVIOUS
  <2>1. Proceed(c)
    <3>1. Proceed(c) \/ Ends(c)
      BY WhoMoves DEF WorkLocs
    <3>2. ~Ends(c)
      BY DEF Ends, CutShort, FolderPartly, BackupPartly, DumpTruncated, HopFails, Unchecked
    <3> QED
      BY <3>1, <3>2
  <2>2. n \in Places /\ m \in Places
    BY <2>0, NamesKnown DEF HasRow, HasSnap, Places
  <2>3. CASE pc[c] = "copyBack"
    <3>1. CopyBack(c)
      BY <2>1, <2>3, StepAt DEF CutShort
    <3>2. ~job[c].snap.files
      BY <3>1 DEF CopyBack, Goto, Types, CallTypes
    <3> QED
      BY <2>0, <2>2, <3>1, <3>2 DEF CopyBack, DuplicateDatabase, Types, DiskTypes
  <2>4. CASE pc[c] = "linkFiles"
    <3>1. LinkFiles(c)
      BY <2>1, <2>4, StepAt DEF CutShort, FolderPartly
    <3>2. calm /\ c \in InFlight
      BY <2>4, <3>1 DEF LinkFiles, InFlight
    <3>3. cluster[n] = cluster[m]
      BY <2>0, <2>4, <3>2 DEF Coherent, Sound, Stands
    <3> QED
      BY <2>0, <2>2, <3>1, <3>3 DEF LinkFiles, SnapshotDirectory, Types, DiskTypes
  <2>5. pc[c] \in {"copyBack", "linkFiles"}
    <3>1. pc[c] \in {"snapDb", "snapFiles", "snapRow", "dropLive", "copyBack", "removeFiles", "linkFiles"}
      BY DEF Asking, AskingOf, Passes, WorkLocs, Makers
    <3>2. ~SnapDb(c) /\ ~SnapFiles(c) /\ ~SnapRow(c) /\ ~DropLive(c) /\ ~RemoveFiles(c)
      BY DEF SnapDb, SnapFiles, SnapRow, DropLive, RemoveFiles, Goto, Types, CallTypes
    <3>3. pc[c] = "removeFiles" => RemoveFiles(c)
      BY <2>1 DEF Proceed, CreateDb, Replay, InsertRow, RestoreFiles, CopyDb, Lookup, CheckKnown, DropDb, DropFiles,
         DropRow, Dump, CopyFiles, Mark, SnapDb, SnapFiles, SnapRow, UnsnapDb, UnsnapFiles, UnsnapRow,
         DropLive, CopyBack, LinkFiles, Hop, AskCluster, At
    <3> QED
      BY <2>1, <3>1, <3>2, <3>3, StepAt DEF CutShort, FolderPartly
  <2> QED
    BY <2>3, <2>4, <2>5
<1>2. Init => Order /\ Coherent
  BY InitOrder, InitCoherent
<1>3. Order /\ Coherent /\ [Next]_vars => (Order /\ Coherent)'
  BY NextOrder, NextCoherent
<1> QED
  BY <1>1, <1>2, <1>3, PTL DEF Spec, RevertRestores

===============================================================================
