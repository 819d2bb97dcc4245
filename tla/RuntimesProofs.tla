---------------------------- MODULE RuntimesProofs ----------------------------
(***************************************************************************)
(* Proofs about Runtimes, for every set of clients and versions, every     *)
(* machine and all bounds.  Nothing in the code is locked, so what a call  *)
(* can rely on is that nobody else is at its folder or its version; the    *)
(* invariant says what follows from that, and the history variables rough  *)
(* and refused say when it may not be relied on.                           *)
(***************************************************************************)
EXTENDS Runtimes, TLAPS

-------------------------------------------------------------------------------
(* The inductive invariant *)

Locs   == {"idle", "run", "remove"} \cup CloneLocs \cup VenvLocs
Folder == [at: Written, by: Clients \cup {Person}]
Job    == [place: Places \cup {Absent}, root: {Absent, "cache", "own"}, disturbed: BOOLEAN]

Active(c) == pc[c] # "idle"
Whole(p)  == folder[p] # Absent /\ folder[p].at = "whole"

\* Where every variable lives, and what a job holds where its call is.
Shapes ==
  /\ folder \in [Places -> Folder \cup {Absent}]
  /\ own = {v \in Versions : Machine[v] # "none"}
  /\ venv \in [Versions -> Packages \cup {Absent}]
  /\ pc \in [Clients -> Locs]
  /\ job \in [Clients -> Job]
  /\ rough \subseteq Versions
  /\ refused \in [Places -> Nat]

Jobs ==
  \A c \in Clients :
    /\ pc[c] = "idle" => job[c] = NoJob
    /\ pc[c] # "idle" => job[c].place \in Places
    /\ pc[c] \in CloneLocs => job[c].root = Absent
    /\ pc[c] \in VenvLocs => job[c].place[1] = "odoo" /\ job[c].root # Absent

\* Two calls at work on one version are on record, and so are two at one folder.
Turns ==
  \A c, k \in Clients :
    c # k /\ Active(c) /\ Active(k) /\ Version(c) = Version(k) => Version(c) \in rough

Undisturbed ==
  \A c, k \in Clients :
    c # k /\ Active(c) /\ Active(k) /\ Place(c) = Place(k) => job[c].disturbed

\* A folder that is not whole is somebody's work.
Unfinished ==
  \A p \in Places :
    p[2] \notin rough /\ folder[p] # Absent /\ ~Whole(p) =>
      \E c \in Clients : pc[c] \in {"cloning", "cleanup"} /\ Place(c) = p

\* What was found in the cache is whole, until it is handed over.
FoundWhole ==
  \A c \in Clients :
    pc[c] \in VenvLocs \cup {"run"} /\ job[c].root = "cache" /\ Version(c) \notin rough =>
      Whole(Place(c))

\* So with an interpreter: it is absent, has everything, or is being filled.
Filling ==
  \A v \in Versions :
    v \notin rough /\ venv[v] \notin {Absent, "all"} =>
      \E c \in Clients :
        pc[c] \in {"readRequirements", "install", "setuptools"} /\ Version(c) = v

\* How far it is filled, by where the call is that fills it.
Filled ==
  \A c \in Clients : Active(c) /\ Version(c) \notin rough =>
    /\ pc[c] \in {"python", "makeVenv"} => venv[Version(c)] = Absent
    /\ pc[c] \in {"readRequirements", "install"} => venv[Version(c)] = "none"
    /\ pc[c] = "setuptools" => venv[Version(c)] = "requirements"
    /\ pc[c] = "run" /\ Place(c)[1] = "odoo" /\ venv[Version(c)] = Absent =>
         Machine[Version(c)] = "venv"

\* After a refusal the folder is gone, or the next call is at it; and who is about to
\* refuse with nobody in its way is the first to.
Refusals ==
  /\ \A p \in Places :
       /\ refused[p] <= 1
       /\ refused[p] = 1 /\ folder[p] # Absent =>
            \E c \in Clients :
              /\ pc[c] \in {"cloning", "cleanup"} /\ Place(c) = p
              /\ pc[c] = "cleanup" => job[c].disturbed
  /\ \A c \in Clients :
       pc[c] = "cleanup" /\ ~job[c].disturbed => refused[Place(c)] = 0

Care ==
  /\ Shapes /\ Jobs
  /\ Turns /\ Undisturbed
  /\ Unfinished /\ FoundWhole /\ Filling /\ Filled /\ Refusals

-------------------------------------------------------------------------------
(* Lemmas *)

\* A call that is active has a folder, and that folder a version.
LEMMA HasPlace == ASSUME Shapes, Jobs, NEW c \in Clients, Active(c)
                 PROVE  Place(c) \in Places /\ Version(c) \in Versions
BY DEF Jobs, Active, Place, Version, Places

\* A record is not Absent.
LEMMA Present == ASSUME NEW r \in Folder
                 PROVE  r # Absent
BY RuntimesAssumption DEF Folder, Written

\* Init makes the invariant true.
LEMMA InitCare == Init => Care
<1> SUFFICES ASSUME Init PROVE Care
  OBVIOUS
<1>1. Shapes
  <2>1. PICK linked \in SUBSET own :
          folder = [p \in Places |-> IF p[1] = "odoo" /\ p[2] \in linked
                                     THEN [at |-> "whole", by |-> Person] ELSE Absent]
    BY DEF Init
  <2>2. [at |-> "whole", by |-> Person] \in Folder
    BY DEF Folder, Written
  <2>3. folder \in [Places -> Folder \cup {Absent}]
    BY <2>1, <2>2
  <2>4. NoJob \in Job
    BY DEF NoJob, Job
  <2> QED
    BY <2>3, <2>4 DEF Init, Shapes, Locs, Packages
<1>2. \A c \in Clients : pc[c] = "idle" /\ job[c] = NoJob
  BY DEF Init
<1>3. Jobs
  BY <1>2 DEF Jobs, CloneLocs, VenvLocs
<1>4. Turns /\ Undisturbed /\ FoundWhole /\ Filled
  BY <1>2 DEF Turns, Undisturbed, FoundWhole, Filled, Active, VenvLocs
<1>5. \A p \in Places : folder[p] = Absent \/ Whole(p)
  <2>1. PICK linked \in SUBSET own :
          folder = [p \in Places |-> IF p[1] = "odoo" /\ p[2] \in linked
                                     THEN [at |-> "whole", by |-> Person] ELSE Absent]
    BY DEF Init
  <2> QED
    BY <2>1 DEF Whole
<1>6. Unfinished
  BY <1>5 DEF Unfinished
<1>7. Filling
  BY DEF Init, Filling
<1>8. Refusals
  BY <1>2 DEF Init, Refusals
<1> QED
  BY <1>1, <1>3, <1>4, <1>6, <1>7, <1>8 DEF Care

-------------------------------------------------------------------------------
(* A step of a call that is under way *)

Step(c) ==
  \/ Resolve(c) \/ Clear(c) \/ ClearFails(c)
  \/ Clone(c) \/ Write(c) \/ Cloned(c) \/ CloneFails(c) \/ Cleanup(c) \/ CleanupFails(c)
  \/ LookVenv(c) \/ EnsurePython(c) \/ MakeVenv(c) \/ ReadRequirements(c)
  \/ InstallRequirements(c) \/ PinSetuptools(c) \/ VenvFails(c) \/ Run(c)
  \/ RemoveCached(c) \/ RemoveCachedFails(c)

\* The next states of the variables, as far as their types and c's neighbours go.
Frame(c) ==
  /\ \A k \in Clients \ {c} : pc'[k] = pc[k] /\ job'[k] = job[k]
  /\ \A p \in Places : p # Place(c) => folder'[p] = folder[p] /\ refused'[p] = refused[p]
  /\ \A v \in Versions : v # Version(c) => venv'[v] = venv[v]
  /\ rough \subseteq rough'
  /\ pc'[c] # "idle" =>
       job'[c].place = job[c].place /\ (job[c].disturbed => job'[c].disturbed)

\* Goto moves one call, and ends it properly.
LEMMA GotoMoves ==
  ASSUME Shapes, Jobs, NEW c \in Clients, NEW l \in Locs, Active(c), Goto(c, l),
         l \in CloneLocs => pc[c] \in CloneLocs,
         l \in VenvLocs => pc[c] \in VenvLocs
  PROVE  /\ pc' \in [Clients -> Locs] /\ job' \in [Clients -> Job]
         /\ Jobs'
         /\ pc'[c] = l
         /\ job'[c] = IF l = "idle" THEN NoJob ELSE job[c]
         /\ \A k \in Clients \ {c} : pc'[k] = pc[k] /\ job'[k] = job[k]
<1>1. NoJob \in Job
  BY DEF NoJob, Job
<1>2. pc' = [pc EXCEPT ![c] = l]
  BY DEF Goto
<1>3. job' = IF l = "idle" THEN [job EXCEPT ![c] = NoJob] ELSE job
  BY DEF Goto
<1>4. pc' \in [Clients -> Locs] /\ job' \in [Clients -> Job]
  BY <1>1, <1>2, <1>3 DEF Shapes
<1>5. /\ pc'[c] = l
      /\ job'[c] = IF l = "idle" THEN NoJob ELSE job[c]
      /\ \A k \in Clients \ {c} : pc'[k] = pc[k] /\ job'[k] = job[k]
  BY <1>1, <1>2, <1>3 DEF Shapes
<1>6. Jobs'
  BY <1>5 DEF Jobs, Active, CloneLocs, VenvLocs
<1> QED
  BY <1>4, <1>5, <1>6

\* Found moves one call too, and says which folder it found.
LEMMA FoundMoves ==
  ASSUME Shapes, Jobs, NEW c \in Clients, NEW root \in {"cache", "own"}, NEW l \in VenvLocs \cup {"run"},
         Active(c), Found(c, root, l), l \in VenvLocs => Place(c)[1] = "odoo"
  PROVE  /\ pc' \in [Clients -> Locs] /\ job' \in [Clients -> Job] /\ refused' \in [Places -> Nat]
         /\ Jobs'
         /\ pc'[c] = l
         /\ job'[c].place = job[c].place /\ job'[c].root = root
         /\ job'[c].disturbed = job[c].disturbed
         /\ \A k \in Clients \ {c} : pc'[k] = pc[k] /\ job'[k] = job[k]
         /\ refused'[Place(c)] = 0
         /\ \A p \in Places : p # Place(c) => refused'[p] = refused[p]
<1>1. /\ pc' = [pc EXCEPT ![c] = l] /\ job' = [job EXCEPT ![c].root = root]
      /\ refused' = [refused EXCEPT ![Place(c)] = 0]
  BY DEF Found
<1>2. l \in Locs /\ l # "idle" /\ l \notin CloneLocs
  BY DEF Locs, VenvLocs, CloneLocs
<1>3. job[c] \in Job /\ Place(c) \in Places
  BY HasPlace DEF Shapes
<1>4. pc' \in [Clients -> Locs] /\ refused' \in [Places -> Nat]
  BY <1>1, <1>2, <1>3 DEF Shapes
<1>5. job' \in [Clients -> Job]
  <2>1. [job[c] EXCEPT !.root = root] \in Job
    BY <1>3 DEF Job
  <2> QED
    BY <1>1, <2>1 DEF Shapes
<1>6. /\ pc'[c] = l
      /\ job'[c].place = job[c].place /\ job'[c].root = root
      /\ job'[c].disturbed = job[c].disturbed
      /\ \A k \in Clients \ {c} : pc'[k] = pc[k] /\ job'[k] = job[k]
  BY <1>1, <1>3 DEF Shapes, Job
<1>7. Absent \notin {"cache", "own"}
  BY RuntimesAssumption
<1>8. Jobs'
  <2> SUFFICES ASSUME NEW k \in Clients
               PROVE  /\ pc'[k] = "idle" => job'[k] = NoJob
                      /\ pc'[k] # "idle" => job'[k].place \in Places
                      /\ pc'[k] \in CloneLocs => job'[k].root = Absent
                      /\ pc'[k] \in VenvLocs => job'[k].place[1] = "odoo" /\ job'[k].root # Absent
    BY DEF Jobs, CloneLocs, VenvLocs
  <2>1. CASE k # c
    BY <1>6, <2>1 DEF Jobs
  <2>2. CASE k = c
    BY <1>2, <1>3, <1>6, <1>7, <2>2 DEF Place
  <2> QED
    BY <2>1, <2>2
<1>9. refused'[Place(c)] = 0 /\ \A p \in Places : p # Place(c) => refused'[p] = refused[p]
  BY <1>1, <1>3 DEF Shapes
<1> QED
  BY <1>4, <1>5, <1>6, <1>8, <1>9

\* What a folder is after one write to it.
LEMMA FolderMoves ==
  ASSUME Shapes, NEW p \in Places, NEW f \in Folder \cup {Absent},
         folder' = [folder EXCEPT ![p] = f]
  PROVE  /\ folder' \in [Places -> Folder \cup {Absent}]
         /\ folder'[p] = f
         /\ \A q \in Places : q # p => folder'[q] = folder[q]
BY DEF Shapes

\* A folder that is there, and how far it is written.
LEMMA FolderWritten ==
  ASSUME Shapes, NEW p \in Places, NEW at \in Written, folder[p] # Absent,
         folder' = [folder EXCEPT ![p].at = at]
  PROVE  /\ folder' \in [Places -> Folder \cup {Absent}]
         /\ folder'[p] # Absent /\ folder'[p].at = at /\ folder'[p].by = folder[p].by
         /\ \A q \in Places : q # p => folder'[q] = folder[q]
<1> DEFINE f == [folder[p] EXCEPT !.at = at]
<1>1. folder[p] \in Folder
  BY DEF Shapes
<1>2. f \in Folder /\ f.at = at /\ f.by = folder[p].by
  BY <1>1 DEF Folder
<1>3. folder' = [folder EXCEPT ![p] = f]
  OBVIOUS
<1> HIDE DEF f
<1>4. folder' \in [Places -> Folder \cup {Absent}]
  BY <1>2, <1>3 DEF Shapes
<1>5. folder'[p] = f /\ \A q \in Places : q # p => folder'[q] = folder[q]
  BY <1>3 DEF Shapes
<1> QED
  BY <1>2, <1>4, <1>5, Present

\* What an interpreter is after one write to it.
LEMMA VenvMoves ==
  ASSUME Shapes, NEW v \in Versions, NEW packages \in Packages, Installed(v, packages)
  PROVE  /\ venv' \in [Versions -> Packages \cup {Absent}]
         /\ venv'[v] = IF venv[v] = Absent THEN Absent ELSE packages
         /\ \A w \in Versions : w # v => venv'[w] = venv[w]
BY DEF Shapes, Installed

\* What a cleanup does to the count of refusals.
LEMMA RefuseCounts ==
  ASSUME Shapes, Jobs, NEW c \in Clients, Active(c), Refuse(c)
  PROVE  /\ refused' \in [Places -> Nat]
         /\ refused'[Place(c)] = IF job[c].disturbed THEN 0 ELSE refused[Place(c)] + 1
         /\ \A p \in Places : p # Place(c) => refused'[p] = refused[p]
<1>1. Place(c) \in Places
  BY HasPlace
<1> QED
  BY <1>1 DEF Shapes, Refuse

-------------------------------------------------------------------------------
(* Each step in terms of its own folder, version and call *)

\* What all of a step's writes have in common, and what becomes of the others.
Good(c) == Shapes' /\ Jobs' /\ Frame(c)

\* What is taken for a checkout, or where the search goes on.
LEMMA ResolveDoes ==
  ASSUME Shapes, Jobs, NEW c \in Clients, Resolve(c)
  PROVE  /\ Active(c) /\ Good(c)
         /\ UNCHANGED <<folder, venv, rough>>
         /\ pc[c] = "resolve"
         /\ \/ /\ Resolves(Place(c)) /\ job'[c].root = "cache" /\ refused'[Place(c)] = 0
               /\ pc'[c] = IF HasVenv(Place(c)) THEN "run" ELSE "lookVenv"
            \/ /\ Place(c)[1] = "odoo" /\ job'[c].root = "own" /\ refused'[Place(c)] = 0
               /\ pc'[c] = IF Machine[Version(c)] = "venv" THEN "run" ELSE "lookVenv"
            \/ pc'[c] \in {"clear", "clone"} /\ ~Resolves(Place(c)) /\ UNCHANGED refused
<1>1. pc[c] = "resolve" /\ Active(c) /\ UNCHANGED <<folder, own, venv, rough>>
  BY DEF Resolve, Active
<1>2. Place(c) \in Places
  BY <1>1, HasPlace
<1>3. CASE Resolves(Place(c))
  <2> DEFINE l == IF HasVenv(Place(c)) THEN "run" ELSE "lookVenv"
  <2>1. Found(c, "cache", l)
    BY <1>3 DEF Resolve
  <2>2. l \in VenvLocs \cup {"run"} /\ (l \in VenvLocs => Place(c)[1] = "odoo")
    BY DEF VenvLocs, HasVenv
  <2> HIDE DEF l
  <2>3. /\ pc' \in [Clients -> Locs] /\ job' \in [Clients -> Job] /\ refused' \in [Places -> Nat]
        /\ Jobs'
        /\ pc'[c] = l
        /\ job'[c].place = job[c].place /\ job'[c].root = "cache"
        /\ job'[c].disturbed = job[c].disturbed
        /\ \A k \in Clients \ {c} : pc'[k] = pc[k] /\ job'[k] = job[k]
        /\ refused'[Place(c)] = 0
        /\ \A p \in Places : p # Place(c) => refused'[p] = refused[p]
    BY <1>1, <2>1, <2>2, FoundMoves
  <2>4. Good(c)
    BY <1>1, <2>3 DEF Good, Frame, Shapes
  <2> QED
    BY <1>1, <1>3, <2>3, <2>4 DEF l
<1>4. CASE ~Resolves(Place(c)) /\ Place(c)[1] = "odoo" /\ Version(c) \in own
  <2> DEFINE l == IF Machine[Version(c)] = "venv" THEN "run" ELSE "lookVenv"
  <2>1. Found(c, "own", l)
    BY <1>4 DEF Resolve
  <2>2. l \in VenvLocs \cup {"run"}
    BY DEF VenvLocs
  <2> HIDE DEF l
  <2>3. /\ pc' \in [Clients -> Locs] /\ job' \in [Clients -> Job] /\ refused' \in [Places -> Nat]
        /\ Jobs'
        /\ pc'[c] = l
        /\ job'[c].place = job[c].place /\ job'[c].root = "own"
        /\ job'[c].disturbed = job[c].disturbed
        /\ \A k \in Clients \ {c} : pc'[k] = pc[k] /\ job'[k] = job[k]
        /\ refused'[Place(c)] = 0
        /\ \A p \in Places : p # Place(c) => refused'[p] = refused[p]
    BY <1>1, <1>4, <2>1, <2>2, FoundMoves
  <2>4. Good(c)
    BY <1>1, <2>3 DEF Good, Frame, Shapes
  <2> QED
    BY <1>1, <1>4, <2>3, <2>4 DEF l
<1>5. CASE ~Resolves(Place(c)) /\ ~(Place(c)[1] = "odoo" /\ Version(c) \in own)
  <2> DEFINE l == IF Place(c)[1] = "openupgrade" THEN "clear" ELSE "clone"
  <2>1. Goto(c, l) /\ UNCHANGED refused
    BY <1>5 DEF Resolve
  <2>2. l \in {"clear", "clone"}
    OBVIOUS
  <2> HIDE DEF l
  <2>3. l \in Locs /\ l \in CloneLocs /\ l \notin VenvLocs /\ l # "idle" /\ pc[c] \in CloneLocs
    BY <1>1, <2>2 DEF Locs, CloneLocs, VenvLocs
  <2>4. /\ pc' \in [Clients -> Locs] /\ job' \in [Clients -> Job]
        /\ Jobs'
        /\ pc'[c] = l
        /\ job'[c] = job[c]
        /\ \A k \in Clients \ {c} : pc'[k] = pc[k] /\ job'[k] = job[k]
    BY <1>1, <2>1, <2>3, GotoMoves
  <2>5. Good(c)
    BY <1>1, <2>1, <2>4 DEF Good, Frame, Shapes
  <2> QED
    BY <1>1, <1>5, <2>1, <2>2, <2>4, <2>5
<1> QED
  BY <1>3, <1>4, <1>5

\* OpenUpgrade's folder goes before it is cloned.
LEMMA ClearDoes ==
  ASSUME Shapes, Jobs, NEW c \in Clients, Clear(c)
  PROVE  /\ Active(c) /\ Good(c)
         /\ UNCHANGED <<venv, rough, refused>>
         /\ pc[c] = "clear" /\ pc'[c] = "clone" /\ job'[c] = job[c]
         /\ folder'[Place(c)] = Absent
<1>1. pc[c] = "clear" /\ Active(c) /\ UNCHANGED <<own, venv, rough, refused>>
  BY DEF Clear, Active, history
<1>2. Place(c) \in Places
  BY <1>1, HasPlace
<1>3. /\ folder' \in [Places -> Folder \cup {Absent}]
      /\ folder'[Place(c)] = Absent
      /\ \A q \in Places : q # Place(c) => folder'[q] = folder[q]
  BY <1>2, FolderMoves DEF Clear, Gone
<1>4. /\ pc' \in [Clients -> Locs] /\ job' \in [Clients -> Job]
      /\ Jobs'
      /\ pc'[c] = "clone" /\ job'[c] = job[c]
      /\ \A k \in Clients \ {c} : pc'[k] = pc[k] /\ job'[k] = job[k]
  <2>1. "clone" \in Locs /\ "clone" \notin VenvLocs /\ pc[c] \in CloneLocs /\ Goto(c, "clone")
    BY <1>1 DEF Locs, CloneLocs, VenvLocs, Clear
  <2> QED
    BY <1>1, <2>1, GotoMoves
<1>5. Good(c)
  BY <1>1, <1>3, <1>4 DEF Good, Frame, Shapes
<1> QED
  BY <1>1, <1>3, <1>4, <1>5

\* git begins a folder, or is refused one that is there.
LEMMA CloneDoes ==
  ASSUME Shapes, Jobs, NEW c \in Clients, Clone(c)
  PROVE  /\ Active(c) /\ Good(c)
         /\ UNCHANGED <<venv, rough, refused>>
         /\ pc[c] = "clone" /\ job'[c] = job[c]
         /\ \/ folder[Place(c)] # Absent /\ pc'[c] = "cleanup" /\ UNCHANGED folder
            \/ pc'[c] = "cloning"
<1>1. pc[c] = "clone" /\ Active(c) /\ UNCHANGED <<own, venv, rough, refused>>
  BY DEF Clone, Active, history
<1>2. Place(c) \in Places
  BY <1>1, HasPlace
<1>3. \A l \in {"cleanup", "cloning"} : l \in Locs /\ l \notin VenvLocs /\ l # "idle"
  BY DEF Locs, CloneLocs, VenvLocs
<1>4. pc[c] \in CloneLocs
  BY <1>1 DEF CloneLocs
<1>5. ASSUME NEW l \in {"cleanup", "cloning"}, Goto(c, l)
      PROVE  /\ pc' \in [Clients -> Locs] /\ job' \in [Clients -> Job]
             /\ Jobs'
             /\ pc'[c] = l /\ job'[c] = job[c]
             /\ \A k \in Clients \ {c} : pc'[k] = pc[k] /\ job'[k] = job[k]
  BY <1>1, <1>3, <1>4, <1>5, GotoMoves
<1>6. CASE folder[Place(c)] # Absent
  <2>1. Goto(c, "cleanup") /\ UNCHANGED folder
    BY <1>6 DEF Clone
  <2>2. Good(c) /\ pc'[c] = "cleanup" /\ job'[c] = job[c]
    BY <1>1, <1>5, <2>1 DEF Good, Frame, Shapes
  <2> QED
    BY <1>1, <1>6, <2>1, <2>2
<1>7. CASE folder[Place(c)] = Absent
  <2>1. Goto(c, "cloning") /\ folder' = [folder EXCEPT ![Place(c)] = [at |-> "begun", by |-> c]]
    BY <1>7 DEF Clone
  <2>2. [at |-> "begun", by |-> c] \in Folder
    BY DEF Folder, Written
  <2>3. /\ folder' \in [Places -> Folder \cup {Absent}]
        /\ \A q \in Places : q # Place(c) => folder'[q] = folder[q]
    BY <1>2, <2>1, <2>2, FolderMoves
  <2>4. Good(c) /\ pc'[c] = "cloning" /\ job'[c] = job[c]
    BY <1>1, <1>5, <2>1, <2>3 DEF Good, Frame, Shapes
  <2> QED
    BY <1>1, <2>4
<1> QED
  BY <1>6, <1>7

\* A folder grows under the clone that writes it.
LEMMA WriteDoes ==
  ASSUME Shapes, Jobs, NEW c \in Clients, Write(c)
  PROVE  /\ Active(c) /\ Good(c)
         /\ UNCHANGED <<venv, rough, refused>>
         /\ pc[c] = "cloning" /\ pc'[c] = "cloning" /\ job'[c] = job[c]
<1>1. pc[c] = "cloning" /\ Active(c) /\ UNCHANGED <<own, venv, pc, job, rough, refused>>
  BY DEF Write, Active, history
<1>2. Place(c) \in Places /\ folder[Place(c)] # Absent
  BY <1>1, HasPlace DEF Write, Mine
<1>3. folder' = [folder EXCEPT ![Place(c)].at = "marked"] /\ "marked" \in Written
  BY DEF Write, Written
<1>4. /\ folder' \in [Places -> Folder \cup {Absent}]
      /\ \A q \in Places : q # Place(c) => folder'[q] = folder[q]
  BY <1>2, <1>3, FolderWritten
<1>5. Good(c)
  BY <1>1, <1>4 DEF Good, Frame, Shapes, Jobs
<1> QED
  BY <1>1, <1>5

\* A clone ends with the whole folder.
LEMMA ClonedDoes ==
  ASSUME Shapes, Jobs, NEW c \in Clients, Cloned(c)
  PROVE  /\ Active(c) /\ Good(c)
         /\ UNCHANGED <<venv, rough>>
         /\ pc[c] = "cloning"
         /\ folder'[Place(c)] # Absent /\ folder'[Place(c)].at = "whole"
         /\ pc'[c] = (IF Place(c)[1] = "odoo" THEN "lookVenv" ELSE "run")
         /\ refused'[Place(c)] = 0
<1>1. pc[c] = "cloning" /\ Active(c) /\ UNCHANGED <<own, venv, rough>>
  BY DEF Cloned, Active
<1>2. Place(c) \in Places /\ folder[Place(c)] # Absent
  BY <1>1, HasPlace DEF Cloned, Mine
<1>3. folder' = [folder EXCEPT ![Place(c)].at = "whole"] /\ "whole" \in Written
  BY DEF Cloned, Written
<1>4. /\ folder' \in [Places -> Folder \cup {Absent}]
      /\ folder'[Place(c)] # Absent /\ folder'[Place(c)].at = "whole"
      /\ \A q \in Places : q # Place(c) => folder'[q] = folder[q]
  BY <1>2, <1>3, FolderWritten
<1> DEFINE l == IF Place(c)[1] = "odoo" THEN "lookVenv" ELSE "run"
<1>5. Found(c, "cache", l)
  BY DEF Cloned
<1>6. l \in VenvLocs \cup {"run"} /\ (l \in VenvLocs => Place(c)[1] = "odoo")
  BY DEF VenvLocs
<1> HIDE DEF l
<1>7. /\ pc' \in [Clients -> Locs] /\ job' \in [Clients -> Job] /\ refused' \in [Places -> Nat]
      /\ Jobs'
      /\ pc'[c] = l
      /\ job'[c].place = job[c].place
      /\ job'[c].disturbed = job[c].disturbed
      /\ \A k \in Clients \ {c} : pc'[k] = pc[k] /\ job'[k] = job[k]
      /\ refused'[Place(c)] = 0
      /\ \A p \in Places : p # Place(c) => refused'[p] = refused[p]
  BY <1>1, <1>5, <1>6, FoundMoves
<1>8. Good(c)
  BY <1>1, <1>4, <1>7 DEF Good, Frame, Shapes
<1> QED
  BY <1>1, <1>4, <1>7, <1>8 DEF l

\* A clone that failed cleans up, and is on record as disturbed.
LEMMA CloneFailsDoes ==
  ASSUME Shapes, Jobs, NEW c \in Clients, CloneFails(c)
  PROVE  /\ Active(c) /\ Good(c)
         /\ UNCHANGED <<folder, venv, rough, refused>>
         /\ pc[c] = "cloning" /\ pc'[c] = "cleanup" /\ job'[c].disturbed
<1>1. /\ pc[c] = "cloning" /\ Active(c) /\ UNCHANGED <<folder, own, venv, rough, refused>>
      /\ pc' = [pc EXCEPT ![c] = "cleanup"] /\ job' = [job EXCEPT ![c].disturbed = TRUE]
  BY DEF CloneFails, Active, history
<1>2. "cleanup" \in Locs /\ "cleanup" \in CloneLocs /\ "cleanup" \notin VenvLocs /\ pc[c] \in CloneLocs
  BY <1>1 DEF Locs, CloneLocs, VenvLocs
<1>3. job[c] \in Job /\ [job[c] EXCEPT !.disturbed = TRUE] \in Job
  BY DEF Shapes, Job
<1>4. pc' \in [Clients -> Locs] /\ job' \in [Clients -> Job]
  BY <1>1, <1>2, <1>3 DEF Shapes
<1>5. /\ pc'[c] = "cleanup" /\ job'[c].disturbed = TRUE
      /\ job'[c].place = job[c].place /\ job'[c].root = job[c].root
      /\ \A k \in Clients \ {c} : pc'[k] = pc[k] /\ job'[k] = job[k]
  BY <1>1, <1>3 DEF Shapes, Job
<1>6. Jobs'
  <2> SUFFICES ASSUME NEW k \in Clients
               PROVE  /\ pc'[k] = "idle" => job'[k] = NoJob
                      /\ pc'[k] # "idle" => job'[k].place \in Places
                      /\ pc'[k] \in CloneLocs => job'[k].root = Absent
                      /\ pc'[k] \in VenvLocs => job'[k].place[1] = "odoo" /\ job'[k].root # Absent
    BY DEF Jobs, CloneLocs, VenvLocs
  <2>1. CASE k # c
    BY <1>5, <2>1 DEF Jobs
  <2>2. CASE k = c
    BY <1>1, <1>2, <1>5, <2>2 DEF Jobs
  <2> QED
    BY <2>1, <2>2
<1>7. Good(c)
  BY <1>1, <1>4, <1>5, <1>6 DEF Good, Frame, Shapes
<1> QED
  BY <1>1, <1>5, <1>7

\* The folder goes, and the refusal counts.
LEMMA CleanupDoes ==
  ASSUME Shapes, Jobs, NEW c \in Clients, Cleanup(c)
  PROVE  /\ Active(c) /\ Good(c)
         /\ UNCHANGED <<venv, rough>>
         /\ pc[c] = "cleanup" /\ pc'[c] = "idle"
         /\ folder'[Place(c)] = Absent
         /\ refused'[Place(c)] = IF job[c].disturbed THEN 0 ELSE refused[Place(c)] + 1
<1>1. pc[c] = "cleanup" /\ Active(c) /\ UNCHANGED <<own, venv, rough>>
  BY DEF Cleanup, Active
<1>2. Place(c) \in Places
  BY <1>1, HasPlace
<1>3. /\ folder' \in [Places -> Folder \cup {Absent}]
      /\ folder'[Place(c)] = Absent
      /\ \A q \in Places : q # Place(c) => folder'[q] = folder[q]
  BY <1>2, FolderMoves DEF Cleanup, Gone
<1>4. /\ pc' \in [Clients -> Locs] /\ job' \in [Clients -> Job]
      /\ Jobs'
      /\ pc'[c] = "idle"
      /\ \A k \in Clients \ {c} : pc'[k] = pc[k] /\ job'[k] = job[k]
  <2>1. "idle" \in Locs /\ "idle" \notin VenvLocs /\ "idle" \notin CloneLocs /\ Goto(c, "idle")
    BY DEF Locs, CloneLocs, VenvLocs, Cleanup
  <2> QED
    BY <1>1, <2>1, GotoMoves
<1>5. /\ refused' \in [Places -> Nat]
      /\ refused'[Place(c)] = IF job[c].disturbed THEN 0 ELSE refused[Place(c)] + 1
      /\ \A p \in Places : p # Place(c) => refused'[p] = refused[p]
  BY <1>1, RefuseCounts DEF Cleanup
<1>6. Good(c)
  BY <1>1, <1>3, <1>4, <1>5 DEF Good, Frame, Shapes
<1> QED
  BY <1>1, <1>3, <1>4, <1>5, <1>6

\* The steps of an interpreter go on to a later one, to the end, or hand over.
LEMMA VenvGoes ==
  ASSUME Shapes, Jobs, NEW c \in Clients, pc[c] \in VenvLocs \cup {"run", "remove"},
         NEW l \in VenvLocs \cup {"run", "idle"},
         Goto(c, l), l \in VenvLocs => pc[c] \in VenvLocs
  PROVE  /\ Active(c)
         /\ pc' \in [Clients -> Locs] /\ job' \in [Clients -> Job]
         /\ Jobs'
         /\ pc'[c] = l /\ (l # "idle" => job'[c] = job[c])
         /\ \A k \in Clients \ {c} : pc'[k] = pc[k] /\ job'[k] = job[k]
<1>1. Active(c)
  BY DEF Active, VenvLocs
<1>2. l \in Locs /\ l \notin CloneLocs
  BY DEF Locs, CloneLocs, VenvLocs
<1> QED
  BY <1>1, <1>2, GotoMoves

\* An interpreter that is there is taken.
LEMMA LookVenvDoes ==
  ASSUME Shapes, Jobs, NEW c \in Clients, LookVenv(c)
  PROVE  /\ Active(c) /\ Good(c)
         /\ UNCHANGED <<folder, venv, rough, refused>>
         /\ pc[c] = "lookVenv" /\ job'[c] = job[c]
         /\ pc'[c] = IF venv[Version(c)] # Absent THEN "run" ELSE "python"
<1> DEFINE l == IF venv[Version(c)] # Absent THEN "run" ELSE "python"
<1>1. pc[c] = "lookVenv" /\ Goto(c, l) /\ UNCHANGED <<folder, own, venv, rough, refused>>
  BY DEF LookVenv, history
<1>2. l \in VenvLocs \cup {"run"} /\ l # "idle" /\ pc[c] \in VenvLocs
  BY <1>1 DEF VenvLocs
<1> HIDE DEF l
<1>3. /\ Active(c)
      /\ pc' \in [Clients -> Locs] /\ job' \in [Clients -> Job] /\ Jobs'
      /\ pc'[c] = l /\ job'[c] = job[c]
      /\ \A k \in Clients \ {c} : pc'[k] = pc[k] /\ job'[k] = job[k]
  BY <1>1, <1>2, VenvGoes
<1>4. Good(c)
  BY <1>1, <1>3 DEF Good, Frame, Shapes
<1> QED
  BY <1>1, <1>3, <1>4 DEF l

\* The second look at the interpreter.
LEMMA EnsurePythonDoes ==
  ASSUME Shapes, Jobs, NEW c \in Clients, EnsurePython(c)
  PROVE  /\ Active(c) /\ Good(c)
         /\ UNCHANGED <<folder, venv, rough, refused>>
         /\ pc[c] = "python" /\ job'[c] = job[c]
         /\ pc'[c] = IF venv[Version(c)] # Absent THEN "readRequirements" ELSE "makeVenv"
<1> DEFINE l == IF venv[Version(c)] # Absent THEN "readRequirements" ELSE "makeVenv"
<1>1. pc[c] = "python" /\ Goto(c, l) /\ UNCHANGED <<folder, own, venv, rough, refused>>
  BY DEF EnsurePython, history
<1>2. l \in VenvLocs /\ l # "idle" /\ pc[c] \in VenvLocs
  BY <1>1 DEF VenvLocs
<1> HIDE DEF l
<1>3. /\ Active(c)
      /\ pc' \in [Clients -> Locs] /\ job' \in [Clients -> Job] /\ Jobs'
      /\ pc'[c] = l /\ job'[c] = job[c]
      /\ \A k \in Clients \ {c} : pc'[k] = pc[k] /\ job'[k] = job[k]
  BY <1>1, <1>2, VenvGoes
<1>4. Good(c)
  BY <1>1, <1>3 DEF Good, Frame, Shapes
<1> QED
  BY <1>1, <1>3, <1>4 DEF l

\* The interpreter is made anew, or uv refuses.
LEMMA MakeVenvDoes ==
  ASSUME Shapes, Jobs, NEW c \in Clients, MakeVenv(c)
  PROVE  /\ Active(c) /\ Good(c)
         /\ UNCHANGED <<folder, rough, refused>>
         /\ pc[c] = "makeVenv" /\ (pc'[c] # "idle" => job'[c] = job[c])
         /\ \/ venv'[Version(c)] = "none" /\ pc'[c] = "readRequirements"
            \/ venv[Version(c)] # Absent /\ UNCHANGED venv /\ pc'[c] = "idle"
<1>1. pc[c] = "makeVenv" /\ UNCHANGED <<folder, own, rough, refused>> /\ pc[c] \in VenvLocs /\ Active(c)
  BY DEF MakeVenv, history, VenvLocs, Active
<1>2. Version(c) \in Versions
  BY <1>1, HasPlace
<1>3. ASSUME NEW l \in {"readRequirements", "idle"}, Goto(c, l)
      PROVE  /\ pc' \in [Clients -> Locs] /\ job' \in [Clients -> Job] /\ Jobs'
             /\ pc'[c] = l /\ (l # "idle" => job'[c] = job[c])
             /\ \A k \in Clients \ {c} : pc'[k] = pc[k] /\ job'[k] = job[k]
  <2>1. l \in VenvLocs \cup {"run", "idle"}
    BY DEF VenvLocs
  <2> QED
    BY <1>1, <1>3, <2>1, VenvGoes
<1>4. CASE venv' = [venv EXCEPT ![Version(c)] = "none"] /\ Goto(c, "readRequirements")
  <2>1. /\ venv' \in [Versions -> Packages \cup {Absent}]
        /\ venv'[Version(c)] = "none"
        /\ \A w \in Versions : w # Version(c) => venv'[w] = venv[w]
    BY <1>2, <1>4 DEF Shapes, Packages
  <2>2. Good(c) /\ pc'[c] = "readRequirements" /\ job'[c] = job[c]
    BY <1>1, <1>3, <1>4, <2>1 DEF Good, Frame, Shapes
  <2> QED
    BY <1>1, <2>1, <2>2
<1>5. CASE venv[Version(c)] # Absent /\ UNCHANGED venv /\ Goto(c, "idle")
  <2>1. Good(c) /\ pc'[c] = "idle"
    BY <1>1, <1>3, <1>5 DEF Good, Frame, Shapes
  <2> QED
    BY <1>1, <1>5, <2>1
<1> QED
  BY <1>4, <1>5 DEF MakeVenv

\* What Roughen adds is a version.
LEMMA RoughGrows ==
  ASSUME Shapes, Jobs, NEW c \in Clients, Active(c), Roughen(c)
  PROVE  rough' \subseteq Versions /\ rough \subseteq rough' /\ Version(c) \in rough'
BY HasPlace DEF Roughen, Shapes

\* The checkout has its requirements, or its version is rough.
LEMMA ReadRequirementsDoes ==
  ASSUME Shapes, Jobs, NEW c \in Clients, ReadRequirements(c)
  PROVE  /\ Active(c) /\ Good(c)
         /\ UNCHANGED <<folder, venv, refused>>
         /\ pc[c] = "readRequirements" /\ (pc'[c] # "idle" => job'[c] = job[c])
         /\ pc'[c] = "install" \/ (pc'[c] = "idle" /\ Version(c) \in rough')
<1>1. pc[c] = "readRequirements" /\ UNCHANGED <<folder, own, venv, refused>> /\ pc[c] \in VenvLocs /\ Active(c)
  BY DEF ReadRequirements, VenvLocs, Active
<1>2. ASSUME NEW l \in {"install", "idle"}, Goto(c, l)
      PROVE  /\ pc' \in [Clients -> Locs] /\ job' \in [Clients -> Job] /\ Jobs'
             /\ pc'[c] = l /\ (l # "idle" => job'[c] = job[c])
             /\ \A k \in Clients \ {c} : pc'[k] = pc[k] /\ job'[k] = job[k]
  <2>1. l \in VenvLocs \cup {"run", "idle"}
    BY DEF VenvLocs
  <2> QED
    BY <1>1, <1>2, <2>1, VenvGoes
<1>3. CASE Goto(c, "install") /\ UNCHANGED rough
  <2>1. Good(c) /\ pc'[c] = "install" /\ job'[c] = job[c]
    BY <1>1, <1>2, <1>3 DEF Good, Frame, Shapes
  <2> QED
    BY <1>1, <2>1
<1>4. CASE Goto(c, "idle") /\ Roughen(c)
  <2>1. Good(c) /\ pc'[c] = "idle" /\ Version(c) \in rough'
    BY <1>1, <1>2, <1>4, RoughGrows DEF Good, Frame, Shapes
  <2> QED
    BY <1>1, <2>1
<1> QED
  BY <1>3, <1>4 DEF ReadRequirements

\* The requirements go into the interpreter, if it is there.
LEMMA InstallRequirementsDoes ==
  ASSUME Shapes, Jobs, NEW c \in Clients, InstallRequirements(c)
  PROVE  /\ Active(c) /\ Good(c)
         /\ UNCHANGED <<folder, rough, refused>>
         /\ pc[c] = "install" /\ pc'[c] = "setuptools" /\ job'[c] = job[c]
         /\ venv'[Version(c)] = IF venv[Version(c)] = Absent THEN Absent ELSE "requirements"
<1>1. /\ pc[c] = "install" /\ Goto(c, "setuptools") /\ UNCHANGED <<folder, own, rough, refused>>
      /\ Installed(Version(c), "requirements")
  BY DEF InstallRequirements, history
<1>2. pc[c] \in VenvLocs /\ "setuptools" \in VenvLocs /\ "setuptools" # "idle" /\ "requirements" \in Packages
  BY <1>1 DEF VenvLocs, Packages
<1>3. /\ Active(c)
      /\ pc' \in [Clients -> Locs] /\ job' \in [Clients -> Job] /\ Jobs'
      /\ pc'[c] = "setuptools" /\ job'[c] = job[c]
      /\ \A k \in Clients \ {c} : pc'[k] = pc[k] /\ job'[k] = job[k]
  BY <1>1, <1>2, VenvGoes
<1>4. /\ venv' \in [Versions -> Packages \cup {Absent}]
      /\ venv'[Version(c)] = IF venv[Version(c)] = Absent THEN Absent ELSE "requirements"
      /\ \A w \in Versions : w # Version(c) => venv'[w] = venv[w]
  BY <1>1, <1>2, <1>3, HasPlace, VenvMoves
<1>5. Good(c)
  BY <1>1, <1>3, <1>4 DEF Good, Frame, Shapes
<1> QED
  BY <1>1, <1>3, <1>4, <1>5

\* setuptools goes into the interpreter, if it is there.
LEMMA PinSetuptoolsDoes ==
  ASSUME Shapes, Jobs, NEW c \in Clients, PinSetuptools(c)
  PROVE  /\ Active(c) /\ Good(c)
         /\ UNCHANGED <<folder, rough, refused>>
         /\ pc[c] = "setuptools" /\ pc'[c] = "run" /\ job'[c] = job[c]
         /\ venv'[Version(c)] = IF venv[Version(c)] = Absent THEN Absent ELSE "all"
<1>1. /\ pc[c] = "setuptools" /\ Goto(c, "run") /\ UNCHANGED <<folder, own, rough, refused>>
      /\ Installed(Version(c), "all")
  BY DEF PinSetuptools, history
<1>2. pc[c] \in VenvLocs /\ "run" # "idle" /\ "all" \in Packages
  BY <1>1 DEF VenvLocs, Packages
<1>3. /\ Active(c)
      /\ pc' \in [Clients -> Locs] /\ job' \in [Clients -> Job] /\ Jobs'
      /\ pc'[c] = "run" /\ job'[c] = job[c]
      /\ \A k \in Clients \ {c} : pc'[k] = pc[k] /\ job'[k] = job[k]
  BY <1>1, <1>2, VenvGoes
<1>4. /\ venv' \in [Versions -> Packages \cup {Absent}]
      /\ venv'[Version(c)] = IF venv[Version(c)] = Absent THEN Absent ELSE "all"
      /\ \A w \in Versions : w # Version(c) => venv'[w] = venv[w]
  BY <1>1, <1>2, <1>3, HasPlace, VenvMoves
<1>5. Good(c)
  BY <1>1, <1>3, <1>4 DEF Good, Frame, Shapes
<1> QED
  BY <1>1, <1>3, <1>4, <1>5

\* A command of uv fails; what it leaves makes the version rough.
LEMMA VenvFailsDoes ==
  ASSUME Shapes, Jobs, NEW c \in Clients, VenvFails(c)
  PROVE  /\ Active(c) /\ Good(c)
         /\ UNCHANGED <<folder, venv, refused>>
         /\ pc[c] \in VenvLocs /\ pc'[c] = "idle"
         /\ venv[Version(c)] # Absent => Version(c) \in rough'
<1>1. pc[c] \in VenvLocs /\ Goto(c, "idle") /\ UNCHANGED <<folder, own, venv, refused>>
  BY DEF VenvFails, VenvLocs
<1>2. /\ Active(c)
      /\ pc' \in [Clients -> Locs] /\ job' \in [Clients -> Job] /\ Jobs'
      /\ pc'[c] = "idle"
      /\ \A k \in Clients \ {c} : pc'[k] = pc[k] /\ job'[k] = job[k]
  <2>1. "idle" \notin VenvLocs
    BY DEF VenvLocs
  <2> QED
    BY <1>1, <2>1, VenvGoes
<1>3. rough' \subseteq Versions /\ rough \subseteq rough' /\ (venv[Version(c)] # Absent => Version(c) \in rough')
  <2>1. CASE venv[Version(c)] # Absent
    BY <1>2, <2>1, RoughGrows DEF VenvFails
  <2>2. CASE venv[Version(c)] = Absent
    BY <2>2 DEF VenvFails, Shapes
  <2> QED
    BY <2>1, <2>2
<1>4. Good(c)
  BY <1>1, <1>2, <1>3 DEF Good, Frame, Shapes
<1> QED
  BY <1>1, <1>2, <1>3, <1>4

\* What was asked for is handed over.
LEMMA RunDoes ==
  ASSUME Shapes, Jobs, NEW c \in Clients, Run(c)
  PROVE  /\ Active(c) /\ Good(c)
         /\ UNCHANGED <<folder, venv, rough, refused>>
         /\ pc[c] = "run" /\ pc'[c] = "idle"
<1>1. pc[c] = "run" /\ Goto(c, "idle") /\ UNCHANGED <<folder, own, venv, rough, refused>>
  BY DEF Run, history
<1>2. /\ Active(c)
      /\ pc' \in [Clients -> Locs] /\ job' \in [Clients -> Job] /\ Jobs'
      /\ pc'[c] = "idle"
      /\ \A k \in Clients \ {c} : pc'[k] = pc[k] /\ job'[k] = job[k]
  <2>1. "idle" \notin VenvLocs
    BY DEF VenvLocs
  <2> QED
    BY <1>1, <2>1, VenvGoes
<1>3. Good(c)
  BY <1>1, <1>2 DEF Good, Frame, Shapes
<1> QED
  BY <1>1, <1>2, <1>3

\* A folder of the cache goes, or nothing: what it only links to is the user's.
LEMMA RemoveCachedDoes ==
  ASSUME Shapes, Jobs, NEW c \in Clients, RemoveCached(c)
  PROVE  /\ Active(c) /\ Good(c)
         /\ UNCHANGED <<venv, rough, refused>>
         /\ pc[c] = "remove" /\ pc'[c] = "idle"
         /\ folder'[Place(c)] = Absent \/ UNCHANGED folder
<1>1. pc[c] = "remove" /\ Goto(c, "idle") /\ UNCHANGED <<own, venv, rough, refused>>
  BY DEF RemoveCached, RemoveTree, InCache, history
<1>2. /\ Active(c)
      /\ pc' \in [Clients -> Locs] /\ job' \in [Clients -> Job] /\ Jobs'
      /\ pc'[c] = "idle"
      /\ \A k \in Clients \ {c} : pc'[k] = pc[k] /\ job'[k] = job[k]
  <2>1. "idle" \notin VenvLocs
    BY DEF VenvLocs
  <2> QED
    BY <1>1, <2>1, VenvGoes
<1>3. /\ folder' \in [Places -> Folder \cup {Absent}]
      /\ folder'[Place(c)] = Absent \/ UNCHANGED folder
      /\ \A q \in Places : q # Place(c) => folder'[q] = folder[q]
  <2>1. CASE UNCHANGED folder
    BY <2>1 DEF Shapes
  <2>2. CASE Gone(Place(c))
    BY <1>2, <2>2, HasPlace, FolderMoves DEF Gone
  <2> QED
    BY <2>1, <2>2 DEF RemoveCached, RemoveTree
<1>4. Good(c)
  BY <1>1, <1>2, <1>3 DEF Good, Frame, Shapes
<1> QED
  BY <1>1, <1>2, <1>3, <1>4

\* What is left of a folder that could not be removed is a folder.
LEMMA RemovalLeaves ==
  ASSUME Shapes, Jobs, NEW c \in Clients, Active(c), RemovalFails(c)
  PROVE  /\ folder' \in [Places -> Folder \cup {Absent}]
         /\ \A q \in Places : q # Place(c) => folder'[q] = folder[q]
         /\ rough' \subseteq Versions /\ rough \subseteq rough' /\ Version(c) \in rough'
         /\ UNCHANGED <<own, venv>>
<1>1. Place(c) \in Places
  BY HasPlace
<1>2. PICK left \in Leavings(c) : folder' = [folder EXCEPT ![Place(c)] = left]
  BY DEF RemovalFails
<1>3. folder[Place(c)] \in Folder
  BY <1>1 DEF RemovalFails, Shapes
<1>4. left \in Folder
  BY <1>2, <1>3 DEF Leavings, Folder, Written
<1>5. rough' \subseteq Versions /\ rough \subseteq rough' /\ Version(c) \in rough'
  BY RoughGrows DEF RemovalFails
<1> QED
  BY <1>1, <1>2, <1>4, <1>5, FolderMoves DEF RemovalFails

\* OpenUpgrade's folder stays, some of it, and git is tried.
LEMMA ClearFailsDoes ==
  ASSUME Shapes, Jobs, NEW c \in Clients, ClearFails(c)
  PROVE  /\ Active(c) /\ Good(c)
         /\ UNCHANGED <<venv, refused>> /\ Version(c) \in rough'
         /\ pc[c] = "clear" /\ pc'[c] = "clone"
<1>1. /\ pc[c] = "clear" /\ Active(c) /\ RemovalFails(c) /\ UNCHANGED refused
      /\ pc' = [pc EXCEPT ![c] = "clone"] /\ job' = [job EXCEPT ![c].disturbed = TRUE]
  BY DEF ClearFails, Active
<1>2. "clone" \in Locs /\ "clone" \in CloneLocs /\ "clone" \notin VenvLocs /\ pc[c] \in CloneLocs
  BY <1>1 DEF Locs, CloneLocs, VenvLocs
<1>3. job[c] \in Job /\ [job[c] EXCEPT !.disturbed = TRUE] \in Job
  BY DEF Shapes, Job
<1>4. pc' \in [Clients -> Locs] /\ job' \in [Clients -> Job]
  BY <1>1, <1>2, <1>3 DEF Shapes
<1>5. /\ pc'[c] = "clone" /\ job'[c].disturbed = TRUE
      /\ job'[c].place = job[c].place /\ job'[c].root = job[c].root
      /\ \A k \in Clients \ {c} : pc'[k] = pc[k] /\ job'[k] = job[k]
  BY <1>1, <1>3 DEF Shapes, Job
<1>6. Jobs'
  <2> SUFFICES ASSUME NEW k \in Clients
               PROVE  /\ pc'[k] = "idle" => job'[k] = NoJob
                      /\ pc'[k] # "idle" => job'[k].place \in Places
                      /\ pc'[k] \in CloneLocs => job'[k].root = Absent
                      /\ pc'[k] \in VenvLocs => job'[k].place[1] = "odoo" /\ job'[k].root # Absent
    BY DEF Jobs, CloneLocs, VenvLocs
  <2>1. CASE k # c
    BY <1>5, <2>1 DEF Jobs
  <2>2. CASE k = c
    BY <1>1, <1>2, <1>5, <2>2 DEF Jobs
  <2> QED
    BY <2>1, <2>2
<1>7. /\ folder' \in [Places -> Folder \cup {Absent}]
      /\ \A q \in Places : q # Place(c) => folder'[q] = folder[q]
      /\ rough' \subseteq Versions /\ rough \subseteq rough' /\ Version(c) \in rough'
      /\ UNCHANGED <<own, venv>>
  BY <1>1, RemovalLeaves
<1>8. Good(c)
  BY <1>1, <1>4, <1>5, <1>6, <1>7 DEF Good, Frame, Shapes
<1> QED
  BY <1>1, <1>5, <1>7, <1>8

\* What a failed clone left stays, some of it; nothing is counted.
LEMMA CleanupFailsDoes ==
  ASSUME Shapes, Jobs, NEW c \in Clients, CleanupFails(c)
  PROVE  /\ Active(c) /\ Good(c)
         /\ UNCHANGED venv /\ Version(c) \in rough'
         /\ pc[c] = "cleanup" /\ pc'[c] = "idle" /\ refused'[Place(c)] = 0
<1>1. /\ pc[c] = "cleanup" /\ Active(c) /\ RemovalFails(c) /\ Goto(c, "idle")
      /\ refused' = [refused EXCEPT ![Place(c)] = 0]
  BY DEF CleanupFails, Active
<1>2. /\ pc' \in [Clients -> Locs] /\ job' \in [Clients -> Job] /\ Jobs'
      /\ pc'[c] = "idle"
      /\ \A k \in Clients \ {c} : pc'[k] = pc[k] /\ job'[k] = job[k]
  <2>1. "idle" \in Locs /\ "idle" \notin VenvLocs /\ "idle" \notin CloneLocs
    BY DEF Locs, CloneLocs, VenvLocs
  <2> QED
    BY <1>1, <2>1, GotoMoves
<1>3. /\ refused' \in [Places -> Nat] /\ refused'[Place(c)] = 0
      /\ \A p \in Places : p # Place(c) => refused'[p] = refused[p]
  BY <1>1, HasPlace DEF Shapes
<1>4. /\ folder' \in [Places -> Folder \cup {Absent}]
      /\ \A q \in Places : q # Place(c) => folder'[q] = folder[q]
      /\ rough' \subseteq Versions /\ rough \subseteq rough' /\ Version(c) \in rough'
      /\ UNCHANGED <<own, venv>>
  BY <1>1, RemovalLeaves
<1>5. Good(c)
  BY <1>1, <1>2, <1>3, <1>4 DEF Good, Frame, Shapes
<1> QED
  BY <1>1, <1>2, <1>3, <1>4, <1>5

\* A cached copy stays, some of it.
LEMMA RemoveCachedFailsDoes ==
  ASSUME Shapes, Jobs, NEW c \in Clients, RemoveCachedFails(c)
  PROVE  /\ Active(c) /\ Good(c)
         /\ UNCHANGED <<venv, refused>> /\ Version(c) \in rough'
         /\ pc[c] = "remove" /\ pc'[c] = "idle"
         /\ folder[Place(c)] # Absent
<1>1. /\ pc[c] = "remove" /\ RemovalFails(c) /\ Goto(c, "idle") /\ UNCHANGED refused
      /\ folder[Place(c)] # Absent
  BY DEF RemoveCachedFails, RemovalFails
<1>2. /\ Active(c)
      /\ pc' \in [Clients -> Locs] /\ job' \in [Clients -> Job] /\ Jobs'
      /\ pc'[c] = "idle"
      /\ \A k \in Clients \ {c} : pc'[k] = pc[k] /\ job'[k] = job[k]
  <2>1. "idle" \notin VenvLocs
    BY DEF VenvLocs
  <2> QED
    BY <1>1, <2>1, VenvGoes
<1>3. /\ folder' \in [Places -> Folder \cup {Absent}]
      /\ \A q \in Places : q # Place(c) => folder'[q] = folder[q]
      /\ rough' \subseteq Versions /\ rough \subseteq rough' /\ Version(c) \in rough'
      /\ UNCHANGED <<own, venv>>
  BY <1>1, <1>2, RemovalLeaves
<1>4. Good(c)
  BY <1>1, <1>2, <1>3 DEF Good, Frame, Shapes
<1> QED
  BY <1>1, <1>2, <1>3, <1>4

-------------------------------------------------------------------------------
(* What a step leaves behind at its own folder and version *)

Fills   == {"readRequirements", "install", "setuptools"}
Clones  == {"cloning", "cleanup"}

LeavesFolder(c) ==
  \/ Version(c) \in rough'
  \/ folder'[Place(c)] = Absent
  \/ folder'[Place(c)] # Absent /\ folder'[Place(c)].at = "whole"
  \/ pc'[c] = "cloning"
  \/ folder'[Place(c)] = folder[Place(c)] /\ (pc[c] \in Clones => pc'[c] \in Clones)

LeavesFound(c) ==
  pc'[c] \in VenvLocs \cup {"run"} /\ job'[c].root = "cache" /\ Version(c) \notin rough' =>
    folder'[Place(c)] # Absent /\ folder'[Place(c)].at = "whole"

LeavesVenv(c) ==
  \/ Version(c) \in rough'
  \/ venv'[Version(c)] \in {Absent, "all"}
  \/ pc'[c] \in Fills
  \/ venv'[Version(c)] = venv[Version(c)] /\ pc[c] \notin Fills

LeavesFilled(c) ==
  pc'[c] # "idle" /\ Version(c) \notin rough' =>
    /\ pc'[c] \in {"python", "makeVenv"} => venv'[Version(c)] = Absent
    /\ pc'[c] \in {"readRequirements", "install"} => venv'[Version(c)] = "none"
    /\ pc'[c] = "setuptools" => venv'[Version(c)] = "requirements"
    /\ pc'[c] = "run" /\ Place(c)[1] = "odoo" /\ venv'[Version(c)] = Absent =>
         Machine[Version(c)] = "venv"

LeavesRefused(c) ==
  /\ refused'[Place(c)] <= 1
  /\ refused'[Place(c)] = 1 =>
       \/ folder'[Place(c)] = Absent
       \/ pc'[c] = "cloning"
       \/ pc'[c] = "cleanup" /\ job'[c].disturbed
       \/ /\ refused[Place(c)] = 1 /\ (folder'[Place(c)] # Absent => folder[Place(c)] # Absent)
          /\ pc[c] \notin Clones
  /\ pc'[c] = "cleanup" /\ ~job'[c].disturbed => refused'[Place(c)] = 0

Leaves(c) ==
  LeavesFolder(c) /\ LeavesFound(c) /\ LeavesVenv(c) /\ LeavesFilled(c) /\ LeavesRefused(c)

\* Who is at a version that is not rough is alone there.
LEMMA AloneAtVersion ==
  ASSUME Turns, NEW c \in Clients, NEW k \in Clients, Active(c), Active(k),
         Version(c) = Version(k), Version(c) \notin rough
  PROVE  k = c
BY DEF Turns

\* So what it finds in the cache is whole, unless it is what it works at itself.
LEMMA ResolvesWhole ==
  ASSUME Shapes, Jobs, Turns, Unfinished, NEW c \in Clients, Active(c), pc[c] \notin Clones,
         Version(c) \notin rough, folder[Place(c)] # Absent
  PROVE  Whole(Place(c))
<1> SUFFICES ASSUME ~Whole(Place(c)) PROVE FALSE
  OBVIOUS
<1>1. Place(c) \in Places /\ Place(c)[2] = Version(c)
  BY HasPlace DEF Place, Version
<1>2. PICK k \in Clients : pc[k] \in {"cloning", "cleanup"} /\ Place(k) = Place(c)
  BY <1>1 DEF Unfinished
<1>3. Active(k) /\ Version(k) = Version(c)
  BY <1>2 DEF Active, Place, Version
<1> QED
  BY <1>2, <1>3, AloneAtVersion DEF Clones

\* And the interpreter it finds is whole or absent.
LEMMA FindsVenv ==
  ASSUME Shapes, Jobs, Turns, Filling, NEW c \in Clients, Active(c), pc[c] \notin Fills,
         Version(c) \notin rough
  PROVE  venv[Version(c)] \in {Absent, "all"}
<1> SUFFICES ASSUME venv[Version(c)] \notin {Absent, "all"} PROVE FALSE
  OBVIOUS
<1>1. PICK k \in Clients :
        pc[k] \in {"readRequirements", "install", "setuptools"} /\ Version(k) = Version(c)
  BY HasPlace DEF Filling
<1>2. Active(k)
  BY <1>1 DEF Active
<1> QED
  BY <1>1, <1>2, AloneAtVersion DEF Fills

\* Resolve leaves its folder and version as it should.
LEMMA ResolveLeaves ==
  ASSUME Care, NEW c \in Clients, Resolve(c)
  PROVE  Good(c) /\ Active(c) /\ Leaves(c)
<1> USE DEF Care
<1>0. Good(c) /\ Active(c) /\ Place(c) \in Places /\ Version(c) \in Versions
  BY ResolveDoes, HasPlace
<1>1. LeavesFolder(c)
  BY ResolveDoes DEF LeavesFolder, Clones, VenvLocs
<1>2. LeavesFound(c)
  <2>1. CASE Resolves(Place(c)) /\ Version(c) \notin rough'
    <3>1. Whole(Place(c))
      BY <1>0, <2>1, ResolveDoes, ResolvesWhole DEF Resolves, Resolve, Clones
    <3> QED
      BY <3>1, ResolveDoes DEF LeavesFound, Whole
  <2>2. CASE ~Resolves(Place(c)) \/ Version(c) \in rough'
    BY <2>2, ResolveDoes DEF LeavesFound, VenvLocs
  <2> QED
    BY <2>1, <2>2
<1>3. LeavesVenv(c)
  BY ResolveDoes DEF LeavesVenv, Fills
<1>4. LeavesFilled(c)
  BY ResolveDoes DEF LeavesFilled, HasVenv, Place, Version
<1>5. LeavesRefused(c)
  BY <1>0, ResolveDoes DEF LeavesRefused, Refusals, Clones, VenvLocs
<1> QED
  BY <1>0, <1>1, <1>2, <1>3, <1>4, <1>5 DEF Leaves

\* Clear leaves its folder and version as it should.
LEMMA ClearLeaves ==
  ASSUME Care, NEW c \in Clients, Clear(c)
  PROVE  Good(c) /\ Active(c) /\ Leaves(c)
<1> USE DEF Care
<1>0. Good(c) /\ Active(c) /\ Place(c) \in Places /\ Version(c) \in Versions
  BY ClearDoes, HasPlace
<1>1. LeavesFolder(c)
  BY ClearDoes DEF LeavesFolder, Clones, VenvLocs
<1>2. LeavesFound(c)
  BY ClearDoes DEF LeavesFound, VenvLocs
<1>3. LeavesVenv(c)
  BY ClearDoes DEF LeavesVenv, Fills
<1>4. LeavesFilled(c)
  BY ClearDoes DEF LeavesFilled
<1>5. LeavesRefused(c)
  BY <1>0, ClearDoes DEF LeavesRefused, Refusals, Clones, VenvLocs
<1> QED
  BY <1>0, <1>1, <1>2, <1>3, <1>4, <1>5 DEF Leaves

\* Clone leaves its folder and version as it should.
LEMMA CloneLeaves ==
  ASSUME Care, NEW c \in Clients, Clone(c)
  PROVE  Good(c) /\ Active(c) /\ Leaves(c)
<1> USE DEF Care
<1>0. Good(c) /\ Active(c) /\ Place(c) \in Places /\ Version(c) \in Versions
  BY CloneDoes, HasPlace
<1>1. LeavesFolder(c)
  BY CloneDoes DEF LeavesFolder, Clones, VenvLocs
<1>2. LeavesFound(c)
  BY CloneDoes DEF LeavesFound, VenvLocs
<1>3. LeavesVenv(c)
  BY CloneDoes DEF LeavesVenv, Fills
<1>4. LeavesFilled(c)
  BY CloneDoes DEF LeavesFilled
<1>5. LeavesRefused(c)
  <2>1. CASE pc'[c] = "cloning"
    BY <1>0, <2>1, CloneDoes DEF LeavesRefused, Refusals
  <2>2. CASE folder[Place(c)] # Absent /\ pc'[c] = "cleanup" /\ UNCHANGED folder
    <3>1. ASSUME ~job[c].disturbed PROVE refused[Place(c)] = 0
      <4>1. CASE refused[Place(c)] = 1
        <5>1. PICK k \in Clients : pc[k] \in {"cloning", "cleanup"} /\ Place(k) = Place(c)
          BY <1>0, <2>2, <4>1 DEF Refusals
        <5>2. Active(k) /\ k # c
          BY <5>1, CloneDoes DEF Active
        <5> QED
          BY <1>0, <3>1, <5>1, <5>2 DEF Undisturbed
      <4>2. CASE refused[Place(c)] # 1
        BY <1>0, <4>2 DEF Refusals, Shapes
      <4> QED
        BY <4>1, <4>2
    <3> QED
      BY <1>0, <2>2, <3>1, CloneDoes DEF LeavesRefused, Refusals, Clones
  <2> QED
    BY <2>1, <2>2, CloneDoes
<1> QED
  BY <1>0, <1>1, <1>2, <1>3, <1>4, <1>5 DEF Leaves

\* Write leaves its folder and version as it should.
LEMMA WriteLeaves ==
  ASSUME Care, NEW c \in Clients, Write(c)
  PROVE  Good(c) /\ Active(c) /\ Leaves(c)
<1> USE DEF Care
<1>0. Good(c) /\ Active(c) /\ Place(c) \in Places /\ Version(c) \in Versions
  BY WriteDoes, HasPlace
<1>1. LeavesFolder(c)
  BY WriteDoes DEF LeavesFolder, Clones, VenvLocs
<1>2. LeavesFound(c)
  BY WriteDoes DEF LeavesFound, VenvLocs
<1>3. LeavesVenv(c)
  BY WriteDoes DEF LeavesVenv, Fills
<1>4. LeavesFilled(c)
  BY WriteDoes DEF LeavesFilled
<1>5. LeavesRefused(c)
  BY <1>0, WriteDoes DEF LeavesRefused, Refusals, Clones, VenvLocs
<1> QED
  BY <1>0, <1>1, <1>2, <1>3, <1>4, <1>5 DEF Leaves

\* Cloned leaves its folder and version as it should.
LEMMA ClonedLeaves ==
  ASSUME Care, NEW c \in Clients, Cloned(c)
  PROVE  Good(c) /\ Active(c) /\ Leaves(c)
<1> USE DEF Care
<1>0. Good(c) /\ Active(c) /\ Place(c) \in Places /\ Version(c) \in Versions
  BY ClonedDoes, HasPlace
<1>1. LeavesFolder(c)
  BY ClonedDoes DEF LeavesFolder, Clones, VenvLocs
<1>2. LeavesFound(c)
  BY ClonedDoes DEF LeavesFound, VenvLocs
<1>3. LeavesVenv(c)
  BY ClonedDoes DEF LeavesVenv, Fills
<1>4. LeavesFilled(c)
  BY ClonedDoes DEF LeavesFilled
<1>5. LeavesRefused(c)
  BY <1>0, ClonedDoes DEF LeavesRefused, Refusals, Clones, VenvLocs
<1> QED
  BY <1>0, <1>1, <1>2, <1>3, <1>4, <1>5 DEF Leaves

\* CloneFails leaves its folder and version as it should.
LEMMA CloneFailsLeaves ==
  ASSUME Care, NEW c \in Clients, CloneFails(c)
  PROVE  Good(c) /\ Active(c) /\ Leaves(c)
<1> USE DEF Care
<1>0. Good(c) /\ Active(c) /\ Place(c) \in Places /\ Version(c) \in Versions
  BY CloneFailsDoes, HasPlace
<1>1. LeavesFolder(c)
  BY CloneFailsDoes DEF LeavesFolder, Clones, VenvLocs
<1>2. LeavesFound(c)
  BY CloneFailsDoes DEF LeavesFound, VenvLocs
<1>3. LeavesVenv(c)
  BY CloneFailsDoes DEF LeavesVenv, Fills
<1>4. LeavesFilled(c)
  BY CloneFailsDoes DEF LeavesFilled
<1>5. LeavesRefused(c)
  BY <1>0, CloneFailsDoes DEF LeavesRefused, Refusals, Clones, VenvLocs
<1> QED
  BY <1>0, <1>1, <1>2, <1>3, <1>4, <1>5 DEF Leaves

\* Cleanup leaves its folder and version as it should.
LEMMA CleanupLeaves ==
  ASSUME Care, NEW c \in Clients, Cleanup(c)
  PROVE  Good(c) /\ Active(c) /\ Leaves(c)
<1> USE DEF Care
<1>0. Good(c) /\ Active(c) /\ Place(c) \in Places /\ Version(c) \in Versions
  BY CleanupDoes, HasPlace
<1>1. LeavesFolder(c)
  BY CleanupDoes DEF LeavesFolder, Clones, VenvLocs
<1>2. LeavesFound(c)
  BY CleanupDoes DEF LeavesFound, VenvLocs
<1>3. LeavesVenv(c)
  BY CleanupDoes DEF LeavesVenv, Fills
<1>4. LeavesFilled(c)
  BY CleanupDoes DEF LeavesFilled
<1>5. LeavesRefused(c)
  BY <1>0, CleanupDoes DEF LeavesRefused, Refusals
<1> QED
  BY <1>0, <1>1, <1>2, <1>3, <1>4, <1>5 DEF Leaves

\* LookVenv leaves its folder and version as it should.
LEMMA LookVenvLeaves ==
  ASSUME Care, NEW c \in Clients, LookVenv(c)
  PROVE  Good(c) /\ Active(c) /\ Leaves(c)
<1> USE DEF Care
<1>0. Good(c) /\ Active(c) /\ Place(c) \in Places /\ Version(c) \in Versions
  BY LookVenvDoes, HasPlace
<1>1. LeavesFolder(c)
  BY LookVenvDoes DEF LeavesFolder, Clones, VenvLocs
<1>2. LeavesFound(c)
  BY LookVenvDoes DEF LeavesFound, VenvLocs, FoundWhole, Whole
<1>3. LeavesVenv(c)
  BY LookVenvDoes DEF LeavesVenv, Fills
<1>4. LeavesFilled(c)
  BY LookVenvDoes DEF LeavesFilled
<1>5. LeavesRefused(c)
  BY <1>0, LookVenvDoes DEF LeavesRefused, Refusals, Clones, VenvLocs
<1> QED
  BY <1>0, <1>1, <1>2, <1>3, <1>4, <1>5 DEF Leaves

\* EnsurePython leaves its folder and version as it should.
LEMMA EnsurePythonLeaves ==
  ASSUME Care, NEW c \in Clients, EnsurePython(c)
  PROVE  Good(c) /\ Active(c) /\ Leaves(c)
<1> USE DEF Care
<1>0. Good(c) /\ Active(c) /\ Place(c) \in Places /\ Version(c) \in Versions
  BY EnsurePythonDoes, HasPlace
<1>1. LeavesFolder(c)
  BY EnsurePythonDoes DEF LeavesFolder, Clones, VenvLocs
<1>2. LeavesFound(c)
  BY EnsurePythonDoes DEF LeavesFound, VenvLocs, FoundWhole, Whole
<1>3. LeavesVenv(c)
  BY EnsurePythonDoes DEF LeavesVenv, Fills
<1>4. LeavesFilled(c)
  BY <1>0, EnsurePythonDoes DEF Good, Frame,  LeavesFilled, Filled, Active
<1>5. LeavesRefused(c)
  BY <1>0, EnsurePythonDoes DEF LeavesRefused, Refusals, Clones, VenvLocs
<1> QED
  BY <1>0, <1>1, <1>2, <1>3, <1>4, <1>5 DEF Leaves

\* MakeVenv leaves its folder and version as it should.
LEMMA MakeVenvLeaves ==
  ASSUME Care, NEW c \in Clients, MakeVenv(c)
  PROVE  Good(c) /\ Active(c) /\ Leaves(c)
<1> USE DEF Care
<1>0. Good(c) /\ Active(c) /\ Place(c) \in Places /\ Version(c) \in Versions
  BY MakeVenvDoes, HasPlace
<1>1. LeavesFolder(c)
  BY MakeVenvDoes DEF LeavesFolder, Clones, VenvLocs
<1>2. LeavesFound(c)
  BY MakeVenvDoes DEF LeavesFound, VenvLocs, FoundWhole, Whole
<1>3. LeavesVenv(c)
  BY MakeVenvDoes DEF LeavesVenv, Fills
<1>4. LeavesFilled(c)
  BY MakeVenvDoes DEF LeavesFilled
<1>5. LeavesRefused(c)
  BY <1>0, MakeVenvDoes DEF LeavesRefused, Refusals, Clones, VenvLocs
<1> QED
  BY <1>0, <1>1, <1>2, <1>3, <1>4, <1>5 DEF Leaves

\* ReadRequirements leaves its folder and version as it should.
LEMMA ReadRequirementsLeaves ==
  ASSUME Care, NEW c \in Clients, ReadRequirements(c)
  PROVE  Good(c) /\ Active(c) /\ Leaves(c)
<1> USE DEF Care
<1>0. Good(c) /\ Active(c) /\ Place(c) \in Places /\ Version(c) \in Versions
  BY ReadRequirementsDoes, HasPlace
<1>1. LeavesFolder(c)
  BY ReadRequirementsDoes DEF LeavesFolder, Clones, VenvLocs
<1>2. LeavesFound(c)
  BY <1>0, ReadRequirementsDoes DEF LeavesFound, VenvLocs, FoundWhole, Whole, Good, Frame
<1>3. LeavesVenv(c)
  BY ReadRequirementsDoes DEF LeavesVenv, Fills
<1>4. LeavesFilled(c)
  BY <1>0, ReadRequirementsDoes DEF Good, Frame,  LeavesFilled, Filled, Active
<1>5. LeavesRefused(c)
  BY <1>0, ReadRequirementsDoes DEF LeavesRefused, Refusals, Clones, VenvLocs
<1> QED
  BY <1>0, <1>1, <1>2, <1>3, <1>4, <1>5 DEF Leaves

\* InstallRequirements leaves its folder and version as it should.
LEMMA InstallRequirementsLeaves ==
  ASSUME Care, NEW c \in Clients, InstallRequirements(c)
  PROVE  Good(c) /\ Active(c) /\ Leaves(c)
<1> USE DEF Care
<1>0. Good(c) /\ Active(c) /\ Place(c) \in Places /\ Version(c) \in Versions
  BY InstallRequirementsDoes, HasPlace
<1>1. LeavesFolder(c)
  BY InstallRequirementsDoes DEF LeavesFolder, Clones, VenvLocs
<1>2. LeavesFound(c)
  BY InstallRequirementsDoes DEF LeavesFound, VenvLocs, FoundWhole, Whole
<1>3. LeavesVenv(c)
  BY InstallRequirementsDoes DEF LeavesVenv, Fills
<1>4. LeavesFilled(c)
  BY InstallRequirementsDoes, RuntimesAssumption DEF LeavesFilled, Filled, Active
<1>5. LeavesRefused(c)
  BY <1>0, InstallRequirementsDoes DEF LeavesRefused, Refusals, Clones, VenvLocs
<1> QED
  BY <1>0, <1>1, <1>2, <1>3, <1>4, <1>5 DEF Leaves

\* PinSetuptools leaves its folder and version as it should.
LEMMA PinSetuptoolsLeaves ==
  ASSUME Care, NEW c \in Clients, PinSetuptools(c)
  PROVE  Good(c) /\ Active(c) /\ Leaves(c)
<1> USE DEF Care
<1>0. Good(c) /\ Active(c) /\ Place(c) \in Places /\ Version(c) \in Versions
  BY PinSetuptoolsDoes, HasPlace
<1>1. LeavesFolder(c)
  BY PinSetuptoolsDoes DEF LeavesFolder, Clones, VenvLocs
<1>2. LeavesFound(c)
  BY PinSetuptoolsDoes DEF LeavesFound, VenvLocs, FoundWhole, Whole
<1>3. LeavesVenv(c)
  BY PinSetuptoolsDoes DEF LeavesVenv, Fills
<1>4. LeavesFilled(c)
  BY PinSetuptoolsDoes, RuntimesAssumption DEF LeavesFilled, Filled, Active
<1>5. LeavesRefused(c)
  BY <1>0, PinSetuptoolsDoes DEF LeavesRefused, Refusals, Clones, VenvLocs
<1> QED
  BY <1>0, <1>1, <1>2, <1>3, <1>4, <1>5 DEF Leaves

\* VenvFails leaves its folder and version as it should.
LEMMA VenvFailsLeaves ==
  ASSUME Care, NEW c \in Clients, VenvFails(c)
  PROVE  Good(c) /\ Active(c) /\ Leaves(c)
<1> USE DEF Care
<1>0. Good(c) /\ Active(c) /\ Place(c) \in Places /\ Version(c) \in Versions
  BY VenvFailsDoes, HasPlace
<1>1. LeavesFolder(c)
  BY VenvFailsDoes DEF LeavesFolder, Clones, VenvLocs
<1>2. LeavesFound(c)
  BY VenvFailsDoes DEF LeavesFound, VenvLocs
<1>3. LeavesVenv(c)
  BY VenvFailsDoes DEF LeavesVenv, Fills
<1>4. LeavesFilled(c)
  BY VenvFailsDoes DEF LeavesFilled
<1>5. LeavesRefused(c)
  BY <1>0, VenvFailsDoes DEF LeavesRefused, Refusals, Clones, VenvLocs
<1> QED
  BY <1>0, <1>1, <1>2, <1>3, <1>4, <1>5 DEF Leaves

\* Run leaves its folder and version as it should.
LEMMA RunLeaves ==
  ASSUME Care, NEW c \in Clients, Run(c)
  PROVE  Good(c) /\ Active(c) /\ Leaves(c)
<1> USE DEF Care
<1>0. Good(c) /\ Active(c) /\ Place(c) \in Places /\ Version(c) \in Versions
  BY RunDoes, HasPlace
<1>1. LeavesFolder(c)
  BY RunDoes DEF LeavesFolder, Clones, VenvLocs
<1>2. LeavesFound(c)
  BY RunDoes DEF LeavesFound, VenvLocs
<1>3. LeavesVenv(c)
  BY RunDoes DEF LeavesVenv, Fills
<1>4. LeavesFilled(c)
  BY RunDoes DEF LeavesFilled
<1>5. LeavesRefused(c)
  BY <1>0, RunDoes DEF LeavesRefused, Refusals, Clones, VenvLocs
<1> QED
  BY <1>0, <1>1, <1>2, <1>3, <1>4, <1>5 DEF Leaves

\* RemoveCached leaves its folder and version as it should.
LEMMA RemoveCachedLeaves ==
  ASSUME Care, NEW c \in Clients, RemoveCached(c)
  PROVE  Good(c) /\ Active(c) /\ Leaves(c)
<1> USE DEF Care
<1>0. Good(c) /\ Active(c) /\ Place(c) \in Places /\ Version(c) \in Versions
  BY RemoveCachedDoes, HasPlace
<1>1. LeavesFolder(c)
  BY RemoveCachedDoes DEF LeavesFolder, Clones, VenvLocs
<1>2. LeavesFound(c)
  BY RemoveCachedDoes DEF LeavesFound, VenvLocs
<1>3. LeavesVenv(c)
  BY RemoveCachedDoes DEF LeavesVenv, Fills
<1>4. LeavesFilled(c)
  BY RemoveCachedDoes DEF LeavesFilled
<1>5. LeavesRefused(c)
  BY <1>0, RemoveCachedDoes DEF LeavesRefused, Refusals, Clones, VenvLocs
<1> QED
  BY <1>0, <1>1, <1>2, <1>3, <1>4, <1>5 DEF Leaves

\* ClearFails leaves its folder and version as it should.
LEMMA ClearFailsLeaves ==
  ASSUME Care, NEW c \in Clients, ClearFails(c)
  PROVE  Good(c) /\ Active(c) /\ Leaves(c)
<1> USE DEF Care
<1>0. Good(c) /\ Active(c) /\ Place(c) \in Places /\ Version(c) \in Versions
  BY ClearFailsDoes, HasPlace
<1>1. LeavesFolder(c)
  BY ClearFailsDoes DEF LeavesFolder
<1>2. LeavesFound(c)
  BY ClearFailsDoes DEF LeavesFound
<1>3. LeavesVenv(c)
  BY ClearFailsDoes DEF LeavesVenv
<1>4. LeavesFilled(c)
  BY ClearFailsDoes DEF LeavesFilled
<1>5. LeavesRefused(c)
  BY <1>0, ClearFailsDoes DEF LeavesRefused, Refusals, Clones, VenvLocs, ClearFails, RemovalFails
<1> QED
  BY <1>0, <1>1, <1>2, <1>3, <1>4, <1>5 DEF Leaves

\* CleanupFails leaves its folder and version as it should.
LEMMA CleanupFailsLeaves ==
  ASSUME Care, NEW c \in Clients, CleanupFails(c)
  PROVE  Good(c) /\ Active(c) /\ Leaves(c)
<1> USE DEF Care
<1>0. Good(c) /\ Active(c) /\ Place(c) \in Places /\ Version(c) \in Versions
  BY CleanupFailsDoes, HasPlace
<1>1. LeavesFolder(c)
  BY CleanupFailsDoes DEF LeavesFolder
<1>2. LeavesFound(c)
  BY CleanupFailsDoes DEF LeavesFound
<1>3. LeavesVenv(c)
  BY CleanupFailsDoes DEF LeavesVenv
<1>4. LeavesFilled(c)
  BY CleanupFailsDoes DEF LeavesFilled
<1>5. LeavesRefused(c)
  BY <1>0, CleanupFailsDoes DEF LeavesRefused, Refusals, Clones, VenvLocs
<1> QED
  BY <1>0, <1>1, <1>2, <1>3, <1>4, <1>5 DEF Leaves

\* RemoveCachedFails leaves its folder and version as it should.
LEMMA RemoveCachedFailsLeaves ==
  ASSUME Care, NEW c \in Clients, RemoveCachedFails(c)
  PROVE  Good(c) /\ Active(c) /\ Leaves(c)
<1> USE DEF Care
<1>0. Good(c) /\ Active(c) /\ Place(c) \in Places /\ Version(c) \in Versions
  BY RemoveCachedFailsDoes, HasPlace
<1>1. LeavesFolder(c)
  BY RemoveCachedFailsDoes DEF LeavesFolder
<1>2. LeavesFound(c)
  BY RemoveCachedFailsDoes DEF LeavesFound
<1>3. LeavesVenv(c)
  BY RemoveCachedFailsDoes DEF LeavesVenv
<1>4. LeavesFilled(c)
  BY RemoveCachedFailsDoes DEF LeavesFilled
<1>5. LeavesRefused(c)
  BY <1>0, RemoveCachedFailsDoes DEF LeavesRefused, Refusals, Clones, VenvLocs
<1> QED
  BY <1>0, <1>1, <1>2, <1>3, <1>4, <1>5 DEF Leaves

-------------------------------------------------------------------------------
(* The invariant after a step, from what the step leaves and what it leaves alone *)

\* Every step of a call does.
LEMMA StepIsGood ==
  ASSUME Care, NEW c \in Clients, Step(c)
  PROVE  Good(c) /\ Active(c) /\ Leaves(c)
BY ResolveLeaves, ClearLeaves, CloneLeaves, WriteLeaves, ClonedLeaves, CloneFailsLeaves, CleanupLeaves,
   LookVenvLeaves, EnsurePythonLeaves, MakeVenvLeaves, ReadRequirementsLeaves, InstallRequirementsLeaves,
   PinSetuptoolsLeaves, VenvFailsLeaves, RunLeaves, RemoveCachedLeaves,
   ClearFailsLeaves, CleanupFailsLeaves, RemoveCachedFailsLeaves
   DEF Step

\* And that is all the invariant needs.
LEMMA StepCares ==
  ASSUME Care, NEW c \in Clients, Good(c), Active(c), Leaves(c)
  PROVE  Care'
<1> USE DEF Care
<1>1. Shapes' /\ Jobs' /\ Frame(c)
  BY DEF Good
<1>2. Place(c) \in Places /\ Version(c) \in Versions /\ Place(c)[2] = Version(c)
  BY HasPlace DEF Place, Version
<1>3. \A k \in Clients : Active(k)' =>
        Active(k) /\ Place(k)' = Place(k) /\ Version(k)' = Version(k)
  BY <1>1 DEF Frame, Active, Place, Version
<1>4. \A k \in Clients : Active(k) => Place(k) \in Places /\ Version(k) \in Versions
  BY HasPlace
<1>5. rough \subseteq rough'
  BY <1>1 DEF Frame
<1>6. Turns'
  <2> SUFFICES ASSUME NEW a \in Clients, NEW k \in Clients,
                      a # k, Active(a)', Active(k)', Version(a)' = Version(k)'
               PROVE  Version(a)' \in rough'
    BY DEF Turns
  <2> QED
    BY <1>3, <1>5 DEF Turns
<1>7. Undisturbed'
  <2> SUFFICES ASSUME NEW a \in Clients, NEW k \in Clients,
                      a # k, Active(a)', Active(k)', Place(a)' = Place(k)'
               PROVE  job'[a].disturbed
    BY DEF Undisturbed
  <2>1. job[a].disturbed
    BY <1>3 DEF Undisturbed
  <2> QED
    BY <1>1, <2>1 DEF Frame, Active
\* Whoever is at the same version is on record, so the others are elsewhere.
<1>8. \A k \in Clients \ {c} : Active(k) /\ Version(k) \notin rough' => Version(k) # Version(c)
  BY <1>5 DEF Turns
<1>9. Unfinished'
  <2> SUFFICES ASSUME NEW p \in Places, p[2] \notin rough', folder'[p] # Absent, folder'[p].at # "whole"
               PROVE  \E k \in Clients : pc'[k] \in {"cloning", "cleanup"} /\ Place(k)' = p
    BY DEF Unfinished, Whole
  <2>1. CASE p # Place(c)
    <3>1. folder'[p] = folder[p]
      BY <1>1, <2>1 DEF Frame
    <3>2. PICK k \in Clients : pc[k] \in {"cloning", "cleanup"} /\ Place(k) = p
      BY <1>5, <3>1 DEF Unfinished, Whole
    <3>3. k # c /\ pc'[k] = pc[k] /\ Place(k)' = Place(k)
      BY <1>1, <2>1, <3>2 DEF Frame, Place
    <3> QED
      BY <3>2, <3>3
  <2>2. CASE p = Place(c)
    <3>1. CASE pc'[c] = "cloning"
      BY <1>3, <2>2, <3>1 DEF Active
    <3>2. CASE folder'[p] = folder[p] /\ (pc[c] \in Clones => pc'[c] \in Clones)
      <4>1. PICK k \in Clients : pc[k] \in {"cloning", "cleanup"} /\ Place(k) = p
        BY <1>5, <3>2 DEF Unfinished, Whole
      <4>2. k = c
        <5>1. Version(c) \notin rough /\ Version(k) = Version(c) /\ Active(k)
          BY <1>2, <1>5, <2>2, <4>1 DEF Active, Place, Version
        <5> QED
          BY <5>1, AloneAtVersion
      <4> QED
        BY <1>3, <2>2, <3>2, <4>1, <4>2 DEF Active, Clones
    <3> QED
      BY <1>2, <2>2, <3>1, <3>2 DEF Leaves, LeavesFolder
  <2> QED
    BY <2>1, <2>2
<1>10. FoundWhole'
  <2> SUFFICES ASSUME NEW k \in Clients, pc'[k] \in VenvLocs \cup {"run"}, job'[k].root = "cache",
                      Version(k)' \notin rough'
               PROVE  folder'[Place(k)'] # Absent /\ folder'[Place(k)'].at = "whole"
    BY DEF FoundWhole, Whole, VenvLocs
  <2>1. Active(k)' /\ Active(k) /\ Place(k)' = Place(k) /\ Version(k)' = Version(k)
    BY <1>3 DEF Active, VenvLocs
  <2>2. CASE k # c
    <3>1. Place(k) # Place(c) /\ Place(k) \in Places
      BY <1>4, <1>8, <2>1, <2>2 DEF Place, Version
    <3>2. folder'[Place(k)] = folder[Place(k)] /\ pc'[k] = pc[k] /\ job'[k] = job[k]
      BY <1>1, <2>2, <3>1 DEF Frame
    <3>3. Whole(Place(k))
      BY <1>5, <2>1, <3>2 DEF FoundWhole
    <3> QED
      BY <2>1, <3>2, <3>3 DEF Whole
  <2>3. CASE k = c
    BY <2>1, <2>3 DEF Leaves, LeavesFound
  <2> QED
    BY <2>2, <2>3
<1>11. Filling'
  <2> SUFFICES ASSUME NEW v \in Versions, v \notin rough', venv'[v] \notin {Absent, "all"}
               PROVE  \E k \in Clients : pc'[k] \in Fills /\ Version(k)' = v
    BY DEF Filling, Fills
  <2>1. CASE v # Version(c)
    <3>1. venv'[v] = venv[v]
      BY <1>1, <2>1 DEF Frame
    <3>2. PICK k \in Clients : pc[k] \in Fills /\ Version(k) = v
      BY <1>5, <3>1 DEF Filling, Fills
    <3>3. k # c /\ pc'[k] = pc[k] /\ Version(k)' = Version(k)
      BY <1>1, <2>1, <3>2 DEF Frame, Version
    <3> QED
      BY <3>2, <3>3
  <2>2. CASE v = Version(c)
    <3>1. CASE pc'[c] \in Fills
      BY <1>3, <2>2, <3>1 DEF Active, Fills
    <3>2. CASE venv'[v] = venv[v] /\ pc[c] \notin Fills
      BY <1>5, <2>2, <3>2, FindsVenv
    <3> QED
      BY <2>2, <3>1, <3>2 DEF Leaves, LeavesVenv
  <2> QED
    BY <2>1, <2>2
<1>12. Filled'
  <2> SUFFICES ASSUME NEW k \in Clients, Active(k)', Version(k)' \notin rough'
               PROVE  /\ pc'[k] \in {"python", "makeVenv"} => venv'[Version(k)'] = Absent
                      /\ pc'[k] \in {"readRequirements", "install"} => venv'[Version(k)'] = "none"
                      /\ pc'[k] = "setuptools" => venv'[Version(k)'] = "requirements"
                      /\ pc'[k] = "run" /\ Place(k)'[1] = "odoo" /\ venv'[Version(k)'] = Absent =>
                           Machine[Version(k)'] = "venv"
    BY DEF Filled
  <2>1. Active(k) /\ Place(k)' = Place(k) /\ Version(k)' = Version(k)
    BY <1>3
  <2>2. CASE k # c
    <3>1. Version(k) # Version(c) /\ Version(k) \in Versions
      BY <1>4, <1>8, <2>1, <2>2
    <3>2. venv'[Version(k)] = venv[Version(k)] /\ pc'[k] = pc[k]
      BY <1>1, <2>2, <3>1 DEF Frame
    <3> QED
      BY <1>5, <2>1, <3>2 DEF Filled
  <2>3. CASE k = c
    BY <2>1, <2>3 DEF Leaves, LeavesFilled, Active
  <2> QED
    BY <2>2, <2>3
<1>13. Refusals'
  <2>1. ASSUME NEW p \in Places
        PROVE  /\ refused'[p] <= 1
               /\ refused'[p] = 1 /\ folder'[p] # Absent =>
                    \E k \in Clients :
                      /\ pc'[k] \in {"cloning", "cleanup"} /\ Place(k)' = p
                      /\ pc'[k] = "cleanup" => job'[k].disturbed
    <3>1. CASE p # Place(c)
      <4>1. folder'[p] = folder[p] /\ refused'[p] = refused[p]
        BY <1>1, <3>1 DEF Frame
      <4>2. ASSUME refused[p] = 1, folder[p] # Absent
            PROVE  \E k \in Clients :
                      /\ pc'[k] \in {"cloning", "cleanup"} /\ Place(k)' = p
                      /\ pc'[k] = "cleanup" => job'[k].disturbed
        <5>1. PICK k \in Clients :
                /\ pc[k] \in {"cloning", "cleanup"} /\ Place(k) = p
                /\ pc[k] = "cleanup" => job[k].disturbed
          BY <4>2 DEF Refusals
        <5>2. k # c /\ pc'[k] = pc[k] /\ job'[k] = job[k] /\ Place(k)' = Place(k)
          BY <1>1, <3>1, <5>1 DEF Frame, Place
        <5> QED
          BY <5>1, <5>2
      <4> QED
        BY <4>1, <4>2 DEF Refusals
    <3>2. CASE p = Place(c)
      <4>1. refused'[p] <= 1
        BY <3>2 DEF Leaves, LeavesRefused
      <4>2. ASSUME refused'[p] = 1, folder'[p] # Absent
            PROVE  \E k \in Clients :
                      /\ pc'[k] \in {"cloning", "cleanup"} /\ Place(k)' = p
                      /\ pc'[k] = "cleanup" => job'[k].disturbed
        <5>1. CASE pc'[c] = "cloning" \/ (pc'[c] = "cleanup" /\ job'[c].disturbed)
          <6>1. Place(c)' = p
            BY <1>3, <3>2, <5>1 DEF Active
          <6> QED
            BY <5>1, <6>1
        <5>2. CASE refused[p] = 1 /\ folder[p] # Absent /\ pc[c] \notin Clones
          <6>1. PICK k \in Clients :
                  /\ pc[k] \in {"cloning", "cleanup"} /\ Place(k) = p
                  /\ pc[k] = "cleanup" => job[k].disturbed
            BY <4>2, <5>2 DEF Refusals
          <6>2. k # c /\ pc'[k] = pc[k] /\ job'[k] = job[k] /\ Place(k)' = Place(k)
            BY <1>1, <5>2, <6>1 DEF Frame, Place, Clones
          <6> QED
            BY <6>1, <6>2
        <5> QED
          BY <3>2, <4>2, <5>1, <5>2 DEF Leaves, LeavesRefused
      <4> QED
        BY <4>1, <4>2
    <3> QED
      BY <3>1, <3>2
  <2>2. ASSUME NEW k \in Clients, pc'[k] = "cleanup", ~job'[k].disturbed
        PROVE  refused'[Place(k)'] = 0
    <3>1. Active(k)' /\ Active(k) /\ Place(k)' = Place(k) /\ Place(k) \in Places
      BY <1>3, <1>4, <2>2 DEF Active
    <3>2. CASE k = c
      BY <2>2, <3>1, <3>2 DEF Leaves, LeavesRefused
    <3>3. CASE k # c
      <4>1. pc'[k] = pc[k] /\ job'[k] = job[k]
        BY <1>1, <3>3 DEF Frame
      <4>2. Place(k) # Place(c)
        BY <2>2, <3>1, <3>3, <4>1 DEF Undisturbed
      <4>3. refused'[Place(k)] = refused[Place(k)]
        BY <1>1, <3>1, <4>2 DEF Frame
      <4> QED
        BY <2>2, <3>1, <4>1, <4>3 DEF Refusals
    <3> QED
      BY <3>2, <3>3
  <2> QED
    BY <2>1, <2>2 DEF Refusals
<1> QED
  BY <1>1, <1>6, <1>7, <1>9, <1>10, <1>11, <1>12, <1>13

-------------------------------------------------------------------------------
(* A new call, and the end of the app *)

\* Jobs that agree on every field are the same.
LEMMA SameJob ==
  ASSUME NEW r \in Job, NEW s \in Job,
         r.place = s.place, r.root = s.root, r.disturbed <=> s.disturbed
  PROVE  r = s
BY DEF Job

\* A new call is put on record with whom it finds at its folder and version.
LEMMA BeginCares ==
  ASSUME Care, NEW c \in Clients, NEW kind \in {"odoo", "openupgrade", "modules"}, NEW v \in Versions,
         NEW l \in {"resolve", "remove"}, Begin(c, kind, v, l)
  PROVE  Care'
<1> USE DEF Care
<1> DEFINE p == <<kind, v>>
           beside == {k \in Clients : pc[k] # "idle" /\ Place(k) = p}
           mine == [NoJob EXCEPT !.place = p, !.disturbed = beside # {}]
           theirs(k) == [job[k] EXCEPT !.disturbed = @ \/ k \in beside]
<1>1. p \in Places /\ p[1] = kind /\ p[2] = v
  BY DEF Places
<1>2. pc[c] = "idle" /\ UNCHANGED <<folder, own, venv, refused>>
  BY DEF Begin
<1>3. pc' = [pc EXCEPT ![c] = l]
  BY DEF Begin
<1>4. job' = [k \in Clients |-> IF k = c THEN mine ELSE theirs(k)]
  BY DEF Begin
<1>5. rough' = IF \E k \in Clients : pc[k] # "idle" /\ Version(k) = v THEN rough \cup {v} ELSE rough
  BY DEF Begin
<1>6. rough \subseteq rough' /\ rough' \subseteq Versions
  BY <1>5 DEF Shapes
<1>7. mine \in Job /\ mine.place = p /\ mine.root = Absent /\ (mine.disturbed <=> beside # {})
  BY <1>1 DEF NoJob, Job
<1>8. \A k \in Clients :
        /\ theirs(k) \in Job /\ theirs(k).place = job[k].place /\ theirs(k).root = job[k].root
        /\ theirs(k).disturbed <=> (job[k].disturbed \/ k \in beside)
  BY DEF Shapes, Job
<1>9. \A k \in Clients : k \in beside <=> Active(k) /\ Place(k) = p
  BY DEF Active
<1> HIDE DEF mine, theirs
<1>10. \A k \in Clients : pc[k] = "idle" => theirs(k) = NoJob
  <2> SUFFICES ASSUME NEW k \in Clients, pc[k] = "idle" PROVE theirs(k) = NoJob
    OBVIOUS
  <2>1. job[k] = NoJob /\ k \notin beside
    BY DEF Jobs
  <2>2. theirs(k).disturbed <=> job[k].disturbed
    BY <1>8, <2>1
  <2>3. theirs(k) \in Job /\ job[k] \in Job
    BY <1>8 DEF Shapes
  <2>4. theirs(k).place = job[k].place /\ theirs(k).root = job[k].root
    BY <1>8
  <2> QED
    BY <2>1, <2>2, <2>3, <2>4, SameJob
<1> HIDE DEF beside, p
<1>11. /\ pc' \in [Clients -> Locs] /\ pc'[c] = l
       /\ \A k \in Clients \ {c} : pc'[k] = pc[k]
  BY <1>3 DEF Shapes, Locs, CloneLocs
<1>12. /\ job' \in [Clients -> Job] /\ job'[c] = mine
       /\ \A k \in Clients \ {c} : job'[k] = theirs(k)
  BY <1>4, <1>7, <1>8
<1>13. Shapes'
  BY <1>2, <1>6, <1>11, <1>12 DEF Shapes
<1>14. Place(c)' = p /\ Version(c)' = v /\ Active(c)'
  BY <1>1, <1>7, <1>11, <1>12 DEF Place, Version, Active
<1>15. \A k \in Clients \ {c} :
         /\ Active(k)' <=> Active(k)
         /\ Place(k)' = Place(k) /\ Version(k)' = Version(k)
         /\ job'[k].root = job[k].root
         /\ job'[k].disturbed <=> (job[k].disturbed \/ k \in beside)
  BY <1>8, <1>11, <1>12 DEF Place, Version, Active
<1>16. Jobs'
  <2> SUFFICES ASSUME NEW k \in Clients
               PROVE  /\ pc'[k] = "idle" => job'[k] = NoJob
                      /\ pc'[k] # "idle" => job'[k].place \in Places
                      /\ pc'[k] \in CloneLocs => job'[k].root = Absent
                      /\ pc'[k] \in VenvLocs => job'[k].place[1] = "odoo" /\ job'[k].root # Absent
    BY DEF Jobs, CloneLocs, VenvLocs
  <2>1. CASE k # c
    BY <1>8, <1>10, <1>11, <1>12, <2>1 DEF Jobs
  <2>2. CASE k = c
    BY <1>1, <1>7, <1>11, <1>12, <2>2 DEF VenvLocs
  <2> QED
    BY <2>1, <2>2
<1>17. ASSUME NEW k \in Clients \ {c}, Active(k), Version(k) = v
       PROVE  v \in rough'
  BY <1>5, <1>17 DEF Active
<1>18. Turns'
  <2> SUFFICES ASSUME NEW a \in Clients, NEW k \in Clients,
                      a # k, Active(a)', Active(k)', Version(a)' = Version(k)'
               PROVE  Version(a)' \in rough'
    BY DEF Turns
  <2>1. CASE a = c
    BY <1>14, <1>15, <1>17, <2>1
  <2>2. CASE k = c
    BY <1>14, <1>15, <1>17, <2>2
  <2>3. CASE a # c /\ k # c
    BY <1>6, <1>15, <2>3 DEF Turns
  <2> QED
    BY <2>1, <2>2, <2>3
<1>19. Undisturbed'
  <2> SUFFICES ASSUME NEW a \in Clients, NEW k \in Clients,
                      a # k, Active(a)', Active(k)', Place(a)' = Place(k)'
               PROVE  job'[a].disturbed
    BY DEF Undisturbed
  <2>1. CASE a = c
    <3>1. k \in beside
      BY <1>9, <1>14, <1>15, <2>1
    <3> QED
      BY <1>7, <1>12, <2>1, <3>1
  <2>2. CASE k = c
    BY <1>9, <1>14, <1>15, <2>2
  <2>3. CASE a # c /\ k # c
    BY <1>15, <2>3 DEF Undisturbed
  <2> QED
    BY <2>1, <2>2, <2>3
\* Who was at work stays where it was, and so do the folders and the interpreters.
<1>20. \A k \in Clients : Active(k) => k # c
  BY <1>2 DEF Active
<1>21. Unfinished'
  <2> SUFFICES ASSUME NEW q \in Places, q[2] \notin rough', folder[q] # Absent, folder[q].at # "whole"
               PROVE  \E k \in Clients : pc'[k] \in {"cloning", "cleanup"} /\ Place(k)' = q
    BY <1>2 DEF Unfinished, Whole
  <2>1. PICK k \in Clients : pc[k] \in {"cloning", "cleanup"} /\ Place(k) = q
    BY <1>6 DEF Unfinished, Whole
  <2> QED
    BY <1>11, <1>15, <1>20, <2>1 DEF Active
<1>22. FoundWhole'
  <2> SUFFICES ASSUME NEW k \in Clients, pc'[k] \in VenvLocs \cup {"run"}, job'[k].root = "cache",
                      Version(k)' \notin rough'
               PROVE  folder[Place(k)'] # Absent /\ folder[Place(k)'].at = "whole"
    BY <1>2 DEF FoundWhole, Whole, VenvLocs
  <2>1. k # c
    BY <1>11 DEF VenvLocs
  <2> QED
    BY <1>6, <1>11, <1>15, <2>1 DEF FoundWhole, Whole
<1>23. Filling'
  <2> SUFFICES ASSUME NEW w \in Versions, w \notin rough', venv[w] \notin {Absent, "all"}
               PROVE  \E k \in Clients : pc'[k] \in Fills /\ Version(k)' = w
    BY <1>2 DEF Filling, Fills
  <2>1. PICK k \in Clients : pc[k] \in Fills /\ Version(k) = w
    BY <1>6 DEF Filling, Fills
  <2> QED
    BY <1>11, <1>15, <1>20, <2>1 DEF Active, Fills
<1>24. Filled'
  <2> SUFFICES ASSUME NEW k \in Clients, Active(k)', Version(k)' \notin rough'
               PROVE  /\ pc'[k] \in {"python", "makeVenv"} => venv[Version(k)'] = Absent
                      /\ pc'[k] \in {"readRequirements", "install"} => venv[Version(k)'] = "none"
                      /\ pc'[k] = "setuptools" => venv[Version(k)'] = "requirements"
                      /\ pc'[k] = "run" /\ Place(k)'[1] = "odoo" /\ venv[Version(k)'] = Absent =>
                           Machine[Version(k)'] = "venv"
    BY <1>2 DEF Filled
  <2>1. CASE k # c
    BY <1>6, <1>11, <1>15, <2>1 DEF Filled
  <2>2. CASE k = c
    BY <1>11, <2>2
  <2> QED
    BY <2>1, <2>2
<1>25. Refusals'
  <2>1. ASSUME NEW q \in Places
        PROVE  /\ refused[q] <= 1
               /\ refused[q] = 1 /\ folder[q] # Absent =>
                    \E k \in Clients :
                      /\ pc'[k] \in {"cloning", "cleanup"} /\ Place(k)' = q
                      /\ pc'[k] = "cleanup" => job'[k].disturbed
    <3>1. ASSUME refused[q] = 1, folder[q] # Absent
          PROVE  \E k \in Clients :
                      /\ pc'[k] \in {"cloning", "cleanup"} /\ Place(k)' = q
                      /\ pc'[k] = "cleanup" => job'[k].disturbed
      <4>1. PICK k \in Clients :
              /\ pc[k] \in {"cloning", "cleanup"} /\ Place(k) = q
              /\ pc[k] = "cleanup" => job[k].disturbed
        BY <3>1 DEF Refusals
      <4>2. k # c
        BY <1>20, <4>1 DEF Active
      <4> QED
        BY <1>11, <1>15, <4>1, <4>2
    <3> QED
      BY <3>1 DEF Refusals
  <2>2. ASSUME NEW k \in Clients, pc'[k] = "cleanup", ~job'[k].disturbed
        PROVE  refused[Place(k)'] = 0
    <3>1. k # c
      BY <1>11, <2>2
    <3> QED
      BY <1>11, <1>15, <2>2, <3>1 DEF Refusals
  <2> QED
    BY <1>2, <2>1, <2>2 DEF Refusals
<1> QED
  BY <1>13, <1>16, <1>18, <1>19, <1>21, <1>22, <1>23, <1>24, <1>25

\* Whatever is asked for.
LEMMA AskCares ==
  ASSUME Care, NEW c \in Clients, Ask(c)
  PROVE  Care'
BY BeginCares DEF Ask

\* Nobody is at work after a crash; what they left is of rough versions.
LEMMA CrashCares ==
  ASSUME Care, Crash
  PROVE  Care'
<1> USE DEF Care
<1>1. UNCHANGED <<folder, own, venv>>
  BY DEF Crash
<1>2. /\ pc' = [c \in Clients |-> "idle"] /\ job' = [c \in Clients |-> NoJob]
      /\ refused' = [p \in Places |-> 0]
      /\ rough' = rough \cup {Version(c) : c \in {k \in Clients : pc[k] # "idle"}}
  BY DEF Crash
<1>3. NoJob \in Job /\ "idle" \in Locs
  BY DEF NoJob, Job, Locs
<1>4. rough \subseteq rough' /\ \A c \in Clients : Active(c) => Version(c) \in rough'
  BY <1>2 DEF Active
<1>5. rough' \subseteq Versions
  BY <1>2, HasPlace DEF Shapes, Active
<1>6. Shapes'
  BY <1>1, <1>2, <1>3, <1>5 DEF Shapes
<1>7. \A c \in Clients : pc'[c] = "idle" /\ job'[c] = NoJob
  BY <1>2
<1>8. Jobs'
  BY <1>7 DEF Jobs, CloneLocs, VenvLocs
<1>9. Turns' /\ Undisturbed' /\ FoundWhole' /\ Filled'
  BY <1>7 DEF Turns, Undisturbed, FoundWhole, Filled, Active, VenvLocs
<1>10. Unfinished'
  <2> SUFFICES ASSUME NEW p \in Places, p[2] \notin rough', folder[p] # Absent, folder[p].at # "whole"
               PROVE  FALSE
    BY <1>1 DEF Unfinished, Whole
  <2>1. PICK k \in Clients : pc[k] \in {"cloning", "cleanup"} /\ Place(k) = p
    BY <1>4 DEF Unfinished, Whole
  <2> QED
    BY <1>4, <2>1 DEF Active, Place, Version
<1>11. Filling'
  <2> SUFFICES ASSUME NEW v \in Versions, v \notin rough', venv[v] \notin {Absent, "all"}
               PROVE  FALSE
    BY <1>1 DEF Filling
  <2>1. PICK k \in Clients : pc[k] \in Fills /\ Version(k) = v
    BY <1>4 DEF Filling, Fills
  <2> QED
    BY <1>4, <2>1 DEF Active, Fills
<1>12. Refusals'
  <2>1. \A p \in Places : refused'[p] = 0
    BY <1>2
  <2> QED
    BY <1>7, <2>1 DEF Refusals
<1> QED
  BY <1>6, <1>8, <1>9, <1>10, <1>11, <1>12

\* Nothing happens.
LEMMA StutterCares ==
  ASSUME Care, UNCHANGED vars
  PROVE  Care'
BY DEF vars, Care, Shapes, Jobs, Turns, Undisturbed, Unfinished, FoundWhole, Filling, Filled, Refusals,
       Active, Whole, Place, Version

-------------------------------------------------------------------------------
(* The theorems *)

\* What every call of Runtimes can rely on (resolve, clone, ensure_python_for,
\* remove_cached): a folder of the cache that is not whole is somebody's work, what was
\* found stays whole until it is handed over, an interpreter is filled by one call at a
\* time, for every version that is not rough; and a refusal leaves nothing behind.
THEOREM CareHolds == Spec => []Care
<1>1. Init => Care
  BY InitCare
<1>2. Care /\ [Next]_vars => Care'
  <2> SUFFICES ASSUME Care, [Next]_vars PROVE Care'
    OBVIOUS
  <2>1. CASE Crash
    BY <2>1, CrashCares
  <2>2. ASSUME NEW c \in Clients, Ask(c) PROVE Care'
    BY <2>2, AskCares
  <2>3. ASSUME NEW c \in Clients, Step(c) PROVE Care'
    BY <2>3, StepIsGood, StepCares
  <2>4. CASE UNCHANGED vars
    BY <2>4, StutterCares
  <2> QED
    BY <2>1, <2>2, <2>3, <2>4 DEF Next, Call, Step
<1> QED
  BY <1>1, <1>2, PTL DEF Spec

\* Every variable keeps its type: a folder is a state of a clone and who wrote it, a
\* call that looks for an interpreter is one for Odoo and has found its code.
THEOREM TypeCorrect == Spec => []TypeOK
<1>1. Care => TypeOK
  <2> SUFFICES ASSUME Care PROVE TypeOK
    OBVIOUS
  <2> USE DEF Care
  <2>1. \A p \in Places : folder[p] = Absent \/ folder[p] \in [at: Written, by: Clients \cup {Person}]
    BY DEF Shapes, Folder
  <2>2. own \subseteq Versions /\ venv \in [Versions -> Packages \cup {Absent}]
    BY DEF Shapes
  <2>3. pc \in [Clients -> {"idle", "run", "remove"} \cup CloneLocs \cup VenvLocs]
    BY DEF Shapes, Locs
  <2>4. \A c \in Clients : IF pc[c] = "idle" THEN job[c] = NoJob ELSE job[c].place \in Places
    BY DEF Jobs
  <2>5. \A c \in Clients :
          /\ pc[c] \in CloneLocs => job[c].root = Absent
          /\ pc[c] \in VenvLocs => job[c].place[1] = "odoo" /\ job[c].root # Absent
    BY DEF Jobs
  <2> QED
    BY <2>1, <2>2, <2>3, <2>4, <2>5 DEF TypeOK, Shapes
<1> QED
  BY <1>1, CareHolds, PTL

\* "Adopted checkouts belong to the user" (remove_cached, odoo_runtime.rs:205): a
\* deletion, which goes where the links lead, stops before what is not in the cache;
\* the user's checkouts are there, whatever is asked, cleaned up or deleted.
THEOREM UsersOwn == Spec => []UserCodeStays
<1>1. Care => UserCodeStays
  BY DEF Care, Shapes, UserCodeStays
<1> QED
  BY <1>1, CareHolds, PTL

\* What is handed over to run is complete, code and interpreter, after any failed
\* downloads and with any calls for other versions beside (ensure_odoo, ensure_python_for).
THEOREM WhatRunsIsWhole == Spec => []RunsWhatIsWhole
<1>1. Care => RunsWhatIsWhole
  <2> SUFFICES ASSUME Care, NEW c \in Clients, pc[c] = "run", Version(c) \notin rough
               PROVE  /\ job[c].root = "cache" => folder[Place(c)] # Absent /\ folder[Place(c)].at = "whole"
                      /\ venv[Version(c)] \in {Absent, "all"}
                      /\ Place(c)[1] = "odoo" /\ venv[Version(c)] = Absent => Machine[Version(c)] = "venv"
    BY DEF RunsWhatIsWhole
  <2> USE DEF Care
  <2>1. job[c].root = "cache" => folder[Place(c)] # Absent /\ folder[Place(c)].at = "whole"
    BY DEF FoundWhole, Whole
  <2>2. venv[Version(c)] \in {Absent, "all"}
    BY FindsVenv DEF Fills, Active
  <2>3. Place(c)[1] = "odoo" /\ venv[Version(c)] = Absent => Machine[Version(c)] = "venv"
    BY DEF Filled, Active
  <2> QED
    BY <2>1, <2>2, <2>3
<1> QED
  BY <1>1, CareHolds, PTL

\* However often the app dies and whatever fails, at most one call in a row is refused
\* for what earlier ones left in its folder (git::clone and its cleanup).
THEOREM RetriesHelp == Spec => []RetryHelps
<1>1. Care => RetryHelps
  BY DEF Care, Refusals, RetryHelps
<1> QED
  BY <1>1, CareHolds, PTL
===============================================================================
