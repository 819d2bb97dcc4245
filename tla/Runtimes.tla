------------------------------- MODULE Runtimes -------------------------------
(***************************************************************************)
(* Where the code that runs comes from (odoo_runtime.rs, python_runtime.rs,*)
(* openupgrade.rs, git.rs, lib.rs): checkouts of Odoo found on the machine *)
(* or cloned into the app's cache, OpenUpgrade's migrations, repositories  *)
(* of modules, and one interpreter per version with Odoo's requirements.   *)
(* Nothing is locked: requests and processes of git and uv interleave, and *)
(* a folder is taken for complete by the files that mark it.               *)
(***************************************************************************)
EXTENDS Naturals

CONSTANTS
  Clients,
  Versions,
  Absent,
  Person,      \* who owns what the cache only links to
  Machine,     \* Machine[v]: the user's own checkout of v, "none", "bare" or "venv"
  Kinds,       \* what is asked for: "odoo", "openupgrade", "modules", "delete"
  MaxAsked,    \* how many calls are made
  MaxFaults,   \* how many commands and removals fail by themselves (network, disk)
  MaxCrashes,  \* how often the app dies, its git and uv with it
  MaxInputs    \* how many of all these there are together

ASSUME RuntimesAssumption ==
  /\ Machine \in [Versions -> {"none", "bare", "venv"}]
  /\ MaxAsked \in Nat /\ MaxFaults \in Nat /\ MaxCrashes \in Nat /\ MaxInputs \in Nat
  \* Absent is none of the values it stands beside.
  /\ Absent \notin {"none", "requirements", "all", "cache", "own"}
  /\ Absent \notin [at: {"scraps", "begun", "marked", "whole"}, by: Clients \cup {Person}]

VARIABLES
  folder,    \* the folders the app clones into: how far it is written, and by whom
  own,       \* the checkouts the user keeps in the places that are searched
  venv,      \* app_dir/venvs/<version>: which packages are in it
  pc, job,   \* where each client's call is
  asked, faults, crashes,
  rough,     \* history: versions with overlapping calls, a failed install, a failed
             \* removal or a crash
  refused    \* history: calls in a row that failed with no fault and nobody else at the folder

counters == <<asked, faults, crashes>>
history  == <<rough, refused>>
vars     == <<folder, own, venv, pc, job, asked, faults, crashes, rough, refused>>

Places   == {"odoo", "openupgrade", "modules"} \X Versions
\* Neither .git nor the marker files are there; .git is; the marker files too; everything.
Written  == {"scraps", "begun", "marked", "whole"}
Packages == {"none", "requirements", "all"}
CloneLocs == {"resolve", "clear", "clone", "cloning", "cleanup"}
VenvLocs  == {"lookVenv", "python", "makeVenv", "readRequirements", "install", "setuptools"}
NoJob    == [place |-> Absent, root |-> Absent, disturbed |-> FALSE]

TypeOK ==
  /\ \A p \in Places : folder[p] = Absent
       \/ folder[p] \in [at: Written, by: Clients \cup {Person}]
  /\ own \subseteq Versions
  /\ venv \in [Versions -> Packages \cup {Absent}]
  /\ pc \in [Clients -> {"idle", "run", "remove"} \cup CloneLocs \cup VenvLocs]
  /\ \A c \in Clients : IF pc[c] = "idle" THEN job[c] = NoJob ELSE job[c].place \in Places
  /\ \A c \in Clients :
       /\ pc[c] \in CloneLocs => job[c].root = Absent
       /\ pc[c] \in VenvLocs => job[c].place[1] = "odoo" /\ job[c].root # Absent
  /\ rough \subseteq Versions /\ refused \in [Places -> Nat]

Init ==
  /\ own = {v \in Versions : Machine[v] # "none"}
  /\ \E linked \in SUBSET own :  \* the folder in the cache may be a link to it
       folder = [p \in Places |-> IF p[1] = "odoo" /\ p[2] \in linked
                                  THEN [at |-> "whole", by |-> Person] ELSE Absent]
  /\ venv = [v \in Versions |-> Absent]
  /\ pc = [c \in Clients |-> "idle"] /\ job = [c \in Clients |-> NoJob]
  /\ asked = 0 /\ faults = 0 /\ crashes = 0
  /\ rough = {} /\ refused = [p \in Places |-> 0]

-------------------------------------------------------------------------------
Place(c)   == job[c].place
Version(c) == job[c].place[2]

MoreInput == asked + faults + crashes < MaxInputs

Goto(c, l) ==
  /\ pc' = [pc EXCEPT ![c] = l]
  /\ job' = IF l = "idle" THEN [job EXCEPT ![c] = NoJob] ELSE job

\* The code of a checkout is found; Odoo then needs an interpreter, the rest is done.
Found(c, root, l) ==
  /\ pc' = [pc EXCEPT ![c] = l]
  /\ job' = [job EXCEPT ![c].root = root]
  /\ refused' = [refused EXCEPT ![Place(c)] = 0]

Begin(c, kind, v, l) ==
  /\ pc[c] = "idle" /\ asked < MaxAsked /\ MoreInput
  /\ asked' = asked + 1
  /\ pc' = [pc EXCEPT ![c] = l]
  /\ LET beside == {k \in Clients : pc[k] # "idle" /\ Place(k) = <<kind, v>>}
     IN job' = [k \in Clients |->
          IF k = c THEN [NoJob EXCEPT !.place = <<kind, v>>, !.disturbed = beside # {}]
          ELSE [job[k] EXCEPT !.disturbed = @ \/ k \in beside]]
  /\ rough' = IF \E k \in Clients : pc[k] # "idle" /\ Version(k) = v THEN rough \cup {v} ELSE rough
  /\ UNCHANGED <<folder, own, venv, faults, crashes, refused>>

Ask(c) ==
  \E v \in Versions :
    \/ "odoo" \in Kinds /\ Begin(c, "odoo", v, "resolve")
    \/ "openupgrade" \in Kinds /\ Begin(c, "openupgrade", v, "resolve")
    \/ "modules" \in Kinds /\ Begin(c, "modules", v, "resolve")
    \/ "delete" \in Kinds /\ Begin(c, "odoo", v, "remove")

-------------------------------------------------------------------------------
(* Resolving: what is taken for a checkout *)

\* is_odoo_checkout and its likes look for files; git::clone looks for .git alone.
Resolves(p) ==
  /\ folder[p] # Absent
  /\ folder[p].at \in IF p[1] = "modules" THEN {"begun", "marked", "whole"} ELSE {"marked", "whole"}

\* Whether there is nothing left to build: what is not Odoo needs no interpreter.
HasVenv(p) == p[1] # "odoo" \/ (folder[p].by = Person /\ Machine[p[2]] = "venv")

\* The cache, then the machine; a checkout there must be of the version that is asked
\* for, a folder of the cache is not looked into.
Resolve(c) ==
  /\ pc[c] = "resolve"
  /\ IF Resolves(Place(c))
       THEN Found(c, "cache", IF HasVenv(Place(c)) THEN "run" ELSE "lookVenv")
     ELSE IF Place(c)[1] = "odoo" /\ Version(c) \in own
       THEN Found(c, "own", IF Machine[Version(c)] = "venv" THEN "run" ELSE "lookVenv")
     ELSE Goto(c, IF Place(c)[1] = "openupgrade" THEN "clear" ELSE "clone") /\ UNCHANGED refused
  /\ UNCHANGED <<folder, own, venv, counters, rough>>

\* The folder in the cache is a link to the checkout the user keeps.
Linked(p) == folder[p] # Absent /\ folder[p].by = Person

\* remove_dir_all of a path: of a link, the link itself.
Gone(p) == folder' = [folder EXCEPT ![p] = Absent]

\* remove_dir_all of the path that is left when all links are resolved.
RemoveTree(p) ==
  /\ Gone(p)
  /\ own' = IF Linked(p) THEN own \ {p[2]} ELSE own

\* It takes the entries of a folder in any order, and stops at the first that will
\* not go; a git that still writes there fails.  A link goes or stays.
Leavings(c) ==
  LET f == folder[Place(c)]
  IN  IF Linked(Place(c)) THEN {f}
      ELSE [at: CASE f.at = "whole"  -> Written
                  [] f.at = "marked" -> Written \ {"whole"}
                  [] OTHER           -> {"scraps", f.at},
            by: {c}]

Roughen(c) == rough' = rough \cup {Version(c)}

RemovalFails(c) ==
  /\ folder[Place(c)] # Absent /\ faults < MaxFaults /\ MoreInput
  /\ faults' = faults + 1
  /\ \E left \in Leavings(c) : folder' = [folder EXCEPT ![Place(c)] = left]
  /\ Roughen(c)
  /\ UNCHANGED <<own, venv, asked, crashes>>

\* OpenUpgrade's folder is removed before it is cloned.
Clear(c) ==
  /\ pc[c] = "clear"
  /\ Gone(Place(c))
  /\ Goto(c, "clone")
  /\ UNCHANGED <<own, venv, counters, history>>

\* `let _ =`: the clone is tried all the same.
ClearFails(c) ==
  /\ pc[c] = "clear"
  /\ RemovalFails(c)
  /\ pc' = [pc EXCEPT ![c] = "clone"]
  /\ job' = [job EXCEPT ![c].disturbed = TRUE]
  /\ UNCHANGED refused

(* git clone *)

\* git refuses a folder that is there; else it begins to write one.
Clone(c) ==
  /\ pc[c] = "clone"
  /\ IF folder[Place(c)] # Absent THEN Goto(c, "cleanup") /\ UNCHANGED folder
     ELSE /\ folder' = [folder EXCEPT ![Place(c)] = [at |-> "begun", by |-> c]]
          /\ Goto(c, "cloning")
  /\ UNCHANGED <<own, venv, counters, history>>

Mine(c) == folder[Place(c)] # Absent /\ folder[Place(c)].by = c

\* odoo-bin and release.py come before the rest: files are written in order.
Write(c) ==
  /\ pc[c] = "cloning" /\ Mine(c) /\ folder[Place(c)].at = "begun"
  /\ folder' = [folder EXCEPT ![Place(c)].at = "marked"]
  /\ UNCHANGED <<own, venv, pc, job, counters, history>>

\* Mutant: whatever was cloned gets an interpreter.
ClonedAlike(c) ==
  /\ pc[c] = "cloning" /\ Mine(c) /\ folder[Place(c)].at = "marked"
  /\ folder' = [folder EXCEPT ![Place(c)].at = "whole"]
  /\ Found(c, "cache", "lookVenv")
  /\ UNCHANGED <<own, venv, counters, rough>>

Cloned(c) ==
  /\ pc[c] = "cloning" /\ Mine(c) /\ folder[Place(c)].at = "marked"
  /\ folder' = [folder EXCEPT ![Place(c)].at = "whole"]
  /\ Found(c, "cache", IF Place(c)[1] = "odoo" THEN "lookVenv" ELSE "run")
  /\ UNCHANGED <<own, venv, counters, rough>>

\* git fails: the network, or somebody removed what it was writing.  It may leave
\* what it has written.
CloneFails(c) ==
  /\ pc[c] = "cloning"
  /\ IF Mine(c) THEN faults < MaxFaults /\ MoreInput /\ faults' = faults + 1 ELSE UNCHANGED faults
  /\ pc' = [pc EXCEPT ![c] = "cleanup"]
  /\ job' = [job EXCEPT ![c].disturbed = TRUE]
  /\ UNCHANGED <<folder, own, venv, asked, crashes, history>>

Refuse(c) ==
  refused' = [refused EXCEPT ![Place(c)] =
    IF job[c].disturbed THEN 0 ELSE @ + 1]

\* Mutant: what a failed clone leaves is left.
CleanupNever(c) ==
  /\ pc[c] = "cleanup"
  /\ Goto(c, "idle")
  /\ Refuse(c)
  /\ UNCHANGED <<folder, own, venv, counters, rough>>

\* Whatever is in the folder is removed, whoever put it there.
Cleanup(c) ==
  /\ pc[c] = "cleanup"
  /\ Gone(Place(c))
  /\ Goto(c, "idle")
  /\ Refuse(c)
  /\ UNCHANGED <<own, venv, counters, rough>>

\* `let _ =`: only the failure of git is reported.
CleanupFails(c) ==
  /\ pc[c] = "cleanup"
  /\ RemovalFails(c)
  /\ Goto(c, "idle")
  /\ refused' = [refused EXCEPT ![Place(c)] = 0]

-------------------------------------------------------------------------------
(* ensure_python_for *)

LookVenv(c) ==
  /\ pc[c] = "lookVenv"
  /\ Goto(c, IF venv[Version(c)] # Absent THEN "run" ELSE "python")
  /\ UNCHANGED <<folder, own, venv, counters, history>>

\* ensure_python_installed, and uv's second look at the venv.
EnsurePython(c) ==
  /\ pc[c] = "python"
  /\ Goto(c, IF venv[Version(c)] # Absent THEN "readRequirements" ELSE "makeVenv")
  /\ UNCHANGED <<folder, own, venv, counters, history>>

\* uv may refuse a venv that came up in between, or make it anew.
MakeVenv(c) ==
  /\ pc[c] = "makeVenv"
  /\ \/ venv' = [venv EXCEPT ![Version(c)] = "none"] /\ Goto(c, "readRequirements")
     \/ venv[Version(c)] # Absent /\ UNCHANGED venv /\ Goto(c, "idle")
  /\ UNCHANGED <<folder, own, counters, history>>

\* requirements.txt sorts after the marker files: a checkout may not have it yet.
ReadRequirements(c) ==
  /\ pc[c] = "readRequirements"
  /\ IF job[c].root = "own" \/ (folder[Place(c)] # Absent /\ folder[Place(c)].at = "whole")
     THEN Goto(c, "install") /\ UNCHANGED rough
     ELSE Goto(c, "idle") /\ Roughen(c)
  /\ UNCHANGED <<folder, own, venv, counters, refused>>

Installed(v, packages) ==
  venv' = [venv EXCEPT ![v] = IF @ = Absent THEN Absent ELSE packages]

\* Mutant: the interpreter is handed out once the requirements are in.
InstallAlone(c) ==
  /\ pc[c] = "install"
  /\ Installed(Version(c), "requirements")
  /\ Goto(c, "run")
  /\ UNCHANGED <<folder, own, counters, history>>

InstallRequirements(c) ==
  /\ pc[c] = "install"
  /\ Installed(Version(c), "requirements")
  /\ Goto(c, "setuptools")
  /\ UNCHANGED <<folder, own, counters, history>>

PinSetuptools(c) ==
  /\ pc[c] = "setuptools"
  /\ Installed(Version(c), "all")
  /\ Goto(c, "run")
  /\ UNCHANGED <<folder, own, counters, history>>

\* uv fails, or the handler is dropped at one of these awaits.
VenvFails(c) ==
  /\ pc[c] \in {"python", "makeVenv", "install", "setuptools"} /\ faults < MaxFaults /\ MoreInput
  /\ faults' = faults + 1
  /\ Goto(c, "idle")
  /\ IF venv[Version(c)] # Absent THEN Roughen(c) ELSE UNCHANGED rough
  /\ UNCHANGED <<folder, own, venv, asked, crashes, refused>>

\* What was asked for is handed over: Odoo starts, a hop runs, the source is registered.
Run(c) ==
  /\ pc[c] = "run"
  /\ Goto(c, "idle")
  /\ UNCHANGED <<folder, own, venv, counters, history>>

-------------------------------------------------------------------------------
(* remove_cached *)

\* Mutant: the folder's own path is looked at, not where it leads.
InCacheByName(p) == folder[p] # Absent

\* With its links resolved it is still directly inside the cache.
InCache(p) == folder[p] # Absent /\ ~Linked(p)

RemoveCached(c) ==
  /\ pc[c] = "remove"
  /\ IF InCache(Place(c)) THEN RemoveTree(Place(c)) ELSE UNCHANGED <<folder, own>>
  /\ Goto(c, "idle")
  /\ UNCHANGED <<venv, counters, history>>

RemoveCachedFails(c) ==
  /\ pc[c] = "remove" /\ InCache(Place(c))
  /\ RemovalFails(c)
  /\ Goto(c, "idle")
  /\ UNCHANGED refused

\* The machine goes down, git and uv with the app: the folders stay as they are.
Crash ==
  /\ crashes < MaxCrashes /\ MoreInput
  /\ crashes' = crashes + 1
  /\ rough' = rough \cup {Version(c) : c \in {k \in Clients : pc[k] # "idle"}}
  /\ refused' = [p \in Places |-> 0]
  /\ pc' = [c \in Clients |-> "idle"] /\ job' = [c \in Clients |-> NoJob]
  /\ UNCHANGED <<folder, own, venv, asked, faults>>

Call(c) ==
  \/ Ask(c) \/ Resolve(c) \/ Clear(c) \/ ClearFails(c)
  \/ Clone(c) \/ Write(c) \/ Cloned(c) \/ CloneFails(c) \/ Cleanup(c) \/ CleanupFails(c)
  \/ LookVenv(c) \/ EnsurePython(c) \/ MakeVenv(c) \/ ReadRequirements(c)
  \/ InstallRequirements(c) \/ PinSetuptools(c) \/ VenvFails(c) \/ Run(c)
  \/ RemoveCached(c) \/ RemoveCachedFails(c)

Next == Crash \/ \E c \in Clients : Call(c)

Spec == Init /\ [][Next]_vars

-------------------------------------------------------------------------------
(* Properties *)

\* "A failed clone can leave a partial directory behind, which the cache check would
\* then happily resolve to": what is handed over for a version is complete, code and
\* interpreter, after any failed downloads; unless calls for that version overlapped,
\* an install of its requirements failed, a folder of it could not be removed (what is
\* left may still look like a checkout), or the app died in the middle.
RunsWhatIsWhole ==
  \A c \in Clients :
    pc[c] = "run" /\ Version(c) \notin rough =>
      /\ job[c].root = "cache" => folder[Place(c)] # Absent /\ folder[Place(c)].at = "whole"
      /\ venv[Version(c)] \in {Absent, "all"}
      /\ Place(c)[1] = "odoo" /\ venv[Version(c)] = Absent => Machine[Version(c)] = "venv"

\* "Adopted checkouts belong to the user": a cached copy is deleted where its links
\* lead, and still whatever is asked, cleaned up or deleted, in whatever order, a
\* folder of the cache that only links to the user's checkout never takes it along.
UserCodeStays == own = {v \in Versions : Machine[v] # "none"}

\* A failure never lasts: what is left of earlier calls, of removals that failed and of
\* crashes makes a call fail at most once before the next one, with nobody in its way
\* and nothing failing in it, gets its folder.
RetryHelps == \A p \in Places : refused[p] <= 1
===============================================================================
