-------------------------------- MODULE Fleet --------------------------------
(***************************************************************************)
(* What stands around the Odoo supervisors (lib.rs, db.rs, bus.rs, ws.rs): *)
(* the registry that builds one per server, the listener that turns each   *)
(* transition into a row and an event, the event log and the two bounded   *)
(* channels behind /ws/events and /ws/logs, the log ring, and the reload   *)
(* policy with its data-file watcher.  OdooSupervisor models what is       *)
(* inside one; here a supervisor is the state it may move through.         *)
(***************************************************************************)
EXTENDS OdooLifecycle, Naturals, Sequences, SequencesExt

CONSTANTS
  Clients,      \* who asks for starts and policies, one at a time each
  Servers,
  Absent,
  EventCap,     \* CHANNEL_CAPACITY of the event bus (256)
  LineCap,      \* the capacity of the log bus (2048)
  BufferLines,  \* LOG_BUFFER_LINES (5000)
  Wishes,       \* the reload policies that are asked for
  Faults,       \* which failures the environment produces
  MaxAsked,     \* how many starts and policies are asked for
  MaxMoves,     \* how many transitions the supervisors make
  MaxLines,     \* how many lines the processes write
  MaxRestarts,  \* how often the app itself ends and comes back
  MaxInputs     \* how many of all these there are together

\* row, event: the write of a row or of an event fails; folder: none of the folders
\* with the server's own modules exists; watch: the system gives no watcher.
FaultKinds == {"row", "event", "folder", "watch"}

Policies    == [python: BOOLEAN, data: BOOLEAN]
States      == {"Stopped", "Starting", "Running", "Stopping", "Crashed"}
Supervisors == [state: States, server: Servers, dev: BOOLEAN, used: BOOLEAN]

ASSUME ConstantsAssumption ==
  /\ Absent \notin Servers \cup Supervisors /\ Absent \notin Nat
  /\ Wishes \subseteq Policies /\ Faults \subseteq FaultKinds
  /\ EventCap \in Nat \ {0} /\ LineCap \in Nat \ {0} /\ BufferLines \in Nat \ {0}
  /\ MaxAsked \in Nat /\ MaxMoves \in Nat /\ MaxLines \in Nat /\ MaxRestarts \in Nat
  /\ MaxInputs \in Nat

VARIABLES
  policy,      \* the reload policy in a server's row
  row,         \* state and started_at in a server's row
  registry,    \* odoo_supervisors: the supervisor of each server
  sup,         \* the supervisors built: state, server, the argv's --dev, and whether
               \* it was ever started
  pc, job,     \* where each client's call is
  notices,     \* transitions their listener has not finished with
  log,         \* the event log
  sent,        \* what was published on each bus
  lines,       \* lines read from a process and not yet published
  ring,        \* log_buffers
  socket,      \* the receivers behind /ws/events and /ws/logs
  watcher,     \* data_watchers: which servers have one
  asked, moves, said, restarts,
  overlapped,  \* history: servers with two transitions reported at a time
  unheard,     \* history: servers whose row missed the last transition: its write
               \* failed, or the app restarted
  untold,      \* history: servers whose last event could not be appended
  mixedUp,     \* history: servers whose policy calls overlapped, or restarted
  unwatched    \* history: servers whose last policy call could make no watcher

history == <<overlapped, unheard, untold, mixedUp, unwatched>>

vars == <<policy, row, registry, sup, pc, job, notices, log, sent, lines, ring, socket,
          watcher, asked, moves, said, restarts, history>>

counters == <<asked, moves, said, restarts>>
calls    == <<pc, job>>
rows     == <<policy, row>>
objects  == <<registry, sup, watcher>>
streams  == <<notices, log, sent, lines, ring>>

Builds    == 1 .. MaxAsked
Told      == {"Running", "Stopped", "Crashed"}  \* the states with an event
Sockets   == {"events", "logs"}
Items     == [server: Servers, what: Told, n: 1 .. MaxMoves]
WorkLocs  == {"look", "insert", "start", "write", "unwatch", "read", "watch"}
Off       == [on |-> FALSE, next |-> 1, got |-> <<>>, lagged |-> FALSE]
NoJob     == [server |-> Absent, new |-> Absent, policy |-> Absent, mine |-> Absent]

TypeOK ==
  /\ policy \in [Servers -> Policies]
  /\ row \in [Servers -> [state: States, up: BOOLEAN]]
  /\ registry \in [Servers -> Builds \cup {Absent}]
  /\ \A b \in Builds : sup[b] = Absent \/ sup[b] \in Supervisors
  /\ \A s \in Servers : registry[s] # Absent => sup[registry[s]] # Absent
  /\ pc \in [Clients -> {"idle"} \cup WorkLocs]
  /\ \A x \in notices : x.at \in {"row", "event", "publish"} /\ x.what \in States
  /\ ToSet(log) \subseteq Items /\ ToSet(sent["events"]) \subseteq Items
  /\ ToSet(sent["logs"]) \subseteq 1 .. MaxLines
  /\ \A s \in Servers : Len(ring[s]) \in 0 .. BufferLines
  /\ \A k \in Sockets : socket[k].on \in BOOLEAN /\ socket[k].next \in 1 .. Len(sent[k]) + 1
  /\ watcher \subseteq Servers

Init ==
  /\ policy = [s \in Servers |-> [python |-> FALSE, data |-> FALSE]]
  /\ row = [s \in Servers |-> [state |-> "Stopped", up |-> FALSE]]
  /\ registry = [s \in Servers |-> Absent]
  /\ sup = [b \in Builds |-> Absent]
  /\ pc = [c \in Clients |-> "idle"]
  /\ job = [c \in Clients |-> NoJob]
  /\ notices = {} /\ log = <<>> /\ lines = {}
  /\ sent = [k \in Sockets |-> <<>>]
  /\ ring = [s \in Servers |-> <<>>]
  /\ socket = [k \in Sockets |-> Off]
  /\ watcher = {}
  /\ asked = 0 /\ moves = 0 /\ said = 0 /\ restarts = 0
  /\ overlapped = {} /\ unheard = {} /\ untold = {} /\ mixedUp = {} /\ unwatched = {}

-------------------------------------------------------------------------------
MoreInput == asked + moves + said + restarts < MaxInputs

Goto(c, l) ==
  /\ pc' = [pc EXCEPT ![c] = l]
  /\ job' = IF l = "idle" THEN [job EXCEPT ![c] = NoJob] ELSE job

Begin(c, l, j) ==
  /\ pc[c] = "idle"
  /\ asked < MaxAsked /\ MoreInput
  /\ asked' = asked + 1
  /\ pc' = [pc EXCEPT ![c] = l]
  /\ job' = [job EXCEPT ![c] = j]

\* A supervisor moves, and its listener is about to be called, off the lock.
Move(b, to) ==
  /\ moves < MaxMoves /\ MoreInput
  /\ moves' = moves + 1
  /\ sup' = [sup EXCEPT ![b].state = to, ![b].used = TRUE]
  /\ notices' = notices \cup {[n |-> moves + 1, server |-> sup[b].server, what |-> to, at |-> "row"]}
  /\ overlapped' = overlapped \cup {x.server : x \in {y \in notices : y.server = sup[b].server}}

-------------------------------------------------------------------------------
(* start_server, get_or_create_odoo_supervisor, stop_server *)

\* The row is read and the command line put together before the registry is asked.
\* A supervisor that this call builds has the number of the call.
BeginStart(c) ==
  /\ \E s \in Servers :
       Begin(c, "look", [server |-> s, policy |-> Absent, mine |-> asked + 1,
                         new |-> [state |-> "Stopped", server |-> s, dev |-> policy[s].python,
                                  used |-> FALSE]])
  /\ UNCHANGED <<rows, objects, streams, socket, moves, said, restarts, history>>

Look(c) ==
  /\ pc[c] = "look"
  /\ IF registry[job[c].server] = Absent THEN Goto(c, "insert")
     ELSE /\ pc' = [pc EXCEPT ![c] = "start"]
          /\ job' = [job EXCEPT ![c].mine = registry[job[c].server]]
  /\ UNCHANGED <<rows, objects, streams, socket, counters, history>>

Registered(c) ==
  /\ sup' = [sup EXCEPT ![job[c].mine] = job[c].new]
  /\ registry' = [registry EXCEPT ![job[c].server] = job[c].mine]

\* Mutant: the last one built is registered and used.
InsertOver(c) ==
  /\ pc[c] = "insert"
  /\ Registered(c)
  /\ pc' = [pc EXCEPT ![c] = "start"]
  /\ UNCHANGED <<rows, watcher, job, streams, socket, counters, history>>

\* entry().or_insert(): two first callers build one each, and both use the first.
Insert(c) ==
  /\ pc[c] = "insert"
  /\ LET s == job[c].server IN
     /\ IF registry[s] = Absent THEN Registered(c) ELSE UNCHANGED <<sup, registry>>
     /\ job' = [job EXCEPT ![c].mine = registry'[s]]
  /\ pc' = [pc EXCEPT ![c] = "start"]
  /\ UNCHANGED <<rows, watcher, streams, socket, counters, history>>

\* OdooSupervisor::start(): refused unless the last run is over.
Start(c) ==
  /\ pc[c] = "start"
  /\ IF MayStart(sup[job[c].mine].state)
     THEN Move(job[c].mine, "Starting")
     ELSE UNCHANGED <<sup, notices, moves, overlapped>>
  /\ Goto(c, "idle")
  /\ UNCHANGED <<rows, registry, watcher, log, sent, lines, ring, socket, asked, said, restarts,
                 unheard, untold, mixedUp, unwatched>>

\* What a supervisor that was started does: a stop() it accepts, or what its process,
\* its startup poll and its wait task bring about.
Moves(b) ==
  /\ sup[b] # Absent /\ sup[b].used
  /\ \E to \in MayBecome(sup[b].state) : Move(b, to)
  /\ UNCHANGED <<rows, registry, watcher, calls, log, sent, lines, ring, socket, asked, said,
                 restarts, unheard, untold, mixedUp, unwatched>>

-------------------------------------------------------------------------------
(* The listener: row, event, publication *)

Replace(x, l) == notices' = (notices \ {x}) \cup {[x EXCEPT !.at = l]}

\* Mutant: started_at is cleared by Stopped alone.
RowAfterLazily(old, what) ==
  [state |-> what, up |-> CASE what = "Running" -> TRUE [] what = "Stopped" -> FALSE [] OTHER -> old.up]

\* update_server_state: started_at is cleared when nothing runs any more.
RowAfter(old, what) ==
  [state |-> what, up |-> CASE what = "Running"              -> TRUE
                            [] what \in {"Stopped", "Crashed"} -> FALSE
                            [] OTHER                         -> old.up]

WriteRow(x) ==
  /\ x.at = "row"
  /\ row' = [row EXCEPT ![x.server] = RowAfter(row[x.server], x.what)]
  /\ IF x.what \in Told THEN Replace(x, "event") ELSE notices' = notices \ {x}
  /\ unheard' = unheard \ {x.server}
  /\ UNCHANGED <<policy, objects, calls, log, sent, lines, ring, socket, counters, overlapped,
                 untold, mixedUp, unwatched>>

\* The listener drops the error, and goes on to the event.
WriteRowFails(x) ==
  /\ x.at = "row"
  /\ "row" \in Faults
  /\ IF x.what \in Told THEN Replace(x, "event") ELSE notices' = notices \ {x}
  /\ unheard' = unheard \cup {x.server}
  /\ UNCHANGED <<rows, objects, calls, log, sent, lines, ring, socket, counters, overlapped,
                 untold, mixedUp, unwatched>>

Item(x) == [server |-> x.server, what |-> x.what, n |-> x.n]

\* Mutant: the event is broadcast, then persisted.
AppendLate(x) ==
  /\ x.at = "event"
  /\ sent' = [sent EXCEPT !["events"] = Append(@, Item(x))]
  /\ Replace(x, "publish")
  /\ UNCHANGED <<rows, objects, calls, log, lines, ring, socket, counters, history>>

AppendEvent(x) ==
  /\ x.at = "event"
  /\ log' = Append(log, Item(x))
  /\ Replace(x, "publish")
  /\ untold' = untold \ {x.server}
  /\ UNCHANGED <<rows, objects, calls, sent, lines, ring, socket, counters, overlapped, unheard,
                 mixedUp, unwatched>>

\* What could not be appended is not published either, and nobody hears of it.
AppendEventFails(x) ==
  /\ x.at = "event"
  /\ "event" \in Faults
  /\ notices' = notices \ {x}
  /\ untold' = untold \cup {x.server}
  /\ UNCHANGED <<rows, objects, calls, log, sent, lines, ring, socket, counters, overlapped, unheard,
                 mixedUp, unwatched>>

Publish(x) ==
  /\ x.at = "publish"
  /\ sent' = [sent EXCEPT !["events"] = Append(@, Item(x))]
  /\ notices' = notices \ {x}
  /\ UNCHANGED <<rows, objects, calls, log, lines, ring, socket, counters, history>>

(* record_log_line: the ring, then the channel; stdout and stderr have a task each *)

\* Mutant: the ring holds one line too many.
KeptOver(kept, line) == Append(IF Len(kept) > BufferLines THEN Tail(kept) ELSE kept, line)
Kept(kept, line) == Append(IF Len(kept) >= BufferLines THEN Tail(kept) ELSE kept, line)

ReadLine(s) ==
  /\ said < MaxLines /\ MoreInput
  /\ registry[s] # Absent /\ sup[registry[s]].state \in {"Starting", "Running", "Stopping"}
  /\ said' = said + 1
  /\ ring' = [ring EXCEPT ![s] = Kept(@, said + 1)]
  /\ lines' = lines \cup {said + 1}
  /\ UNCHANGED <<rows, objects, calls, notices, log, sent, socket, asked, moves, restarts,
                 history>>

PublishLine(i) ==
  /\ sent' = [sent EXCEPT !["logs"] = Append(@, i)]
  /\ lines' = lines \ {i}
  /\ UNCHANGED <<rows, objects, calls, notices, log, ring, socket, counters, history>>

(* The sockets: tokio broadcast receivers, and what is written to the client *)

notice    == 0  \* the line that says how many were dropped; real ones count from 1
Cap(k)    == IF k = "events" THEN EventCap ELSE LineCap
Lags(k)   == Len(sent[k]) + 1 - socket[k].next > Cap(k)
Notice(k) == IF k = "logs" THEN <<notice>> ELSE <<>>

Connect(k) ==
  /\ ~socket[k].on /\ socket[k].got = <<>>
  /\ socket' = [socket EXCEPT ![k] = [Off EXCEPT !.on = TRUE, !.next = Len(sent[k]) + 1]]
  /\ UNCHANGED <<rows, objects, calls, streams, counters, history>>

Receive(k) ==
  /\ socket[k].on /\ ~Lags(k) /\ socket[k].next <= Len(sent[k])
  /\ socket' = [socket EXCEPT ![k].got = Append(@, sent[k][socket[k].next]), ![k].next = @ + 1]
  /\ UNCHANGED <<rows, objects, calls, streams, counters, history>>

\* Mutant: a lagging log reader goes on, as an event reader does.
LagSilently(k) ==
  /\ socket[k].on /\ Lags(k)
  /\ socket' = [socket EXCEPT ![k].next = Len(sent[k]) + 1 - Cap(k), ![k].lagged = TRUE]
  /\ UNCHANGED <<rows, objects, calls, streams, counters, history>>

\* The oldest items are gone.  Only the log socket tells its client.
Lag(k) ==
  /\ socket[k].on /\ Lags(k)
  /\ socket' = [socket EXCEPT ![k].next = Len(sent[k]) + 1 - Cap(k), ![k].lagged = TRUE,
                              ![k].got = @ \o Notice(k)]
  /\ UNCHANGED <<rows, objects, calls, streams, counters, history>>

-------------------------------------------------------------------------------
(* set_reload_policy and restart_data_watcher *)

PolicyCalls(s) == {c \in Clients : job[c].server = s /\ pc[c] \in {"write", "unwatch", "read", "watch"}}

BeginPolicy(c) ==
  /\ \E s \in Servers, p \in Wishes :
       /\ Begin(c, "write", [server |-> s, policy |-> p, mine |-> Absent, new |-> Absent])
       /\ mixedUp' = IF PolicyCalls(s) = {} THEN mixedUp ELSE mixedUp \cup {s}
  /\ UNCHANGED <<rows, objects, streams, socket, moves, said, restarts, overlapped, unheard,
                 untold, unwatched>>

WritePolicy(c) ==
  /\ pc[c] = "write"
  /\ policy' = [policy EXCEPT ![job[c].server] = job[c].policy]
  /\ Goto(c, "unwatch")
  /\ UNCHANGED <<row, objects, streams, socket, counters, history>>

\* Mutant: the watcher of the last policy stays.
UnwatchNever(c) ==
  /\ pc[c] = "unwatch"
  /\ Goto(c, "read")
  /\ UNCHANGED <<rows, objects, streams, socket, counters, history>>

Unwatch(c) ==
  /\ pc[c] = "unwatch"
  /\ watcher' = watcher \ {job[c].server}
  /\ Goto(c, "read")
  /\ UNCHANGED <<rows, registry, sup, streams, socket, counters, history>>

\* The policy as it is now: another call may have written since.
ReadPolicy(c) ==
  /\ pc[c] = "read"
  /\ Goto(c, IF policy[job[c].server].data THEN "watch" ELSE "idle")
  /\ unwatched' = unwatched \ {job[c].server}
  /\ UNCHANGED <<rows, objects, streams, socket, counters, overlapped, unheard, untold, mixedUp>>

\* No watcher can be made: none of the folders to watch is there, or the system
\* refuses one.  The call answers Ok all the same.
WatchNothing(c) ==
  /\ pc[c] = "watch"
  /\ Faults \cap {"folder", "watch"} # {}
  /\ unwatched' = unwatched \cup {job[c].server}
  /\ Goto(c, "idle")
  /\ UNCHANGED <<rows, objects, streams, socket, counters, overlapped, unheard, untold, mixedUp>>

Watch(c) ==
  /\ pc[c] = "watch"
  /\ watcher' = watcher \cup {job[c].server}
  /\ Goto(c, "idle")
  /\ UNCHANGED <<rows, registry, sup, streams, socket, counters, history>>

-------------------------------------------------------------------------------
\* The app ends and opens its database again: only the rows and the log are left,
\* and nothing brings the rows up to date.
Restart ==
  /\ restarts < MaxRestarts /\ MoreInput
  /\ restarts' = restarts + 1
  /\ registry' = [s \in Servers |-> Absent]
  /\ pc' = [c \in Clients |-> "idle"] /\ job' = [c \in Clients |-> NoJob]
  /\ notices' = {} /\ lines' = {}
  /\ sent' = [k \in Sockets |-> <<>>] /\ ring' = [s \in Servers |-> <<>>]
  /\ socket' = [k \in Sockets |-> Off]
  /\ watcher' = {}
  /\ sup' = [b \in Builds |-> Absent]
  /\ overlapped' = {} /\ unheard' = Servers /\ untold' = {}
  /\ mixedUp' = Servers /\ unwatched' = {}
  /\ UNCHANGED <<rows, log, asked, moves, said>>

Call(c) ==
  \/ BeginStart(c) \/ Look(c) \/ Insert(c) \/ Start(c)
  \/ BeginPolicy(c) \/ WritePolicy(c) \/ Unwatch(c) \/ ReadPolicy(c)
  \/ Watch(c) \/ WatchNothing(c)

Next ==
  \/ \E c \in Clients : Call(c)
  \/ \E b \in Builds : Moves(b)
  \/ \E x \in notices :
       \/ WriteRow(x) \/ WriteRowFails(x)
       \/ AppendEvent(x) \/ AppendEventFails(x)
       \/ Publish(x)
  \/ \E s \in Servers : ReadLine(s)
  \/ \E i \in lines : PublishLine(i)
  \/ \E k \in Sockets : Connect(k) \/ Receive(k) \/ Lag(k)
  \/ Restart

Spec == Init /\ [][Next]_vars

-------------------------------------------------------------------------------
(* Properties *)

\* "There's never a second live supervisor for the same instance id": one that has
\* left Stopped is the registered one, and nobody else's.
OnlyRegisteredRun ==
  \A b \in Builds :
    sup[b] # Absent /\ sup[b].state # "Stopped" => registry[sup[b].server] = b

\* "So no subscriber ever observes an event that isn't already durable."
DurableFirst == ToSet(socket["events"].got) \subseteq ToSet(log)

\* The last that a sequence of items tells of a server; no news is Stopped.
LastTold(seq, s, what) ==
  \/ \E i \in DOMAIN seq : /\ seq[i].server = s /\ seq[i].what = what
                          /\ \A j \in DOMAIN seq : j > i => seq[j].server # s
  \/ what = "Stopped" /\ \A i \in DOMAIN seq : seq[i].server # s

\* The three accounts of an Odoo agree once its listener is through: the row that
\* REST reads is the supervisor's state, a server that is not up has no uptime,
\* and a client that has read all that was sent to it since the app came up, and
\* did not lag, saw that state last.  Each account is excused by its own failures
\* alone and until its next success: a row that could not be written does not keep
\* the event from the clients, and an event that could not be appended does not
\* spoil the row.  Two transitions reported at once are excused altogether.
AccountsAgree ==
  \A s \in Servers :
    /\ registry[s] # Absent
    /\ s \notin overlapped
    /\ \A x \in notices : x.server # s
    => LET now == sup[registry[s]].state IN
       /\ s \notin unheard =>
            /\ row[s].state = now
            /\ now \in {"Stopped", "Crashed"} => ~row[s].up
            /\ now = "Running" => row[s].up
       /\ s \notin untold
            /\ now \in Told /\ socket["events"].on /\ ~socket["events"].lagged
            /\ socket["events"].next = Len(sent["events"]) + 1
            /\ Len(socket["events"].got) = Len(sent["events"])
          => LastTold(socket["events"].got, s, now)

\* "So a gap in a traceback is never mistaken for the end of it": between two lines
\* a log client got next to each other nothing was sent that it did not get.
GapsAreTold ==
  LET got == socket["logs"].got IN
  \A i \in 1 .. Len(got) - 1 :
    got[i] # notice /\ got[i + 1] # notice =>
      \E p \in 1 .. Len(sent["logs"]) - 1 : sent["logs"][p] = got[i] /\ sent["logs"][p + 1] = got[i + 1]

\* The map "is the on/off switch": when no policy call is under way and none
\* overlapped another, a server is not watched against its policy, whatever went
\* wrong; and it is watched if its policy says so, unless its last policy call
\* could make no watcher.
PolicyIsWatched ==
  \A s \in Servers \ mixedUp :
    PolicyCalls(s) = {} =>
      /\ s \in watcher => policy[s].data
      /\ policy[s].data => s \in watcher \/ s \in unwatched

-------------------------------------------------------------------------------
(* What a comment of lib.rs says, and the code does not do *)

\* A reload policy "takes effect on the Odoo's next start": an Odoo that is started
\* by a call that began after the policy was written runs with it.
NextStartHonoursPolicy ==
  [][\A c \in Clients :
       Start(c) /\ moves' # moves => sup[job[c].mine].dev = job[c].new.dev]_vars
===============================================================================
