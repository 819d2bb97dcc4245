----------------------------- MODULE FleetProofs -----------------------------
(***************************************************************************)
(* What holds of Fleet for any clients, servers, capacities and bounds.    *)
(* The parts of the invariant follow the parts of the system: whose a      *)
(* supervisor is (Registration), what is in the log before it is anywhere  *)
(* else (Durability), what a receiver has of what was sent (LogStream and  *)
(* EventReceiver), where a policy call has brought the watcher (Watching), *)
(* and how far the one notice of a server under way has got (Accounts).    *)
(***************************************************************************)
EXTENDS Fleet, SequenceTheorems, TLAPS

Notices == [n: 1 .. MaxMoves, server: Servers, what: States, at: {"row", "event", "publish"}]
Jobs    == [server: Servers \cup {Absent}, new: Supervisors \cup {Absent},
            policy: Policies \cup {Absent}, mine: Builds \cup {Absent}]
Stuff(k) == IF k = "events" THEN Items ELSE 0 .. MaxLines
Receiver(k) == [on: BOOLEAN, next: Nat, got: Seq(Stuff(k)), lagged: BOOLEAN]

\* TypeOK, and the rest of what the variables may be.
RowTypes ==
  /\ policy \in [Servers -> Policies]
  /\ row \in [Servers -> [state: States, up: BOOLEAN]]

ObjectTypes ==
  /\ registry \in [Servers -> Builds \cup {Absent}]
  /\ sup \in [Builds -> Supervisors \cup {Absent}]
  /\ watcher \subseteq Servers

CallTypes ==
  /\ pc \in [Clients -> {"idle"} \cup WorkLocs]
  /\ job \in [Clients -> Jobs]

NoticeTypes ==
  /\ notices \subseteq Notices
  /\ \A x \in notices : x.at # "row" => x.what \in Told
  /\ log \in Seq(Items)

LineTypes ==
  /\ lines \subseteq 1 .. MaxLines
  /\ ring \in [Servers -> Seq(1 .. MaxLines)]
  /\ \A s \in Servers : Len(ring[s]) <= BufferLines

StreamTypes ==
  /\ sent = [k \in Sockets |-> sent[k]]
  /\ sent["events"] \in Seq(Items) /\ sent["logs"] \in Seq(1 .. MaxLines)
  /\ socket = [k \in Sockets |-> socket[k]]
  /\ \A k \in Sockets : socket[k] \in Receiver(k) /\ socket[k].next \in 1 .. Len(sent[k]) + 1

CountTypes ==
  /\ asked \in 0 .. MaxAsked /\ moves \in 0 .. MaxMoves
  /\ said \in 0 .. MaxLines /\ restarts \in 0 .. MaxRestarts
  /\ overlapped \subseteq Servers /\ unheard \subseteq Servers /\ untold \subseteq Servers
  /\ mixedUp \subseteq Servers /\ unwatched \subseteq Servers

Types ==
  /\ RowTypes
  /\ ObjectTypes
  /\ CallTypes
  /\ NoticeTypes
  /\ LineTypes
  /\ StreamTypes
  /\ CountTypes

\* What a call has by the time it is there.
Jobbing ==
  \A c \in Clients :
    /\ pc[c] # "idle" => job[c].server \in Servers
    /\ pc[c] \in {"look", "insert"} =>
         /\ job[c].new \in Supervisors
         /\ job[c].new.server = job[c].server /\ job[c].new.state = "Stopped"
    /\ pc[c] = "start" => job[c].mine \in Builds /\ job[c].mine = registry[job[c].server]
    /\ pc[c] = "write" => job[c].policy \in Policies

\* A supervisor that was built is the registered one of its server; the number a
\* call would use to build one is still free, and nobody else's.
Registration ==
  /\ \A b \in Builds : sup[b] # Absent => b <= asked /\ registry[sup[b].server] = b
  /\ \A s \in Servers : registry[s] # Absent => sup[registry[s]] # Absent /\ sup[registry[s]].server = s
  /\ \A c \in Clients : pc[c] \in {"look", "insert"} =>
       job[c].mine \in Builds /\ job[c].mine <= asked /\ sup[job[c].mine] = Absent
  /\ \A c, d \in Clients :
       pc[c] \in {"look", "insert"} /\ pc[d] \in {"look", "insert"} /\ job[c].mine = job[d].mine => c = d

\* An event is in the log before it is published, and published before it is received.
Durability ==
  /\ \A x \in notices : x.at = "publish" => Item(x) \in ToSet(log)
  /\ ToSet(sent["events"]) \subseteq ToSet(log)
  /\ ToSet(socket["events"].got) \subseteq ToSet(log)

\* The last line a log client got is the one before the next it will get, or the
\* notice that there is a gap.
EndsBefore(got, seq, next) ==
  got # <<>> /\ got[Len(got)] # notice => next > 1 /\ seq[next - 1] = got[Len(got)]

\* GapsAreTold, of any sequences.
Adjoining(got, seq) ==
  \A i \in 1 .. Len(got) - 1 :
    got[i] # notice /\ got[i + 1] # notice =>
      \E p \in 1 .. Len(seq) - 1 : seq[p] = got[i] /\ seq[p + 1] = got[i + 1]

LogStream ==
  /\ EndsBefore(socket["logs"].got, sent["logs"], socket["logs"].next)
  /\ Adjoining(socket["logs"].got, sent["logs"])

\* What was received is the end of what was sent before `next'.
IsWindow(got, seq, next) ==
  /\ Len(got) < next
  /\ \A i \in 1 .. Len(got) : got[i] = seq[next - 1 - Len(got) + i]

\* A client of the events that never lagged has all events since it connected.
EventReceiver ==
  socket["events"].lagged \/
  IsWindow(socket["events"].got, sent["events"], socket["events"].next)

\* Where a policy call that nobody disturbs has brought the watcher of its server.
Watching ==
  \A s \in Servers \ mixedUp :
    /\ \A c, d \in PolicyCalls(s) : c = d
    /\ PolicyCalls(s) = {} => /\ s \in watcher => policy[s].data
                              /\ policy[s].data => s \in watcher \/ s \in unwatched
    /\ \A c \in PolicyCalls(s) :
         /\ pc[c] \in {"read", "watch"} => s \notin watcher
         /\ pc[c] = "watch" => policy[s].data

RowAgrees(s) ==
  LET now == sup[registry[s]].state IN
  /\ row[s].state = now
  /\ now \in {"Stopped", "Crashed"} => ~row[s].up
  /\ now = "Running" => row[s].up

\* Nobody has heard of a server whose supervisor is not built.
Unknown(s) ==
  registry[s] = Absent =>
    /\ \A x \in notices : x.server # s
    /\ \A i \in DOMAIN sent["events"] : sent["events"][i].server # s
    /\ s \notin unheard => row[s].state = "Stopped" /\ ~row[s].up

\* How far the account of a server is whose transitions were reported one at a time.
Known(s) ==
  s \notin overlapped /\ registry[s] # Absent =>
    /\ \A x, y \in notices : x.server = s /\ y.server = s => x = y
    /\ \A x \in notices : x.server = s => x.what = sup[registry[s]].state
    /\ s \notin unheard /\ (\A x \in notices : x.server = s => x.at # "row") => RowAgrees(s)
    /\ s \notin untold /\ sup[registry[s]].state \in Told /\ (\A x \in notices : x.server # s) =>
         LastTold(sent["events"], s, sup[registry[s]].state)

Accounts == \A s \in Servers : Unknown(s) /\ Known(s)

\* The inductive invariant.
Order ==
  /\ Types
  /\ Jobbing
  /\ Registration
  /\ Durability
  /\ LogStream
  /\ EventReceiver
  /\ Watching
  /\ Accounts

-------------------------------------------------------------------------------
USE DEF rows, objects, calls, streams, counters, history

\* The ring keeps at most BufferLines lines.
LEMMA KeptBounded ==
  ASSUME NEW S, NEW kept \in Seq(S), NEW line \in S, Len(kept) <= BufferLines
  PROVE  Kept(kept, line) \in Seq(S) /\ Len(Kept(kept, line)) <= BufferLines
<1> USE ConstantsAssumption DEF Kept
<1>1. CASE Len(kept) >= BufferLines
  <2>1. kept # <<>>
    BY <1>1
  <2>2. Tail(kept) \in Seq(S) /\ Len(Tail(kept)) = Len(kept) - 1
    BY <2>1, HeadTailProperties
  <2> QED
    BY <1>1, <2>2, AppendProperties
<1>2. CASE ~(Len(kept) >= BufferLines)
  BY <1>2, AppendProperties
<1> QED
  BY <1>1, <1>2

\* A supervisor whose state and history have changed is otherwise as it was.
LEMMA NewState ==
  ASSUME NEW one \in Supervisors, NEW to, NEW u
  PROVE  [[one EXCEPT !.state = to] EXCEPT !.used = u] =
           [state |-> to, server |-> one.server, dev |-> one.dev, used |-> u]
<1>1. [one EXCEPT !.state = to] = [state |-> to, server |-> one.server, dev |-> one.dev, used |-> one.used]
  BY DEF Supervisors
<1> DEFINE moved == [state |-> to, server |-> one.server, dev |-> one.dev, used |-> one.used]
<1>2. [moved EXCEPT !.used = u] = [state |-> to, server |-> one.server, dev |-> one.dev, used |-> u]
  OBVIOUS
<1> HIDE DEF moved
<1>3. [one EXCEPT !.state = to] = moved
  BY <1>1 DEF moved
<1> QED
  BY <1>2, <1>3

\* What a transition changes, for a supervisor that was built.
LEMMA MoveEffect ==
  ASSUME Types, NEW b \in Builds, sup[b] # Absent, NEW to \in States, Move(b, to)
  PROVE  /\ sup' \in [Builds -> Supervisors \cup {Absent}]
         /\ sup'[b] \in Supervisors /\ sup'[b].state = to /\ sup'[b].server = sup[b].server
         /\ \A d \in Builds \ {b} : sup'[d] = sup[d]
         /\ moves' \in 0 .. MaxMoves /\ overlapped' \subseteq Servers
         /\ \E x \in Notices : /\ x.server = sup[b].server /\ x.what = to /\ x.at = "row"
                               /\ notices' = notices \cup {x}
<1> USE DEF Types, ObjectTypes, NoticeTypes, CountTypes, Supervisors, Notices
<1>1. sup[b] \in Supervisors
  OBVIOUS
<1> DEFINE new == [state |-> to, server |-> sup[b].server, dev |-> sup[b].dev, used |-> TRUE]
<1>2. sup' = [sup EXCEPT ![b] = new]
  <2>1. sup' = [sup EXCEPT ![b] = [[sup[b] EXCEPT !.state = to] EXCEPT !.used = TRUE]]
    BY DEF Move
  <2>2. [[sup[b] EXCEPT !.state = to] EXCEPT !.used = TRUE] = new
    BY <1>1, NewState
  <2> QED
    BY <2>1, <2>2
<1>3. moves + 1 \in 1 .. MaxMoves /\ moves' = moves + 1
  BY ConstantsAssumption DEF Move
<1>4. [n |-> moves + 1, server |-> sup[b].server, what |-> to, at |-> "row"] \in Notices
  BY <1>1, <1>3
<1>5. overlapped' \subseteq Servers
  BY <1>1 DEF Move
<1>6. new \in Supervisors /\ new.state = to /\ new.server = sup[b].server
  BY <1>1
<1> HIDE DEF new
<1>7. notices' = notices \cup {[n |-> moves + 1, server |-> sup[b].server, what |-> to, at |-> "row"]}
  BY DEF Move
<1>8. \E x \in Notices : /\ x.server = sup[b].server /\ x.what = to /\ x.at = "row"
                         /\ notices' = notices \cup {x}
  BY <1>4, <1>7
<1>9. moves' \in 0 .. MaxMoves
  BY <1>3, ConstantsAssumption
<1> QED
  BY <1>2, <1>5, <1>6, <1>8, <1>9

\* What the progress of a notice changes.
LEMMA ReplaceEffect ==
  ASSUME Types, NEW x \in notices, NEW l \in {"row", "event", "publish"}, Replace(x, l)
  PROVE  \E y \in Notices : /\ y.n = x.n /\ y.server = x.server /\ y.what = x.what /\ y.at = l
                            /\ notices' = (notices \ {x}) \cup {y}
<1> USE DEF Types, NoticeTypes, Notices
<1>1. [x EXCEPT !.at = l] = [n |-> x.n, server |-> x.server, what |-> x.what, at |-> l]
  OBVIOUS
<1>2. [x EXCEPT !.at = l] \in Notices
  BY <1>1
<1> QED
  BY <1>1, <1>2 DEF Replace

\* What is sent has the type of what is received.
LEMMA SentTypes ==
  ASSUME Types, NEW k \in Sockets
  PROVE  sent[k] \in Seq(Stuff(k)) /\ Len(sent[k]) \in Nat /\ socket[k] \in Receiver(k)
<1>1. CASE k = "events"
  BY <1>1 DEF Types, StreamTypes, Stuff
<1>2. CASE k = "logs"
  <2>1. sent["logs"] \in Seq(1 .. MaxLines) /\ 1 .. MaxLines \subseteq 0 .. MaxLines
    BY DEF Types, StreamTypes
  <2>2. sent["logs"] \in Seq(0 .. MaxLines)
    BY <2>1, SeqMonotonic
  <2> QED
    BY <1>2, <2>2 DEF Types, StreamTypes, Stuff
<1> QED
  BY <1>1, <1>2 DEF Sockets

\* What a publication changes.
LEMMA SentGrows ==
  ASSUME Types, NEW k \in Sockets, NEW e, sent' = [sent EXCEPT ![k] = Append(@, e)]
  PROVE  /\ sent'[k] = Append(sent[k], e)
         /\ \A j \in Sockets \ {k} : sent'[j] = sent[j]
         /\ sent' = [j \in Sockets |-> sent'[j]]
BY DEF Types, StreamTypes

\* What the step of a socket changes.
LEMMA SocketMoves ==
  ASSUME Types, NEW k \in Sockets, NEW r, socket' = [socket EXCEPT ![k] = r]
  PROVE  /\ socket'[k] = r
         /\ \A j \in Sockets \ {k} : socket'[j] = socket[j]
         /\ socket' = [j \in Sockets |-> socket'[j]]
BY DEF Types, StreamTypes

\* A step to a receiver of its type keeps StreamTypes.
LEMMA ReceiverTypes ==
  ASSUME Types, NEW k \in Sockets, NEW r \in Receiver(k), r.next \in 1 .. Len(sent[k]) + 1,
         socket' = [socket EXCEPT ![k] = r], UNCHANGED sent
  PROVE  StreamTypes'
<1>1. /\ socket'[k] = r
      /\ \A j \in Sockets \ {k} : socket'[j] = socket[j]
      /\ socket' = [j \in Sockets |-> socket'[j]]
  BY SocketMoves
<1> QED
  BY <1>1 DEF Types, StreamTypes

\* A receiver in full.
LEMMA ReceiverStep ==
  ASSUME Types, NEW k \in Sockets
  PROVE  /\ Connect(k) => socket' = [socket EXCEPT ![k] =
              [on |-> TRUE, next |-> Len(sent[k]) + 1, got |-> <<>>, lagged |-> FALSE]]
         /\ Receive(k) => socket' = [socket EXCEPT ![k] =
              [on |-> socket[k].on, next |-> socket[k].next + 1,
               got |-> Append(socket[k].got, sent[k][socket[k].next]), lagged |-> socket[k].lagged]]
         /\ Lag(k) => socket' = [socket EXCEPT ![k] =
              [on |-> socket[k].on, next |-> Len(sent[k]) + 1 - Cap(k),
               got |-> socket[k].got \o Notice(k), lagged |-> TRUE]]
<1> USE DEF Types, StreamTypes, Receiver
<1>1. socket[k] \in Receiver(k)
  OBVIOUS
<1>2. Connect(k) => socket' = [socket EXCEPT ![k] =
        [on |-> TRUE, next |-> Len(sent[k]) + 1, got |-> <<>>, lagged |-> FALSE]]
  BY <1>1 DEF Connect, Off
<1>3. Receive(k) => socket' = [socket EXCEPT ![k] =
        [on |-> socket[k].on, next |-> socket[k].next + 1,
         got |-> Append(socket[k].got, sent[k][socket[k].next]), lagged |-> socket[k].lagged]]
  BY <1>1 DEF Receive
<1>4. Lag(k) => socket' = [socket EXCEPT ![k] =
        [on |-> socket[k].on, next |-> Len(sent[k]) + 1 - Cap(k),
         got |-> socket[k].got \o Notice(k), lagged |-> TRUE]]
  BY <1>1, ZenonT(40) DEF Lag
<1> QED
  BY <1>2, <1>3, <1>4

\* The same, field by field.
LEMMA ReceiverEffect ==
  ASSUME Types, NEW k \in Sockets
  PROVE  /\ Connect(k) \/ Receive(k) \/ Lag(k) => \A j \in Sockets \ {k} : socket'[j] = socket[j]
         /\ Connect(k) => /\ socket'[k].got = <<>> /\ socket'[k].next = Len(sent[k]) + 1
                          /\ socket'[k].lagged = FALSE
         /\ Receive(k) => /\ socket'[k].got = Append(socket[k].got, sent[k][socket[k].next])
                          /\ socket'[k].next = socket[k].next + 1
                          /\ socket'[k].lagged = socket[k].lagged
         /\ Lag(k) => /\ socket'[k].got = socket[k].got \o Notice(k)
                      /\ socket'[k].next = Len(sent[k]) + 1 - Cap(k)
                      /\ socket'[k].lagged = TRUE
<1>1. ASSUME Connect(k)
      PROVE  /\ socket'[k] = [on |-> TRUE, next |-> Len(sent[k]) + 1, got |-> <<>>, lagged |-> FALSE]
             /\ \A j \in Sockets \ {k} : socket'[j] = socket[j]
  <2> DEFINE r == [on |-> TRUE, next |-> Len(sent[k]) + 1, got |-> <<>>, lagged |-> FALSE]
  <2>1. socket' = [socket EXCEPT ![k] = r]
    BY <1>1, ReceiverStep
  <2> HIDE DEF r
  <2>2. socket'[k] = r /\ \A j \in Sockets \ {k} : socket'[j] = socket[j]
    BY <2>1, SocketMoves
  <2> QED
    BY <2>2 DEF r
<1>2. ASSUME Receive(k)
      PROVE  /\ socket'[k] = [on |-> socket[k].on, next |-> socket[k].next + 1,
                              got |-> Append(socket[k].got, sent[k][socket[k].next]),
                              lagged |-> socket[k].lagged]
             /\ \A j \in Sockets \ {k} : socket'[j] = socket[j]
  BY <1>2, ReceiverStep, SocketMoves, ZenonT(40)
<1>3. ASSUME Lag(k)
      PROVE  /\ socket'[k] = [on |-> socket[k].on, next |-> Len(sent[k]) + 1 - Cap(k),
                              got |-> socket[k].got \o Notice(k), lagged |-> TRUE]
             /\ \A j \in Sockets \ {k} : socket'[j] = socket[j]
  BY <1>3, ReceiverStep, SocketMoves
<1> QED
  BY <1>1, <1>2, <1>3, SMTT(30)

\* The supervisor a start() is called on is the registered one of its server.
LEMMA StartsRegistered ==
  ASSUME Types, Jobbing, Registration, NEW c \in Clients, pc[c] = "start"
  PROVE  /\ job[c].server \in Servers /\ job[c].mine \in Builds
         /\ job[c].mine = registry[job[c].server]
         /\ sup[job[c].mine] \in Supervisors /\ sup[job[c].mine] # Absent
         /\ sup[job[c].mine].server = job[c].server
<1>1. job[c].server \in Servers /\ job[c].mine \in Builds /\ job[c].mine = registry[job[c].server]
  BY DEF Jobbing
<1>2. registry[job[c].server] # Absent
  BY <1>1, ConstantsAssumption DEF Builds
<1> QED
  BY <1>1, <1>2 DEF Registration, Types, ObjectTypes

\* A row is written by a listener and by set_reload_policy, with what it may hold.
LEMMA NextRows == Types /\ Jobbing /\ [Next]_vars => RowTypes'
<1> SUFFICES ASSUME Types, Jobbing, [Next]_vars PROVE RowTypes'
  OBVIOUS
<1> USE ConstantsAssumption
        DEF Types, RowTypes, CallTypes, Jobbing,
     NoticeTypes, Notices, States, Policies
<1>1. ASSUME NEW x \in notices, WriteRow(x) PROVE RowTypes'
  BY <1>1 DEF WriteRow, Replace, RowAfter
<1>2. ASSUME NEW c \in Clients, WritePolicy(c) PROVE RowTypes'
  BY <1>2 DEF WritePolicy, Goto
<1>3. ASSUME NEW c \in Clients,
             BeginStart(c) \/ Look(c) \/ Insert(c) \/ Start(c) \/
             BeginPolicy(c) \/ Unwatch(c) \/ ReadPolicy(c) \/ Watch(c) \/ WatchNothing(c)
      PROVE  RowTypes'
  <2>1. UNCHANGED <<policy, row>>
    BY <1>3 DEF BeginStart, Begin, Look, Goto, Insert, Registered, Start,
                Move, BeginPolicy, Unwatch, ReadPolicy, Watch, WatchNothing
  <2> QED
    BY <2>1 DEF Types, RowTypes
<1>4. ASSUME NEW b \in Builds,
             Moves(b)
      PROVE  RowTypes'
  <2>1. UNCHANGED <<policy, row>>
    BY <1>4 DEF Moves, Move
  <2> QED
    BY <2>1 DEF Types, RowTypes
<1>5. ASSUME NEW x \in notices,
             WriteRowFails(x) \/ AppendEvent(x) \/ AppendEventFails(x) \/ Publish(x)
      PROVE  RowTypes'
  <2>1. UNCHANGED <<policy, row>>
    BY <1>5 DEF WriteRowFails, AppendEvent, AppendEventFails, Replace, Publish
  <2> QED
    BY <2>1 DEF Types, RowTypes
<1>6. ASSUME NEW s \in Servers,
             ReadLine(s)
      PROVE  RowTypes'
  <2>1. UNCHANGED <<policy, row>>
    BY <1>6 DEF ReadLine
  <2> QED
    BY <2>1 DEF Types, RowTypes
<1>7. ASSUME NEW i \in lines,
             PublishLine(i)
      PROVE  RowTypes'
  <2>1. UNCHANGED <<policy, row>>
    BY <1>7 DEF PublishLine
  <2> QED
    BY <2>1 DEF Types, RowTypes
<1>8. ASSUME NEW k \in Sockets,
             Connect(k) \/ Receive(k) \/ Lag(k)
      PROVE  RowTypes'
  <2>1. UNCHANGED <<policy, row>>
    BY <1>8 DEF Connect, Receive, Lag
  <2> QED
    BY <2>1 DEF Types, RowTypes
<1>9. CASE Restart \/ UNCHANGED vars
  <2>1. UNCHANGED <<policy, row>>
    BY <1>9 DEF Restart, vars
  <2> QED
    BY <2>1 DEF Types, RowTypes
<1> QED
  BY <1>1, <1>2, <1>3, <1>4, <1>5, <1>6, <1>7, <1>8, <1>9
     DEF Next, Call

\* get_or_create_odoo_supervisor registers a supervisor under a number that it has; a
\* start() and a transition leave it one.
LEMMA NextObjects == Types /\ Jobbing /\ Registration /\ [Next]_vars => ObjectTypes'
<1> SUFFICES ASSUME Types, Jobbing, Registration, [Next]_vars PROVE ObjectTypes'
  OBVIOUS
<1> USE ConstantsAssumption
        DEF ObjectTypes, States
<1>1. ASSUME NEW c \in Clients, Insert(c) PROVE ObjectTypes'
  <2>1. job[c].server \in Servers /\ job[c].mine \in Builds /\ job[c].new \in Supervisors
    BY <1>1 DEF Insert, Jobbing, Registration
  <2> QED
    BY <1>1, <2>1 DEF Insert, Registered, Types
<1>2. ASSUME NEW c \in Clients, Start(c) PROVE ObjectTypes'
  <2>1. CASE MayStart(sup[job[c].mine].state)
    <3>1. Move(job[c].mine, "Starting")
      BY <1>2, <2>1 DEF Start
    <3> QED
      BY <1>2, <3>1, StartsRegistered, MoveEffect DEF Start, Types
  <2>2. CASE ~MayStart(sup[job[c].mine].state)
    BY <1>2, <2>2 DEF Start, Types
  <2> QED
    BY <2>1, <2>2
<1>3. ASSUME NEW b \in Builds, Moves(b) PROVE ObjectTypes'
  <2>1. PICK to \in MayBecome(sup[b].state) : Move(b, to)
    BY <1>3 DEF Moves
  <2>2. to \in States
    BY <1>3 DEF Moves, MayBecome, Types, Supervisors
  <2> QED
    BY <1>3, <2>1, <2>2, MoveEffect DEF Moves, Types
<1>4. ASSUME NEW c \in Clients, Unwatch(c) PROVE ObjectTypes'
  BY <1>4 DEF Unwatch, Goto, Types
<1>5. ASSUME NEW c \in Clients, Watch(c) \/ WatchNothing(c) PROVE ObjectTypes'
  BY <1>5 DEF Watch, WatchNothing, Goto, Types, CallTypes, Jobbing
<1>6. CASE Restart
  BY <1>6 DEF Restart, Types
<1>7. ASSUME NEW c \in Clients,
             BeginStart(c) \/ Look(c) \/ BeginPolicy(c) \/
             WritePolicy(c) \/ ReadPolicy(c)
      PROVE  ObjectTypes'
  <2>1. UNCHANGED <<registry, sup, watcher>>
    BY <1>7 DEF BeginStart, Begin, Look, Goto, BeginPolicy, WritePolicy,
                ReadPolicy
  <2> QED
    BY <2>1 DEF Types, ObjectTypes
<1>8. ASSUME NEW x \in notices,
             WriteRow(x) \/ WriteRowFails(x) \/ AppendEvent(x) \/ AppendEventFails(x) \/ Publish(x)
      PROVE  ObjectTypes'
  <2>1. UNCHANGED <<registry, sup, watcher>>
    BY <1>8 DEF WriteRow, WriteRowFails, Replace, AppendEvent, AppendEventFails, Publish
  <2> QED
    BY <2>1 DEF Types, ObjectTypes
<1>9. ASSUME NEW s \in Servers,
             ReadLine(s)
      PROVE  ObjectTypes'
  <2>1. UNCHANGED <<registry, sup, watcher>>
    BY <1>9 DEF ReadLine
  <2> QED
    BY <2>1 DEF Types, ObjectTypes
<1>10. ASSUME NEW i \in lines,
             PublishLine(i)
      PROVE  ObjectTypes'
  <2>1. UNCHANGED <<registry, sup, watcher>>
    BY <1>10 DEF PublishLine
  <2> QED
    BY <2>1 DEF Types, ObjectTypes
<1>11. ASSUME NEW k \in Sockets,
             Connect(k) \/ Receive(k) \/ Lag(k)
      PROVE  ObjectTypes'
  <2>1. UNCHANGED <<registry, sup, watcher>>
    BY <1>11 DEF Connect, Receive, Lag
  <2> QED
    BY <2>1 DEF Types, ObjectTypes
<1>12. CASE UNCHANGED vars
  <2>1. UNCHANGED <<registry, sup, watcher>>
    BY <1>12 DEF vars
  <2> QED
    BY <2>1 DEF Types, ObjectTypes
<1> QED
  BY <1>1, <1>2, <1>3, <1>4, <1>5, <1>6, <1>7, <1>8, <1>9, <1>10, <1>11,
     <1>12
     DEF Next, Call

\* Every call goes to a place where there is a next step, with what that step uses.
LEMMA NextCalls == Types /\ Jobbing /\ Registration /\ [Next]_vars => CallTypes'
<1> SUFFICES ASSUME Types, Jobbing, Registration, [Next]_vars PROVE CallTypes'
  OBVIOUS
<1> USE ConstantsAssumption
        DEF Types, CallTypes, WorkLocs
<1>1. ASSUME NEW c \in Clients, BeginStart(c) PROVE CallTypes'
  <2> DEFINE j(s) == [server |-> s, policy |-> Absent, mine |-> asked + 1,
                      new |-> [state |-> "Stopped", server |-> s, dev |-> policy[s].python,
                               used |-> FALSE]]
  <2>2. PICK s \in Servers : Begin(c, "look", j(s))
    BY <1>1 DEF BeginStart
  <2>3. policy[s].python \in BOOLEAN /\ asked + 1 \in Builds
    BY <2>2 DEF Begin, RowTypes, CountTypes, Policies, Builds
  <2>4. j(s) \in Jobs
    BY <2>3 DEF Jobs, Supervisors, States
  <2> QED
    BY <2>2, <2>4 DEF Begin
<1>2. ASSUME NEW c \in Clients, Look(c) PROVE CallTypes'
  <2>1. job[c].server \in Servers
    BY <1>2 DEF Look, Jobbing
  <2>2. [job[c] EXCEPT !.mine = registry[job[c].server]] \in Jobs
    BY <2>1 DEF Jobs, ObjectTypes
  <2> QED
    BY <1>2, <2>2 DEF Look, Goto
<1>3. ASSUME NEW c \in Clients, Insert(c) PROVE CallTypes'
  <2>1. job[c].server \in Servers /\ job[c].mine \in Builds
    BY <1>3 DEF Insert, Jobbing, Registration
  <2>2. registry'[job[c].server] \in Builds \cup {Absent}
    BY <1>3, <2>1 DEF Insert, Registered, ObjectTypes
  <2>3. [job[c] EXCEPT !.mine = registry'[job[c].server]] \in Jobs
    BY <2>2 DEF Jobs
  <2> QED
    BY <1>3, <2>3 DEF Insert
<1>4. ASSUME NEW c \in Clients, Start(c) PROVE CallTypes'
  BY <1>4 DEF Start, Move, Goto, Jobs, NoJob
<1>5. ASSUME NEW c \in Clients, BeginPolicy(c) PROVE CallTypes'
  <2> DEFINE j(s, p) == [server |-> s, policy |-> p, mine |-> Absent, new |-> Absent]
  <2>2. PICK s \in Servers, p \in Wishes : Begin(c, "write", j(s, p))
    BY <1>5 DEF BeginPolicy
  <2>3. j(s, p) \in Jobs
    BY DEF Jobs
  <2> QED
    BY <2>2, <2>3 DEF Begin
<1>6. ASSUME NEW c \in Clients, WritePolicy(c) PROVE CallTypes'
  BY <1>6 DEF WritePolicy, Goto, Jobs, NoJob
<1>7. ASSUME NEW c \in Clients, Unwatch(c) PROVE CallTypes'
  BY <1>7 DEF Unwatch, Goto, Jobs, NoJob
<1>8. ASSUME NEW c \in Clients, ReadPolicy(c) PROVE CallTypes'
  BY <1>8 DEF ReadPolicy, Goto, Jobs, NoJob
<1>9. ASSUME NEW c \in Clients, Watch(c) \/ WatchNothing(c) PROVE CallTypes'
  BY <1>9 DEF Watch, WatchNothing, Goto, Jobs, NoJob
<1>10. CASE Restart
  BY <1>10 DEF Restart, Jobs, NoJob
<1>11. ASSUME NEW b \in Builds,
             Moves(b)
      PROVE  CallTypes'
  <2>1. UNCHANGED <<pc, job>>
    BY <1>11 DEF Moves, Move
  <2> QED
    BY <2>1 DEF Types, CallTypes
<1>12. ASSUME NEW x \in notices,
             WriteRow(x) \/ WriteRowFails(x) \/ AppendEvent(x) \/ AppendEventFails(x) \/ Publish(x)
      PROVE  CallTypes'
  <2>1. UNCHANGED <<pc, job>>
    BY <1>12 DEF WriteRow, WriteRowFails, Replace, AppendEvent, AppendEventFails, Publish
  <2> QED
    BY <2>1 DEF Types, CallTypes
<1>13. ASSUME NEW s \in Servers,
             ReadLine(s)
      PROVE  CallTypes'
  <2>1. UNCHANGED <<pc, job>>
    BY <1>13 DEF ReadLine
  <2> QED
    BY <2>1 DEF Types, CallTypes
<1>14. ASSUME NEW i \in lines,
             PublishLine(i)
      PROVE  CallTypes'
  <2>1. UNCHANGED <<pc, job>>
    BY <1>14 DEF PublishLine
  <2> QED
    BY <2>1 DEF Types, CallTypes
<1>15. ASSUME NEW k \in Sockets,
             Connect(k) \/ Receive(k) \/ Lag(k)
      PROVE  CallTypes'
  <2>1. UNCHANGED <<pc, job>>
    BY <1>15 DEF Connect, Receive, Lag
  <2> QED
    BY <2>1 DEF Types, CallTypes
<1>16. CASE UNCHANGED vars
  <2>1. UNCHANGED <<pc, job>>
    BY <1>16 DEF vars
  <2> QED
    BY <2>1 DEF Types, CallTypes
<1> QED
  BY <1>1, <1>2, <1>3, <1>4, <1>5, <1>6, <1>7, <1>8, <1>9, <1>10, <1>11,
     <1>12, <1>13, <1>14, <1>15, <1>16
     DEF Next, Call

\* A transition is a row first; only one that has an event gets further.
LEMMA NextNotices == Types /\ Jobbing /\ Registration /\ [Next]_vars => NoticeTypes'
<1> SUFFICES ASSUME Types, Jobbing, Registration, [Next]_vars PROVE NoticeTypes'
  OBVIOUS
<1> USE ConstantsAssumption
        DEF Types, NoticeTypes, Notices
<1>1. ASSUME NEW c \in Clients, Start(c) PROVE NoticeTypes'
  <2>1. CASE MayStart(sup[job[c].mine].state)
    <3>1. Move(job[c].mine, "Starting")
      BY <1>1, <2>1 DEF Start
    <3>2. "Starting" \in States
      BY DEF States
    <3> QED
      BY <1>1, <3>1, <3>2, StartsRegistered, MoveEffect DEF Start
  <2>2. CASE ~MayStart(sup[job[c].mine].state)
    BY <1>1, <2>2 DEF Start
  <2> QED
    BY <2>1, <2>2
<1>2. ASSUME NEW b \in Builds, Moves(b) PROVE NoticeTypes'
  <2>1. PICK to \in MayBecome(sup[b].state) : Move(b, to)
    BY <1>2 DEF Moves
  <2>2. to \in States
    BY <1>2 DEF Moves, MayBecome, Supervisors, States, ObjectTypes
  <2> QED
    BY <1>2, <2>1, <2>2, MoveEffect DEF Moves
<1>3. ASSUME NEW x \in notices, WriteRow(x) \/ WriteRowFails(x) PROVE NoticeTypes'
  <2>1. CASE x.what \in Told
    BY <1>3, <2>1, ReplaceEffect DEF WriteRow, WriteRowFails
  <2>2. CASE x.what \notin Told
    BY <1>3, <2>2 DEF WriteRow, WriteRowFails
  <2> QED
    BY <2>1, <2>2
<1>4. ASSUME NEW x \in notices, AppendEvent(x) PROVE NoticeTypes'
  <2>1. Item(x) \in Items
    BY <1>4 DEF AppendEvent, Item, Items
  <2>2. log' \in Seq(Items)
    BY <1>4, <2>1, AppendProperties DEF AppendEvent
  <2>3. x.what \in Told /\ Replace(x, "publish")
    BY <1>4 DEF AppendEvent
  <2> QED
    BY <2>2, <2>3, ReplaceEffect
<1>4a. ASSUME NEW x \in notices, AppendEventFails(x) PROVE NoticeTypes'
  BY <1>4a DEF AppendEventFails
<1>5. ASSUME NEW x \in notices, Publish(x) PROVE NoticeTypes'
  BY <1>5 DEF Publish
<1>6. CASE Restart
  BY <1>6 DEF Restart
<1>7. ASSUME NEW c \in Clients,
             BeginStart(c) \/ Look(c) \/ Insert(c) \/ BeginPolicy(c) \/
             WritePolicy(c) \/ Unwatch(c) \/ ReadPolicy(c) \/ Watch(c) \/ WatchNothing(c)
      PROVE  NoticeTypes'
  <2>1. UNCHANGED <<notices, log>>
    BY <1>7 DEF BeginStart, Begin, Look, Goto, Insert, Registered,
                BeginPolicy, WritePolicy, Unwatch, ReadPolicy, Watch, WatchNothing
  <2> QED
    BY <2>1 DEF Types, NoticeTypes
<1>8. ASSUME NEW s \in Servers,
             ReadLine(s)
      PROVE  NoticeTypes'
  <2>1. UNCHANGED <<notices, log>>
    BY <1>8 DEF ReadLine
  <2> QED
    BY <2>1 DEF Types, NoticeTypes
<1>9. ASSUME NEW i \in lines,
             PublishLine(i)
      PROVE  NoticeTypes'
  <2>1. UNCHANGED <<notices, log>>
    BY <1>9 DEF PublishLine
  <2> QED
    BY <2>1 DEF Types, NoticeTypes
<1>10. ASSUME NEW k \in Sockets,
             Connect(k) \/ Receive(k) \/ Lag(k)
      PROVE  NoticeTypes'
  <2>1. UNCHANGED <<notices, log>>
    BY <1>10 DEF Connect, Receive, Lag
  <2> QED
    BY <2>1 DEF Types, NoticeTypes
<1>11. CASE UNCHANGED vars
  <2>1. UNCHANGED <<notices, log>>
    BY <1>11 DEF vars
  <2> QED
    BY <2>1 DEF Types, NoticeTypes
<1> QED
  BY <1>1, <1>2, <1>3, <1>4, <1>4a, <1>5, <1>6, <1>7, <1>8, <1>9, <1>10, <1>11
     DEF Next, Call

\* record_log_line numbers each line once and keeps LOG_BUFFER_LINES of them.
LEMMA NextLines == Types /\ [Next]_vars => LineTypes'
<1> SUFFICES ASSUME Types, [Next]_vars PROVE LineTypes'
  OBVIOUS
<1> USE ConstantsAssumption, KeptBounded
        DEF Types, LineTypes,
     CountTypes
<1>1. ASSUME NEW s \in Servers, ReadLine(s) PROVE LineTypes'
  <2>1. said + 1 \in 1 .. MaxLines
    BY <1>1 DEF ReadLine
  <2> DEFINE kept == Kept(ring[s], said + 1)
  <2>2. ring[s] \in Seq(1 .. MaxLines) /\ Len(ring[s]) <= BufferLines
    OBVIOUS
  <2>3. kept \in Seq(1 .. MaxLines) /\ Len(kept) <= BufferLines
    BY <2>1, <2>2
  <2>4. ring' = [ring EXCEPT ![s] = kept] /\ lines' = lines \cup {said + 1}
    BY <1>1 DEF ReadLine
  <2> HIDE DEF kept
  <2> QED
    BY <2>1, <2>3, <2>4
<1>2. ASSUME NEW i \in lines, PublishLine(i) PROVE LineTypes'
  BY <1>2 DEF PublishLine
<1>3. CASE Restart
  BY <1>3 DEF Restart
<1>4. ASSUME NEW c \in Clients,
             BeginStart(c) \/ Look(c) \/ Insert(c) \/ Start(c) \/
             BeginPolicy(c) \/ WritePolicy(c) \/ Unwatch(c) \/
             ReadPolicy(c) \/ Watch(c) \/ WatchNothing(c)
      PROVE  LineTypes'
  <2>1. UNCHANGED <<lines, ring>>
    BY <1>4 DEF BeginStart, Begin, Look, Goto, Insert, Registered, Start,
                Move, BeginPolicy, WritePolicy, Unwatch, ReadPolicy, Watch, WatchNothing
  <2> QED
    BY <2>1 DEF Types, LineTypes
<1>5. ASSUME NEW b \in Builds,
             Moves(b)
      PROVE  LineTypes'
  <2>1. UNCHANGED <<lines, ring>>
    BY <1>5 DEF Moves, Move
  <2> QED
    BY <2>1 DEF Types, LineTypes
<1>6. ASSUME NEW x \in notices,
             WriteRow(x) \/ WriteRowFails(x) \/ AppendEvent(x) \/ AppendEventFails(x) \/ Publish(x)
      PROVE  LineTypes'
  <2>1. UNCHANGED <<lines, ring>>
    BY <1>6 DEF WriteRow, WriteRowFails, Replace, AppendEvent, AppendEventFails, Publish
  <2> QED
    BY <2>1 DEF Types, LineTypes
<1>7. ASSUME NEW k \in Sockets,
             Connect(k) \/ Receive(k) \/ Lag(k)
      PROVE  LineTypes'
  <2>1. UNCHANGED <<lines, ring>>
    BY <1>7 DEF Connect, Receive, Lag
  <2> QED
    BY <2>1 DEF Types, LineTypes
<1>8. CASE UNCHANGED vars
  <2>1. UNCHANGED <<lines, ring>>
    BY <1>8 DEF vars
  <2> QED
    BY <2>1 DEF Types, LineTypes
<1> QED
  BY <1>1, <1>2, <1>3, <1>4, <1>5, <1>6, <1>7, <1>8
     DEF Next, Call

\* A receiver never gets past the end of what was sent, and what it got was sent.
LEMMA NextStreams == Types /\ [Next]_vars => StreamTypes'
<1> SUFFICES ASSUME Types, [Next]_vars PROVE StreamTypes'
  OBVIOUS
<1> USE ConstantsAssumption
        DEF StreamTypes, Sockets, Stuff,
     Receiver
<1>1. ASSUME NEW x \in notices, Publish(x) PROVE StreamTypes'
  <2>1. Item(x) \in Items
    BY <1>1 DEF Types, NoticeTypes, Notices, Publish, Item, Items
  <2>2. sent' = [sent EXCEPT !["events"] = Append(@, Item(x))] /\ UNCHANGED socket
    BY <1>1 DEF Publish
  <2>3. /\ sent'["events"] = Append(sent["events"], Item(x)) /\ sent'["logs"] = sent["logs"]
        /\ sent' = [j \in Sockets |-> sent'[j]]
    BY <2>2, SentGrows
  <2>4. sent'["events"] \in Seq(Items) /\ Len(sent'["events"]) = Len(sent["events"]) + 1
    BY <2>1, <2>3, AppendProperties DEF Types
  <2> QED
    BY <2>2, <2>3, <2>4, SMTT(30) DEF Types
<1>2. ASSUME NEW i \in lines, PublishLine(i) PROVE StreamTypes'
  <2>1. i \in 1 .. MaxLines
    BY DEF Types, LineTypes
  <2>2. sent' = [sent EXCEPT !["logs"] = Append(@, i)] /\ UNCHANGED socket
    BY <1>2 DEF PublishLine
  <2>3. /\ sent'["logs"] = Append(sent["logs"], i) /\ sent'["events"] = sent["events"]
        /\ sent' = [j \in Sockets |-> sent'[j]]
    BY <2>2, SentGrows
  <2>4. sent'["logs"] \in Seq(1 .. MaxLines) /\ Len(sent'["logs"]) = Len(sent["logs"]) + 1
    BY <2>1, <2>3, AppendProperties DEF Types
  <2> QED
    BY <2>2, <2>3, <2>4, SentTypes, SMTT(30) DEF Types
<1>3. ASSUME NEW k \in Sockets, Connect(k) PROVE StreamTypes'
  <2> DEFINE r == [on |-> TRUE, next |-> Len(sent[k]) + 1, got |-> <<>>, lagged |-> FALSE]
  <2>1. socket' = [socket EXCEPT ![k] = r] /\ UNCHANGED sent
    BY <1>3, ReceiverStep DEF Connect
  <2>2. r \in Receiver(k) /\ r.next \in 1 .. Len(sent[k]) + 1
    BY SentTypes
  <2> QED
    BY <2>1, <2>2, ReceiverTypes
<1>4. ASSUME NEW k \in Sockets, Receive(k) PROVE StreamTypes'
  <2> DEFINE r == [on |-> socket[k].on, next |-> socket[k].next + 1,
                   got |-> Append(socket[k].got, sent[k][socket[k].next]), lagged |-> socket[k].lagged]
  <2>1. socket' = [socket EXCEPT ![k] = r] /\ UNCHANGED sent
    BY <1>4, ReceiverStep DEF Receive
  <2>2. socket[k].next \in 1 .. Len(sent[k])
    BY <1>4, SMTT(30) DEF Receive, Types
  <2>3. sent[k][socket[k].next] \in Stuff(k)
    BY <2>2, SentTypes, ElementOfSeq
  <2>4. Append(socket[k].got, sent[k][socket[k].next]) \in Seq(Stuff(k))
    BY <2>3, AppendProperties DEF Types
  <2>5. r \in Receiver(k) /\ r.next \in 1 .. Len(sent[k]) + 1
    <3>1. socket[k].on \in BOOLEAN /\ socket[k].lagged \in BOOLEAN
      BY SentTypes
    <3>2. socket[k].next + 1 \in 1 .. Len(sent[k]) + 1
      BY <2>2, SentTypes
    <3> QED
      BY <2>4, <3>1, <3>2
  <2> QED
    BY <2>1, <2>5, ReceiverTypes
<1>5. ASSUME NEW k \in Sockets, Lag(k) PROVE StreamTypes'
  <2> DEFINE r == [on |-> socket[k].on, next |-> Len(sent[k]) + 1 - Cap(k),
                   got |-> socket[k].got \o Notice(k), lagged |-> TRUE]
  <2>1. socket' = [socket EXCEPT ![k] = r] /\ UNCHANGED sent
    BY <1>5, ReceiverStep DEF Lag
  <2>2. Len(sent[k]) + 1 - Cap(k) \in 1 .. Len(sent[k]) + 1
    <3>1. Cap(k) \in Nat \ {0} /\ socket[k].next \in 1 .. Len(sent[k]) + 1 /\ Len(sent[k]) \in Nat
      BY SentTypes DEF Cap, Types
    <3>2. Len(sent[k]) + 1 - socket[k].next > Cap(k)
      BY <1>5 DEF Lag, Lags
    <3> QED
      BY <3>1, <3>2, SMTT(30)
  <2>3. Notice(k) \in Seq(Stuff(k))
    <3>1. CASE k = "logs"
      <4>1. notice \in Stuff(k)
        BY <3>1 DEF notice
      <4> QED
        BY <3>1, <4>1 DEF Notice
    <3>2. CASE k = "events"
      BY <3>2 DEF Notice
    <3> QED
      BY <3>1, <3>2
  <2>4. socket[k].got \o Notice(k) \in Seq(Stuff(k))
    BY <2>3, ConcatProperties DEF Types
  <2>5. r \in Receiver(k) /\ r.next \in 1 .. Len(sent[k]) + 1
    BY <2>2, <2>4, SentTypes
  <2> QED
    BY <2>1, <2>5, ReceiverTypes
<1>6. CASE Restart
  BY <1>6 DEF Restart, Off, Types
<1>7. ASSUME NEW c \in Clients,
             BeginStart(c) \/ Look(c) \/ Insert(c) \/ Start(c) \/
             BeginPolicy(c) \/ WritePolicy(c) \/ Unwatch(c) \/
             ReadPolicy(c) \/ Watch(c) \/ WatchNothing(c)
      PROVE  StreamTypes'
  <2>1. UNCHANGED <<sent, socket>>
    BY <1>7 DEF BeginStart, Begin, Look, Goto, Insert, Registered, Start,
                Move, BeginPolicy, WritePolicy, Unwatch, ReadPolicy, Watch, WatchNothing
  <2> QED
    BY <2>1 DEF Types, StreamTypes
<1>8. ASSUME NEW b \in Builds,
             Moves(b)
      PROVE  StreamTypes'
  <2>1. UNCHANGED <<sent, socket>>
    BY <1>8 DEF Moves, Move
  <2> QED
    BY <2>1 DEF Types, StreamTypes
<1>9. ASSUME NEW x \in notices,
             WriteRow(x) \/ WriteRowFails(x) \/ AppendEvent(x) \/ AppendEventFails(x)
      PROVE  StreamTypes'
  <2>1. UNCHANGED <<sent, socket>>
    BY <1>9 DEF WriteRow, WriteRowFails, Replace, AppendEvent, AppendEventFails
  <2> QED
    BY <2>1 DEF Types, StreamTypes
<1>10. ASSUME NEW s \in Servers,
             ReadLine(s)
      PROVE  StreamTypes'
  <2>1. UNCHANGED <<sent, socket>>
    BY <1>10 DEF ReadLine
  <2> QED
    BY <2>1 DEF Types, StreamTypes
<1>11. CASE UNCHANGED vars
  <2>1. UNCHANGED <<sent, socket>>
    BY <1>11 DEF vars
  <2> QED
    BY <2>1 DEF Types, StreamTypes
<1> QED
  BY <1>1, <1>2, <1>3, <1>4, <1>5, <1>6, <1>7, <1>8, <1>9, <1>10, <1>11
     DEF Next, Call

\* The counters stay within their bounds, the histories within the servers.
LEMMA NextCounts == Types /\ Jobbing /\ Registration /\ [Next]_vars => CountTypes'
<1> SUFFICES ASSUME Types, Jobbing, Registration, [Next]_vars PROVE CountTypes'
  OBVIOUS
<1> USE ConstantsAssumption
        DEF Types, CountTypes
<1>1. ASSUME NEW c \in Clients, BeginStart(c) PROVE CountTypes'
  BY <1>1 DEF BeginStart, Begin
<1>2. ASSUME NEW c \in Clients, Start(c) PROVE CountTypes'
  <2>1. CASE MayStart(sup[job[c].mine].state)
    <3>1. Move(job[c].mine, "Starting")
      BY <1>2, <2>1 DEF Start
    <3>2. "Starting" \in States
      BY DEF States
    <3> QED
      BY <1>2, <3>1, <3>2, StartsRegistered, MoveEffect DEF Start
  <2>2. CASE ~MayStart(sup[job[c].mine].state)
    BY <1>2, <2>2 DEF Start
  <2> QED
    BY <2>1, <2>2
<1>3. ASSUME NEW b \in Builds, Moves(b) PROVE CountTypes'
  <2>1. PICK to \in MayBecome(sup[b].state) : Move(b, to)
    BY <1>3 DEF Moves
  <2>2. to \in States
    BY <1>3 DEF Moves, MayBecome, ObjectTypes, Supervisors, States
  <2> QED
    BY <1>3, <2>1, <2>2, MoveEffect DEF Moves
<1>4. ASSUME NEW x \in notices,
             WriteRow(x) \/ WriteRowFails(x) \/ AppendEvent(x) \/ AppendEventFails(x)
      PROVE  CountTypes'
  <2>1. x.server \in Servers
    BY DEF NoticeTypes, Notices
  <2> QED
    BY <1>4, <2>1 DEF WriteRow, WriteRowFails, AppendEvent, AppendEventFails
<1>5. ASSUME NEW s \in Servers, ReadLine(s) PROVE CountTypes'
  BY <1>5 DEF ReadLine
<1>6. ASSUME NEW c \in Clients, BeginPolicy(c) PROVE CountTypes'
  BY <1>6 DEF BeginPolicy, Begin
<1>7. CASE Restart
  BY <1>7 DEF Restart
<1>8. ASSUME NEW c \in Clients,
             Look(c) \/ Insert(c) \/ WritePolicy(c) \/ Unwatch(c) \/ Watch(c)
      PROVE  CountTypes'
  <2>1. UNCHANGED <<asked, moves, said, restarts, history>>
    BY <1>8 DEF Look, Goto, Insert, Registered, WritePolicy, Unwatch, Watch
  <2> QED
    BY <2>1 DEF Types, CountTypes
<1>8a. ASSUME NEW c \in Clients, ReadPolicy(c) \/ WatchNothing(c) PROVE CountTypes'
  <2>1. job[c].server \in Servers
    BY <1>8a DEF ReadPolicy, WatchNothing, Jobbing
  <2> QED
    BY <1>8a, <2>1 DEF ReadPolicy, WatchNothing
<1>9. ASSUME NEW x \in notices,
             Publish(x)
      PROVE  CountTypes'
  <2>1. UNCHANGED <<asked, moves, said, restarts, history>>
    BY <1>9 DEF Publish
  <2> QED
    BY <2>1 DEF Types, CountTypes
<1>10. ASSUME NEW i \in lines,
             PublishLine(i)
      PROVE  CountTypes'
  <2>1. UNCHANGED <<asked, moves, said, restarts, history>>
    BY <1>10 DEF PublishLine
  <2> QED
    BY <2>1 DEF Types, CountTypes
<1>11. ASSUME NEW k \in Sockets,
             Connect(k) \/ Receive(k) \/ Lag(k)
      PROVE  CountTypes'
  <2>1. UNCHANGED <<asked, moves, said, restarts, history>>
    BY <1>11 DEF Connect, Receive, Lag
  <2> QED
    BY <2>1 DEF Types, CountTypes
<1>12. CASE UNCHANGED vars
  <2>1. UNCHANGED <<asked, moves, said, restarts, history>>
    BY <1>12 DEF vars
  <2> QED
    BY <2>1 DEF Types, CountTypes
<1> QED
  BY <1>1, <1>2, <1>3, <1>4, <1>5, <1>6, <1>7, <1>8, <1>8a, <1>9, <1>10, <1>11,
     <1>12
     DEF Next, Call

\* A call that found the supervisor to use is otherwise as it was.
LEMMA JobUses ==
  ASSUME Types, NEW c \in Clients, NEW m, job' = [job EXCEPT ![c].mine = m]
  PROVE  /\ job'[c].mine = m /\ job'[c].server = job[c].server
         /\ job'[c].new = job[c].new /\ job'[c].policy = job[c].policy
         /\ \A d \in Clients \ {c} : job'[d] = job[d]
BY DEF Types, CallTypes, Jobs

\* What a sequence holds after an Append.
LEMMA AppendHolds ==
  ASSUME NEW S, NEW seq \in Seq(S), NEW e \in S
  PROVE  ToSet(Append(seq, e)) = ToSet(seq) \cup {e}
<1>1. DOMAIN Append(seq, e) = 1 .. Len(seq) + 1 /\ DOMAIN seq = 1 .. Len(seq) /\ Len(seq) \in Nat
  BY AppendProperties
<1>2. \A i \in 1 .. Len(seq) : Append(seq, e)[i] = seq[i]
  BY AppendProperties
<1>3. Append(seq, e)[Len(seq) + 1] = e
  BY AppendProperties
<1> QED
  BY <1>1, <1>2, <1>3 DEF ToSet

\* What a call looked up is still so at its next step: nothing but a restart, which ends
\* all calls, takes a supervisor out of the registry.
LEMMA NextJobbing == Types /\ Jobbing /\ Registration /\ [Next]_vars => Jobbing'
<1> SUFFICES ASSUME Types, Jobbing, Registration, [Next]_vars PROVE Jobbing'
  OBVIOUS
<1> USE ConstantsAssumption
        DEF Jobbing, WorkLocs
<1>1. ASSUME NEW c \in Clients, BeginStart(c) PROVE Jobbing'
  BY <1>1 DEF BeginStart, Begin, Types, CallTypes, RowTypes, Policies, Supervisors, States
<1>2. ASSUME NEW c \in Clients, Look(c) PROVE Jobbing'
  <2>1. CASE registry[job[c].server] = Absent
    BY <1>2, <2>1 DEF Look, Goto, Types, CallTypes
  <2>2. CASE registry[job[c].server] # Absent
    <3>1. job[c].server \in Servers /\ registry[job[c].server] \in Builds
      BY <1>2, <2>2 DEF Look, Types, ObjectTypes
    <3> QED
      BY <1>2, <2>2, <3>1, JobUses DEF Look, Types, CallTypes
  <2> QED
    BY <2>1, <2>2
<1>3. ASSUME NEW c \in Clients, Insert(c) PROVE Jobbing'
  <2> DEFINE s == job[c].server
  <2>1. s \in Servers /\ job[c].mine \in Builds
    BY <1>3 DEF Insert, Registration
  <2>2. /\ registry'[s] \in Builds
        /\ registry[s] # Absent => registry' = registry
        /\ \A z \in Servers \ {s} : registry'[z] = registry[z]
    BY <1>3, <2>1 DEF Insert, Registered, Types, ObjectTypes
  <2>3. /\ job'[c].mine = registry'[s] /\ job'[c].server = s
        /\ \A d \in Clients \ {c} : job'[d] = job[d]
    BY <1>3, JobUses DEF Insert
  <2>4. pc' = [pc EXCEPT ![c] = "start"]
    BY <1>3 DEF Insert
  <2>5. \A d \in Clients : pc[d] = "start" => registry[job[d].server] \in Builds /\ job[d].server \in Servers
    OBVIOUS
  <2>6. \A d \in Clients : pc[d] = "start" => registry'[job[d].server] = registry[job[d].server]
    BY <2>1, <2>2, <2>5 DEF Builds
  <2> QED
    BY <2>1, <2>2, <2>3, <2>4, <2>5, <2>6 DEF Types, CallTypes
<1>4. ASSUME NEW c \in Clients, Start(c) PROVE Jobbing'
  BY <1>4 DEF Start, Move, Goto, Types, CallTypes
<1>5. ASSUME NEW c \in Clients, BeginPolicy(c) PROVE Jobbing'
  BY <1>5 DEF BeginPolicy, Begin, Types, CallTypes
<1>6. ASSUME NEW c \in Clients, WritePolicy(c) PROVE Jobbing'
  BY <1>6 DEF WritePolicy, Goto, Types, CallTypes
<1>7. ASSUME NEW c \in Clients, Unwatch(c) PROVE Jobbing'
  BY <1>7 DEF Unwatch, Goto, Types, CallTypes
<1>8. ASSUME NEW c \in Clients, ReadPolicy(c) PROVE Jobbing'
  BY <1>8 DEF ReadPolicy, Goto, Types, CallTypes
<1>9. ASSUME NEW c \in Clients, Watch(c) \/ WatchNothing(c) PROVE Jobbing'
  BY <1>9 DEF Watch, WatchNothing, Goto, Types, CallTypes
<1>10. CASE Restart
  BY <1>10 DEF Restart
<1>11. ASSUME NEW b \in Builds,
             Moves(b)
      PROVE  Jobbing'
  <2>1. UNCHANGED <<registry, pc, job>>
    BY <1>11 DEF Moves, Move
  <2> QED
    BY <2>1 DEF Types, Jobbing
<1>12. ASSUME NEW x \in notices,
             WriteRow(x) \/ WriteRowFails(x) \/ AppendEvent(x) \/ AppendEventFails(x) \/ Publish(x)
      PROVE  Jobbing'
  <2>1. UNCHANGED <<registry, pc, job>>
    BY <1>12 DEF WriteRow, WriteRowFails, Replace, AppendEvent, AppendEventFails, Publish
  <2> QED
    BY <2>1 DEF Types, Jobbing
<1>13. ASSUME NEW s \in Servers,
             ReadLine(s)
      PROVE  Jobbing'
  <2>1. UNCHANGED <<registry, pc, job>>
    BY <1>13 DEF ReadLine
  <2> QED
    BY <2>1 DEF Types, Jobbing
<1>14. ASSUME NEW i \in lines,
             PublishLine(i)
      PROVE  Jobbing'
  <2>1. UNCHANGED <<registry, pc, job>>
    BY <1>14 DEF PublishLine
  <2> QED
    BY <2>1 DEF Types, Jobbing
<1>15. ASSUME NEW k \in Sockets,
             Connect(k) \/ Receive(k) \/ Lag(k)
      PROVE  Jobbing'
  <2>1. UNCHANGED <<registry, pc, job>>
    BY <1>15 DEF Connect, Receive, Lag
  <2> QED
    BY <2>1 DEF Types, Jobbing
<1>16. CASE UNCHANGED vars
  <2>1. UNCHANGED <<registry, pc, job>>
    BY <1>16 DEF vars
  <2> QED
    BY <2>1 DEF Types, Jobbing
<1> QED
  BY <1>1, <1>2, <1>3, <1>4, <1>5, <1>6, <1>7, <1>8, <1>9, <1>10, <1>11,
     <1>12, <1>13, <1>14, <1>15, <1>16
     DEF Next, Call

\* entry().or_insert(): of two that were built for a server the first is kept, and the
\* other is in no map.
LEMMA NextRegistration == Types /\ Jobbing /\ Registration /\ [Next]_vars => Registration'
<1> SUFFICES ASSUME Types, Jobbing, Registration, [Next]_vars PROVE Registration'
  OBVIOUS
<1> USE ConstantsAssumption
        DEF Registration, Builds
<1>1. ASSUME NEW c \in Clients, BeginStart(c) PROVE Registration'
  BY <1>1 DEF BeginStart, Begin, Types, CallTypes, CountTypes
<1>2. ASSUME NEW c \in Clients, Look(c) PROVE Registration'
  <2>1. CASE registry[job[c].server] = Absent
    BY <1>2, <2>1 DEF Look, Goto, Types, CallTypes
  <2>2. CASE registry[job[c].server] # Absent
    BY <1>2, <2>2, JobUses DEF Look, Types, CallTypes
  <2> QED
    BY <2>1, <2>2
<1>3. ASSUME NEW c \in Clients, Insert(c) PROVE Registration'
  <2> DEFINE s == job[c].server
              b == job[c].mine
  <2>1. s \in Servers /\ b \in Builds /\ b <= asked /\ sup[b] = Absent
    BY <1>3 DEF Insert, Jobbing
  <2>2. job[c].new \in Supervisors /\ job[c].new.server = s
    BY <1>3 DEF Insert, Jobbing
  <2>3. /\ \A d \in Clients \ {c} : job'[d] = job[d]
        /\ pc' = [pc EXCEPT ![c] = "start"]
        /\ UNCHANGED asked
    BY <1>3, JobUses DEF Insert
  <2>4. CASE registry[s] = Absent
    <3>1. /\ sup' = [sup EXCEPT ![b] = job[c].new]
          /\ registry' = [registry EXCEPT ![s] = b]
      BY <1>3, <2>4 DEF Insert, Registered
    <3>2. sup'[b] = job[c].new /\ \A d \in Builds \ {b} : sup'[d] = sup[d]
      BY <2>1, <3>1 DEF Types, ObjectTypes
    <3>3. registry'[s] = b /\ \A z \in Servers \ {s} : registry'[z] = registry[z]
      BY <2>1, <3>1 DEF Types, ObjectTypes
    <3>4. \A d \in Builds : sup'[d] # Absent => d <= asked' /\ registry'[sup'[d].server] = d
      BY <2>1, <2>2, <2>3, <2>4, <3>2, <3>3 DEF Types, ObjectTypes, Supervisors
    <3>5. \A z \in Servers : registry'[z] # Absent => sup'[registry'[z]] # Absent /\ sup'[registry'[z]].server = z
      BY <2>1, <2>2, <2>3, <2>4, <3>2, <3>3, SMTT(30) DEF Types, ObjectTypes, Supervisors
    <3>6. \A d \in Clients : pc'[d] \in {"look", "insert"} =>
            d # c /\ pc[d] \in {"look", "insert"} /\ job[d].mine # b /\ job'[d] = job[d]
      BY <1>3, <2>3 DEF Insert, Types, CallTypes
    <3> QED
      BY <2>3, <3>2, <3>4, <3>5, <3>6
  <2>5. CASE registry[s] # Absent
    <3>1. UNCHANGED <<sup, registry>>
      BY <1>3, <2>5 DEF Insert
    <3> QED
      BY <2>3, <3>1 DEF Types, CallTypes
  <2> QED
    BY <2>4, <2>5
<1>4. ASSUME NEW c \in Clients, Start(c) PROVE Registration'
  <2>1. /\ \A d \in Clients : pc'[d] \in {"look", "insert"} => pc[d] \in {"look", "insert"} /\ job'[d] = job[d]
        /\ UNCHANGED <<registry, asked>>
    BY <1>4 DEF Start, Goto, Types, CallTypes
  <2>2. CASE MayStart(sup[job[c].mine].state)
    <3>1. Move(job[c].mine, "Starting")
      BY <1>4, <2>2 DEF Start
    <3>2. "Starting" \in States /\ pc[c] = "start"
      BY <1>4 DEF Start, States
    <3> DEFINE b == job[c].mine
    <3>3. b \in Builds /\ sup[b] # Absent /\ sup[b] \in Supervisors
      BY <3>2, StartsRegistered
    <3>4. /\ sup'[b] \in Supervisors /\ sup'[b].server = sup[b].server
          /\ \A d \in Builds \ {b} : sup'[d] = sup[d]
      BY <3>1, <3>2, <3>3, MoveEffect
    <3> QED
      BY <2>1, <3>3, <3>4, ConstantsAssumption DEF Types, ObjectTypes
  <2>3. CASE ~MayStart(sup[job[c].mine].state)
    <3>1. UNCHANGED sup
      BY <1>4, <2>3 DEF Start
    <3> QED
      BY <2>1, <3>1
  <2> QED
    BY <2>2, <2>3
<1>5. ASSUME NEW b \in Builds, Moves(b) PROVE Registration'
  <2>1. PICK to \in MayBecome(sup[b].state) : Move(b, to)
    BY <1>5 DEF Moves
  <2>2. to \in States
    BY <1>5 DEF Moves, MayBecome, Types, ObjectTypes, Supervisors, States
  <2> QED
    BY <1>5, <2>1, <2>2, MoveEffect, SMTT(30) DEF Moves, Types, ObjectTypes
<1>6. ASSUME NEW c \in Clients, BeginPolicy(c) PROVE Registration'
  BY <1>6 DEF BeginPolicy, Begin, Types, CallTypes, CountTypes, WorkLocs
<1>7. ASSUME NEW c \in Clients, WritePolicy(c) PROVE Registration'
  BY <1>7 DEF WritePolicy, Goto, Types, CallTypes, WorkLocs
<1>8. ASSUME NEW c \in Clients, Unwatch(c) PROVE Registration'
  BY <1>8 DEF Unwatch, Goto, Types, CallTypes, WorkLocs
<1>9. ASSUME NEW c \in Clients, ReadPolicy(c) PROVE Registration'
  BY <1>9 DEF ReadPolicy, Goto, Types, CallTypes, WorkLocs
<1>10. ASSUME NEW c \in Clients, Watch(c) \/ WatchNothing(c) PROVE Registration'
  BY <1>10 DEF Watch, WatchNothing, Goto, Types, CallTypes, WorkLocs
<1>11. CASE Restart
  BY <1>11 DEF Restart, Types
<1>12. ASSUME NEW x \in notices,
             WriteRow(x) \/ WriteRowFails(x) \/ AppendEvent(x) \/ AppendEventFails(x) \/ Publish(x)
      PROVE  Registration'
  <2>1. UNCHANGED <<registry, sup, pc, job, asked>>
    BY <1>12 DEF WriteRow, WriteRowFails, Replace, AppendEvent, AppendEventFails, Publish
  <2> QED
    BY <2>1 DEF Types, Registration
<1>13. ASSUME NEW s \in Servers,
             ReadLine(s)
      PROVE  Registration'
  <2>1. UNCHANGED <<registry, sup, pc, job, asked>>
    BY <1>13 DEF ReadLine
  <2> QED
    BY <2>1 DEF Types, Registration
<1>14. ASSUME NEW i \in lines,
             PublishLine(i)
      PROVE  Registration'
  <2>1. UNCHANGED <<registry, sup, pc, job, asked>>
    BY <1>14 DEF PublishLine
  <2> QED
    BY <2>1 DEF Types, Registration
<1>15. ASSUME NEW k \in Sockets,
             Connect(k) \/ Receive(k) \/ Lag(k)
      PROVE  Registration'
  <2>1. UNCHANGED <<registry, sup, pc, job, asked>>
    BY <1>15 DEF Connect, Receive, Lag
  <2> QED
    BY <2>1 DEF Types, Registration
<1>16. CASE UNCHANGED vars
  <2>1. UNCHANGED <<registry, sup, pc, job, asked>>
    BY <1>16 DEF vars
  <2> QED
    BY <2>1 DEF Types, Registration
<1> QED
  BY <1>1, <1>2, <1>3, <1>4, <1>5, <1>6, <1>7, <1>8, <1>9, <1>10, <1>11,
     <1>12, <1>13, <1>14, <1>15, <1>16
     DEF Next, Call

\* The listener appends, then publishes; a socket receives what was published.
LEMMA NextDurability == Types /\ Jobbing /\ Registration /\ Durability /\ [Next]_vars => Durability'
<1> SUFFICES ASSUME Types, Jobbing, Registration, Durability, [Next]_vars PROVE Durability'
  OBVIOUS
<1> USE ConstantsAssumption
        DEF Durability
<1>1. ASSUME NEW c \in Clients, Start(c) PROVE Durability'
  <2>1. CASE MayStart(sup[job[c].mine].state)
    <3>1. Move(job[c].mine, "Starting")
      BY <1>1, <2>1 DEF Start
    <3>2. "Starting" \in States /\ pc[c] = "start"
      BY <1>1 DEF Start, States
    <3> QED
      BY <1>1, <3>1, <3>2, StartsRegistered, MoveEffect DEF Start
  <2>2. CASE ~MayStart(sup[job[c].mine].state)
    BY <1>1, <2>2 DEF Start
  <2> QED
    BY <2>1, <2>2
<1>2. ASSUME NEW b \in Builds, Moves(b) PROVE Durability'
  <2>1. PICK to \in MayBecome(sup[b].state) : Move(b, to)
    BY <1>2 DEF Moves
  <2>2. to \in States
    BY <1>2 DEF Moves, MayBecome, Types, ObjectTypes, Supervisors, States
  <2> QED
    BY <1>2, <2>1, <2>2, MoveEffect DEF Moves
<1>3. ASSUME NEW x \in notices, WriteRow(x) \/ WriteRowFails(x) PROVE Durability'
  <2>1. CASE x.what \in Told
    BY <1>3, <2>1, ReplaceEffect DEF WriteRow, WriteRowFails
  <2>2. CASE x.what \notin Told
    BY <1>3, <2>2 DEF WriteRow, WriteRowFails
  <2> QED
    BY <2>1, <2>2
<1>4. ASSUME NEW x \in notices, AppendEvent(x) PROVE Durability'
  <2>1. Item(x) \in Items
    BY <1>4 DEF AppendEvent, Types, NoticeTypes, Notices, Item, Items
  <2>2. ToSet(log') = ToSet(log) \cup {Item(x)}
    BY <1>4, <2>1, AppendHolds DEF AppendEvent, Types, NoticeTypes
  <2>3. PICK y \in Notices : /\ y.n = x.n /\ y.server = x.server /\ y.what = x.what
                             /\ notices' = (notices \ {x}) \cup {y}
    BY <1>4, ReplaceEffect DEF AppendEvent
  <2>4. Item(y) = Item(x)
    BY <2>3 DEF Item
  <2> QED
    BY <1>4, <2>2, <2>3, <2>4 DEF AppendEvent
<1>4a. ASSUME NEW x \in notices, AppendEventFails(x) PROVE Durability'
  BY <1>4a DEF AppendEventFails
<1>5. ASSUME NEW x \in notices, Publish(x) PROVE Durability'
  <2>1. Item(x) \in Items
    BY <1>5 DEF Publish, Types, NoticeTypes, Notices, Item, Items
  <2>2. sent'["events"] = Append(sent["events"], Item(x))
    BY <1>5, SentGrows DEF Publish, Sockets
  <2>3. ToSet(sent'["events"]) = ToSet(sent["events"]) \cup {Item(x)}
    BY <2>1, <2>2, AppendHolds, SMTT(30) DEF Types, StreamTypes
  <2> QED
    BY <1>5, <2>3 DEF Publish
<1>6. ASSUME NEW i \in lines, PublishLine(i) PROVE Durability'
  <2>1. sent'["events"] = sent["events"]
    BY <1>6, SentGrows DEF PublishLine, Sockets
  <2> QED
    BY <1>6, <2>1 DEF PublishLine
<1>7. ASSUME NEW k \in Sockets, Connect(k) PROVE Durability'
  <2>1. CASE k = "events"
    <3>1. socket'["events"].got = <<>>
      BY <1>7, <2>1, ReceiverEffect
    <3>2. ToSet(<<>>) = {}
      BY DEF ToSet
    <3> QED
      BY <1>7, <3>1, <3>2 DEF Connect
  <2>2. CASE k # "events"
    BY <1>7, <2>2, ReceiverEffect DEF Connect, Sockets
  <2> QED
    BY <2>1, <2>2
<1>8. ASSUME NEW k \in Sockets, Receive(k) PROVE Durability'
  <2>1. CASE k = "events"
    <3> DEFINE e == sent["events"][socket["events"].next]
    <3>1. socket'["events"].got = Append(socket["events"].got, e)
      BY <1>8, <2>1, ReceiverEffect
    <3>2. socket["events"].next \in DOMAIN sent["events"]
      BY <1>8, <2>1, SentTypes DEF Receive, Types, StreamTypes
    <3>3. e \in Items /\ e \in ToSet(sent["events"])
      <4>1. sent["events"] \in Seq(Items)
        BY DEF Types, StreamTypes
      <4>2. e \in Items
        BY <3>2, <4>1, ElementOfSeq
      <4> QED
        BY <3>2, <4>2 DEF ToSet
    <3>4. socket["events"].got \in Seq(Items)
      BY <2>1, SentTypes DEF Receiver, Stuff
    <3>5. ToSet(socket'["events"].got) = ToSet(socket["events"].got) \cup {e}
      BY <3>1, <3>3, <3>4, AppendHolds
    <3> QED
      BY <1>8, <3>3, <3>5 DEF Receive
  <2>2. CASE k # "events"
    BY <1>8, <2>2, ReceiverEffect DEF Receive, Sockets
  <2> QED
    BY <2>1, <2>2
<1>9. ASSUME NEW k \in Sockets, Lag(k) PROVE Durability'
  <2>1. CASE k = "events"
    <3>1. socket'["events"].got = socket["events"].got \o <<>>
      BY <1>9, <2>1, ReceiverEffect DEF Notice
    <3>2. socket["events"].got \in Seq(Items)
      BY <2>1, SentTypes DEF Receiver, Stuff
    <3>3. socket'["events"].got = socket["events"].got
      BY <3>1, <3>2, ConcatEmptySeq
    <3> QED
      BY <1>9, <3>3 DEF Lag
  <2>2. CASE k # "events"
    BY <1>9, <2>2, ReceiverEffect DEF Lag, Sockets
  <2> QED
    BY <2>1, <2>2
<1>10. CASE Restart
  <2>1. sent'["events"] = <<>> /\ socket'["events"].got = <<>>
    BY <1>10 DEF Restart, Off, Sockets
  <2> QED
    BY <1>10, <2>1 DEF Restart, ToSet
<1>11. ASSUME NEW c \in Clients,
             BeginStart(c) \/ Look(c) \/ Insert(c) \/ BeginPolicy(c) \/
             WritePolicy(c) \/ Unwatch(c) \/ ReadPolicy(c) \/ Watch(c) \/ WatchNothing(c)
      PROVE  Durability'
  <2>1. UNCHANGED <<notices, log, sent, socket>>
    BY <1>11 DEF BeginStart, Begin, Look, Goto, Insert, Registered,
                BeginPolicy, WritePolicy, Unwatch, ReadPolicy, Watch, WatchNothing
  <2> QED
    BY <2>1 DEF Types, Durability
<1>12. ASSUME NEW s \in Servers,
             ReadLine(s)
      PROVE  Durability'
  <2>1. UNCHANGED <<notices, log, sent, socket>>
    BY <1>12 DEF ReadLine
  <2> QED
    BY <2>1 DEF Types, Durability
<1>13. CASE UNCHANGED vars
  <2>1. UNCHANGED <<notices, log, sent, socket>>
    BY <1>13 DEF vars
  <2> QED
    BY <2>1 DEF Types, Durability
<1> QED
  BY <1>1, <1>2, <1>3, <1>4, <1>4a, <1>5, <1>6, <1>7, <1>8, <1>9, <1>10, <1>11,
     <1>12, <1>13
     DEF Next, Call

\* set_reload_policy takes its steps in order, and nobody else touches the watcher while
\* it does; a call that joins in puts its server into mixedUp.
LEMMA NextWatching == Types /\ Jobbing /\ Watching /\ [Next]_vars => Watching'
<1> SUFFICES ASSUME Types, Jobbing, Watching, [Next]_vars PROVE Watching'
  OBVIOUS
<1> USE ConstantsAssumption
        DEF Watching, PolicyCalls, Types,
     CallTypes, RowTypes, Jobbing
<1>1. ASSUME NEW c \in Clients, BeginStart(c) PROVE Watching'
  BY <1>1 DEF BeginStart, Begin
<1>2. ASSUME NEW c \in Clients, Look(c) PROVE Watching'
  BY <1>2, SMTT(30) DEF Look, Goto
<1>3. ASSUME NEW c \in Clients, Insert(c) PROVE Watching'
  BY <1>3 DEF Insert, Registered
<1>4. ASSUME NEW c \in Clients, Start(c) PROVE Watching'
  BY <1>4 DEF Start, Move, Goto
<1>5. ASSUME NEW c \in Clients, BeginPolicy(c) PROVE Watching'
  BY <1>5 DEF BeginPolicy, Begin
<1>6. ASSUME NEW c \in Clients, WritePolicy(c) PROVE Watching'
  BY <1>6 DEF WritePolicy, Goto
<1>7. ASSUME NEW c \in Clients, Unwatch(c) PROVE Watching'
  BY <1>7 DEF Unwatch, Goto
<1>8. ASSUME NEW c \in Clients, ReadPolicy(c) PROVE Watching'
  BY <1>8 DEF ReadPolicy, Goto
<1>9. ASSUME NEW c \in Clients, Watch(c) \/ WatchNothing(c) PROVE Watching'
  BY <1>9 DEF Watch, WatchNothing, Goto
<1>10. CASE Restart
  BY <1>10 DEF Restart
<1>11. ASSUME NEW b \in Builds,
             Moves(b)
      PROVE  Watching'
  <2>1. UNCHANGED <<policy, watcher, pc, job, mixedUp, unwatched>>
    BY <1>11 DEF Moves, Move
  <2> QED
    BY <2>1 DEF Types, Watching
<1>12. ASSUME NEW x \in notices,
             WriteRow(x) \/ WriteRowFails(x) \/ AppendEvent(x) \/ AppendEventFails(x) \/ Publish(x)
      PROVE  Watching'
  <2>1. UNCHANGED <<policy, watcher, pc, job, mixedUp, unwatched>>
    BY <1>12 DEF WriteRow, WriteRowFails, Replace, AppendEvent, AppendEventFails, Publish
  <2> QED
    BY <2>1 DEF Types, Watching
<1>13. ASSUME NEW s \in Servers,
             ReadLine(s)
      PROVE  Watching'
  <2>1. UNCHANGED <<policy, watcher, pc, job, mixedUp, unwatched>>
    BY <1>13 DEF ReadLine
  <2> QED
    BY <2>1 DEF Types, Watching
<1>14. ASSUME NEW i \in lines,
             PublishLine(i)
      PROVE  Watching'
  <2>1. UNCHANGED <<policy, watcher, pc, job, mixedUp, unwatched>>
    BY <1>14 DEF PublishLine
  <2> QED
    BY <2>1 DEF Types, Watching
<1>15. ASSUME NEW k \in Sockets,
             Connect(k) \/ Receive(k) \/ Lag(k)
      PROVE  Watching'
  <2>1. UNCHANGED <<policy, watcher, pc, job, mixedUp, unwatched>>
    BY <1>15 DEF Connect, Receive, Lag
  <2> QED
    BY <2>1 DEF Types, Watching
<1>16. CASE UNCHANGED vars
  <2>1. UNCHANGED <<policy, watcher, pc, job, mixedUp, unwatched>>
    BY <1>16 DEF vars
  <2> QED
    BY <2>1 DEF Types, Watching
<1> QED
  BY <1>1, <1>2, <1>3, <1>4, <1>5, <1>6, <1>7, <1>8, <1>9, <1>10, <1>11,
     <1>12, <1>13, <1>14, <1>15, <1>16
     DEF Next, Call

\* The place of an index in a sequence after an Append.
LEMMA AppendAt ==
  ASSUME NEW S, NEW seq \in Seq(S), NEW e \in S
  PROVE  /\ Len(seq) \in Nat /\ Append(seq, e) \in Seq(S) /\ Len(Append(seq, e)) = Len(seq) + 1
         /\ DOMAIN seq = 1 .. Len(seq) /\ DOMAIN Append(seq, e) = 1 .. Len(seq) + 1
         /\ \A i \in 1 .. Len(seq) : Append(seq, e)[i] = seq[i]
         /\ Append(seq, e)[Len(seq) + 1] = e
BY AppendProperties

\* A line that is published leaves a log client as it is.
LEMMA AppendKeepsLines ==
  ASSUME NEW seq \in Seq(Nat), NEW got \in Seq(Nat), NEW next \in 1 .. Len(seq) + 1, NEW e \in Nat,
         EndsBefore(got, seq, next), Adjoining(got, seq)
  PROVE  EndsBefore(got, Append(seq, e), next) /\ Adjoining(got, Append(seq, e))
<1> DEFINE longer == Append(seq, e)
<1>1. Len(seq) \in Nat /\ Len(longer) = Len(seq) + 1 /\ \A i \in 1 .. Len(seq) : longer[i] = seq[i]
  BY AppendAt
<1> HIDE DEF longer
<1>2. EndsBefore(got, longer, next)
  <2>1. next > 1 => next - 1 \in 1 .. Len(seq)
    BY <1>1
  <2> QED
    BY <1>1, <2>1 DEF EndsBefore
<1>3. Adjoining(got, longer)
  <2>1. \A p \in 1 .. Len(seq) - 1 :
          p \in 1 .. Len(longer) - 1 /\ longer[p] = seq[p] /\ longer[p + 1] = seq[p + 1]
    <3> TAKE p \in 1 .. Len(seq) - 1
    <3>1. p \in 1 .. Len(seq) /\ p + 1 \in 1 .. Len(seq) /\ p \in 1 .. Len(longer) - 1
      BY <1>1
    <3> QED
      BY <1>1, <3>1
  <2> QED
    BY <2>1 DEF Adjoining
<1> QED
  BY <1>2, <1>3 DEF longer

\* A line that is received follows the last one, or the notice.
LEMMA ReceiveKeepsLines ==
  ASSUME NEW seq \in Seq(Nat), NEW got \in Seq(Nat), NEW next \in 1 .. Len(seq),
         EndsBefore(got, seq, next), Adjoining(got, seq)
  PROVE  EndsBefore(Append(got, seq[next]), seq, next + 1) /\ Adjoining(Append(got, seq[next]), seq)
<1> DEFINE new == Append(got, seq[next])
<1>1. seq[next] \in Nat
  BY ElementOfSeq
<1>2. /\ Len(got) \in Nat /\ Len(seq) \in Nat /\ Len(new) = Len(got) + 1 /\ new[Len(got) + 1] = seq[next]
      /\ \A i \in 1 .. Len(got) : new[i] = got[i]
  BY <1>1, AppendAt
<1> HIDE DEF new
<1>3. EndsBefore(new, seq, next + 1)
  BY <1>2 DEF EndsBefore
<1>4. ASSUME NEW i \in 1 .. Len(new) - 1, new[i] # notice, new[i + 1] # notice
      PROVE  \E p \in 1 .. Len(seq) - 1 : seq[p] = new[i] /\ seq[p + 1] = new[i + 1]
  <2>1. CASE i < Len(got)
    <3>0. i \in 1 .. Len(got) /\ i + 1 \in 1 .. Len(got) /\ i \in 1 .. Len(got) - 1
      BY <1>2, <2>1
    <3>1. i \in 1 .. Len(got) - 1 /\ new[i] = got[i] /\ new[i + 1] = got[i + 1]
      BY <1>2, <3>0
    <3> QED
      BY <1>4, <3>1 DEF Adjoining
  <2>2. CASE i = Len(got)
    <3>1. got # <<>> /\ got[Len(got)] = new[i] /\ new[i + 1] = seq[next]
      BY <1>2, <2>2
    <3>2. next > 1 /\ seq[next - 1] = new[i]
      BY <1>4, <2>2, <3>1 DEF EndsBefore
    <3>3. next - 1 \in 1 .. Len(seq) - 1 /\ (next - 1) + 1 = next
      BY <1>2, <3>2
    <3> QED
      BY <3>1, <3>2, <3>3
  <2> QED
    BY <1>2, <2>1, <2>2
<1>5. Adjoining(new, seq)
  BY <1>4 DEF Adjoining
<1> QED
  BY <1>3, <1>5 DEF new

\* The notice of a gap follows anything.
LEMMA NoticeKeepsLines ==
  ASSUME NEW seq \in Seq(Nat), NEW got \in Seq(Nat), NEW next, Adjoining(got, seq)
  PROVE  EndsBefore(got \o <<notice>>, seq, next) /\ Adjoining(got \o <<notice>>, seq)
<1> DEFINE new == got \o <<notice>>
<1>1. /\ Len(got) \in Nat /\ Len(new) = Len(got) + 1 /\ new[Len(got) + 1] = notice
      /\ \A i \in 1 .. Len(got) : new[i] = got[i]
  BY DEF notice
<1> HIDE DEF new
<1> QED
  BY <1>1 DEF EndsBefore, Adjoining, new

\* A line is a number.
LEMMA LogTypes ==
  ASSUME Types
  PROVE  /\ sent["logs"] \in Seq(Nat) /\ socket["logs"].got \in Seq(Nat)
         /\ socket["logs"].next \in 1 .. Len(sent["logs"]) + 1
<1>1. /\ sent["logs"] \in Seq(0 .. MaxLines) /\ socket["logs"].got \in Seq(0 .. MaxLines)
      /\ socket["logs"].next \in 1 .. Len(sent["logs"]) + 1
  BY SentTypes DEF Types, StreamTypes, Receiver, Stuff, Sockets
<1>2. 0 .. MaxLines \subseteq Nat
  OBVIOUS
<1> QED
  BY <1>1, <1>2, SeqMonotonic

\* handle_logs: a line is received after the one before it or after the notice of a gap.
LEMMA NextLogStream == Types /\ LogStream /\ [Next]_vars => LogStream'
<1> SUFFICES ASSUME Types, LogStream, [Next]_vars PROVE LogStream'
  OBVIOUS
<1> USE ConstantsAssumption
        DEF LogStream
<1>1. ASSUME NEW x \in notices, Publish(x) PROVE LogStream'
  <2>1. sent'["logs"] = sent["logs"]
    BY <1>1, SentGrows DEF Publish, Sockets
  <2> QED
    BY <1>1, <2>1 DEF Publish
<1>2. ASSUME NEW i \in lines, PublishLine(i) PROVE LogStream'
  <2>0. /\ sent["logs"] \in Seq(Nat) /\ socket["logs"].got \in Seq(Nat)
        /\ socket["logs"].next \in 1 .. Len(sent["logs"]) + 1
    BY LogTypes
  <2>1. sent'["logs"] = Append(sent["logs"], i) /\ UNCHANGED socket
    BY <1>2, SentGrows DEF PublishLine, Sockets
  <2>2. i \in Nat
    BY <1>2 DEF Types, LineTypes
  <2> QED
    BY <2>0, <2>1, <2>2, AppendKeepsLines
<1>3. ASSUME NEW k \in Sockets, Connect(k) PROVE LogStream'
  <2>1. CASE k = "logs"
    <3>1. socket'["logs"].got = <<>>
      BY <1>3, <2>1, ReceiverEffect
    <3> QED
      BY <1>3, <3>1 DEF Connect, EndsBefore, Adjoining
  <2>2. CASE k # "logs"
    <3>1. socket'["logs"] = socket["logs"] /\ UNCHANGED sent
      BY <1>3, <2>2, ReceiverEffect DEF Sockets, Connect
    <3> QED
      BY <3>1
  <2> QED
    BY <2>1, <2>2
<1>4. ASSUME NEW k \in Sockets, Receive(k) PROVE LogStream'
  <2>0. /\ sent["logs"] \in Seq(Nat) /\ socket["logs"].got \in Seq(Nat)
        /\ socket["logs"].next \in 1 .. Len(sent["logs"]) + 1
    BY LogTypes
  <2>1. CASE k = "logs"
    <3>1. /\ socket'["logs"].got = Append(socket["logs"].got, sent["logs"][socket["logs"].next])
          /\ socket'["logs"].next = socket["logs"].next + 1
          /\ socket["logs"].next <= Len(sent["logs"])
          /\ UNCHANGED sent
      BY <1>4, <2>1, ReceiverEffect DEF Receive
    <3>2. socket["logs"].next \in 1 .. Len(sent["logs"])
      BY <2>0, <3>1
    <3> QED
      BY <2>0, <3>1, <3>2, ReceiveKeepsLines
  <2>2. CASE k # "logs"
    <3>1. socket'["logs"] = socket["logs"] /\ UNCHANGED sent
      BY <1>4, <2>2, ReceiverEffect DEF Sockets, Receive
    <3> QED
      BY <3>1
  <2> QED
    BY <2>1, <2>2
<1>5. ASSUME NEW k \in Sockets, Lag(k) PROVE LogStream'
  <2>0. /\ sent["logs"] \in Seq(Nat) /\ socket["logs"].got \in Seq(Nat)
        /\ socket["logs"].next \in 1 .. Len(sent["logs"]) + 1
    BY LogTypes
  <2>1. CASE k = "logs"
    <3>1. socket'["logs"].got = socket["logs"].got \o <<notice>> /\ UNCHANGED sent
      BY <1>5, <2>1, ReceiverEffect DEF Notice, Lag
    <3> QED
      BY <2>0, <3>1, NoticeKeepsLines
  <2>2. CASE k # "logs"
    <3>1. socket'["logs"] = socket["logs"] /\ UNCHANGED sent
      BY <1>5, <2>2, ReceiverEffect DEF Sockets, Lag
    <3> QED
      BY <3>1
  <2> QED
    BY <2>1, <2>2
<1>6. CASE Restart
  <2>1. socket'["logs"].got = <<>>
    BY <1>6 DEF Restart, Off, Sockets
  <2> QED
    BY <2>1 DEF EndsBefore, Adjoining
<1>7. ASSUME NEW c \in Clients,
             BeginStart(c) \/ Look(c) \/ Insert(c) \/ Start(c) \/
             BeginPolicy(c) \/ WritePolicy(c) \/ Unwatch(c) \/
             ReadPolicy(c) \/ Watch(c) \/ WatchNothing(c)
      PROVE  LogStream'
  <2>1. UNCHANGED <<sent, socket>>
    BY <1>7 DEF BeginStart, Begin, Look, Goto, Insert, Registered, Start,
                Move, BeginPolicy, WritePolicy, Unwatch, ReadPolicy, Watch, WatchNothing
  <2> QED
    BY <2>1 DEF Types, LogStream
<1>8. ASSUME NEW b \in Builds,
             Moves(b)
      PROVE  LogStream'
  <2>1. UNCHANGED <<sent, socket>>
    BY <1>8 DEF Moves, Move
  <2> QED
    BY <2>1 DEF Types, LogStream
<1>9. ASSUME NEW x \in notices,
             WriteRow(x) \/ WriteRowFails(x) \/ AppendEvent(x) \/ AppendEventFails(x)
      PROVE  LogStream'
  <2>1. UNCHANGED <<sent, socket>>
    BY <1>9 DEF WriteRow, WriteRowFails, Replace, AppendEvent, AppendEventFails
  <2> QED
    BY <2>1 DEF Types, LogStream
<1>10. ASSUME NEW s \in Servers,
             ReadLine(s)
      PROVE  LogStream'
  <2>1. UNCHANGED <<sent, socket>>
    BY <1>10 DEF ReadLine
  <2> QED
    BY <2>1 DEF Types, LogStream
<1>11. CASE UNCHANGED vars
  <2>1. UNCHANGED <<sent, socket>>
    BY <1>11 DEF vars
  <2> QED
    BY <2>1 DEF Types, LogStream
<1> QED
  BY <1>1, <1>2, <1>3, <1>4, <1>5, <1>6, <1>7, <1>8, <1>9, <1>10, <1>11
     DEF Next, Call

\* A client that did not lag still has a window after one more event, sent or received.
LEMMA WindowKept ==
  ASSUME NEW S, NEW seq \in Seq(S), NEW got \in Seq(S), NEW next \in 1 .. Len(seq) + 1, NEW e \in S,
         IsWindow(got, seq, next)
  PROVE  /\ IsWindow(got, Append(seq, e), next)
         /\ next <= Len(seq) => IsWindow(Append(got, seq[next]), seq, next + 1)
<1>1. Len(got) \in Nat /\ Len(seq) \in Nat /\ next \in Nat
  OBVIOUS
<1>2. IsWindow(got, Append(seq, e), next)
  <2> SUFFICES ASSUME NEW i \in 1 .. Len(got)
               PROVE  got[i] = Append(seq, e)[next - 1 - Len(got) + i]
    BY DEF IsWindow
  <2>1. next - 1 - Len(got) + i \in 1 .. Len(seq)
    BY <1>1 DEF IsWindow
  <2> QED
    BY <2>1, AppendAt DEF IsWindow
<1>3. ASSUME next <= Len(seq) PROVE IsWindow(Append(got, seq[next]), seq, next + 1)
  <2> DEFINE new == Append(got, seq[next])
  <2>1. seq[next] \in S
    BY <1>1, <1>3, ElementOfSeq
  <2>2. /\ Len(new) = Len(got) + 1 /\ new[Len(got) + 1] = seq[next]
        /\ \A i \in 1 .. Len(got) : new[i] = got[i]
    BY <2>1, AppendAt
  <2> HIDE DEF new
  <2>3. ASSUME NEW i \in 1 .. Len(new) PROVE new[i] = seq[(next + 1) - 1 - Len(new) + i]
    <3>1. CASE i \in 1 .. Len(got)
      <4>1. (next + 1) - 1 - Len(new) + i = next - 1 - Len(got) + i
        BY <1>1, <2>2, <3>1
      <4> QED
        BY <2>2, <3>1, <4>1 DEF IsWindow
    <3>2. CASE i = Len(got) + 1
      <4>1. (next + 1) - 1 - Len(new) + i = next
        BY <1>1, <2>2, <3>2
      <4> QED
        BY <2>2, <3>2, <4>1
    <3> QED
      BY <1>1, <2>2, <3>1, <3>2
  <2>4. Len(new) < next + 1
    BY <1>1, <2>2 DEF IsWindow
  <2> QED
    BY <2>3, <2>4 DEF IsWindow, new
<1> QED
  BY <1>2, <1>3

\* A window as long as what was sent, and at its end, is all of it.
LEMMA WholeWindow ==
  ASSUME NEW S, NEW seq \in Seq(S), NEW got \in Seq(S), NEW next \in 1 .. Len(seq) + 1,
         IsWindow(got, seq, next), next = Len(seq) + 1, Len(got) = Len(seq)
  PROVE  got = seq
<1>1. \A i \in 1 .. Len(got) : next - 1 - Len(got) + i = i
  OBVIOUS
<1>2. \A i \in 1 .. Len(got) : got[i] = seq[i]
  BY <1>1 DEF IsWindow
<1> QED
  BY <1>2, SeqEqual

\* An event is a typed item, and so is what a client of the events got.
LEMMA EventTypes ==
  ASSUME Types
  PROVE  /\ sent["events"] \in Seq(Items) /\ socket["events"].got \in Seq(Items)
         /\ socket["events"].next \in 1 .. Len(sent["events"]) + 1
BY SentTypes DEF Types, StreamTypes, Receiver, Stuff, Sockets

\* handle_events: as long as it does not lag, what it got is all since it connected.
LEMMA NextEventReceiver == Types /\ EventReceiver /\ [Next]_vars => EventReceiver'
<1> SUFFICES ASSUME Types, EventReceiver, [Next]_vars PROVE EventReceiver'
  OBVIOUS
<1> USE ConstantsAssumption
        DEF EventReceiver
<1>1. ASSUME NEW x \in notices, Publish(x) PROVE EventReceiver'
  <2>1. Item(x) \in Items
    BY <1>1 DEF Publish, Types, NoticeTypes, Notices, Item, Items
  <2>2. sent'["events"] = Append(sent["events"], Item(x)) /\ UNCHANGED socket
    BY <1>1, SentGrows DEF Publish, Sockets
  <2> QED
    BY <2>1, <2>2, EventTypes, WindowKept
<1>2. ASSUME NEW i \in lines, PublishLine(i) PROVE EventReceiver'
  <2>1. sent'["events"] = sent["events"] /\ UNCHANGED socket
    BY <1>2, SentGrows DEF PublishLine, Sockets
  <2> QED
    BY <2>1
<1>3. ASSUME NEW k \in Sockets, Connect(k) PROVE EventReceiver'
  <2>1. CASE k = "events"
    <3>1. socket'["events"].got = <<>> /\ socket'["events"].next = Len(sent["events"]) + 1
      BY <1>3, <2>1, ReceiverEffect
    <3>2. IsWindow(<<>>, sent["events"], Len(sent["events"]) + 1)
      BY EventTypes DEF IsWindow
    <3> QED
      BY <1>3, <3>1, <3>2 DEF Connect
  <2>2. CASE k # "events"
    <3>1. socket'["events"] = socket["events"] /\ UNCHANGED sent
      BY <1>3, <2>2, ReceiverEffect DEF Sockets, Connect
    <3> QED
      BY <3>1
  <2> QED
    BY <2>1, <2>2
<1>4. ASSUME NEW k \in Sockets, Receive(k) PROVE EventReceiver'
  <2>1. CASE k = "events"
    <3>1. /\ socket'["events"].got = Append(socket["events"].got, sent["events"][socket["events"].next])
          /\ socket'["events"].next = socket["events"].next + 1
          /\ socket'["events"].lagged = socket["events"].lagged
          /\ socket["events"].next <= Len(sent["events"])
          /\ UNCHANGED sent
      BY <1>4, <2>1, ReceiverEffect DEF Receive
    <3>2. sent["events"][socket["events"].next] \in Items
      BY <3>1, EventTypes, ElementOfSeq
    <3> QED
      BY <3>1, <3>2, EventTypes, WindowKept
  <2>2. CASE k # "events"
    <3>1. socket'["events"] = socket["events"] /\ UNCHANGED sent
      BY <1>4, <2>2, ReceiverEffect DEF Sockets, Receive
    <3> QED
      BY <3>1
  <2> QED
    BY <2>1, <2>2
<1>5. ASSUME NEW k \in Sockets, Lag(k) PROVE EventReceiver'
  <2>1. CASE k = "events"
    BY <1>5, <2>1, ReceiverEffect
  <2>2. CASE k # "events"
    <3>1. socket'["events"] = socket["events"] /\ UNCHANGED sent
      BY <1>5, <2>2, ReceiverEffect DEF Sockets, Lag
    <3> QED
      BY <3>1
  <2> QED
    BY <2>1, <2>2
<1>6. CASE Restart
  <2>1. socket'["events"].got = <<>> /\ socket'["events"].next = 1
    BY <1>6 DEF Restart, Off, Sockets
  <2> QED
    BY <2>1 DEF IsWindow
<1>7. ASSUME NEW c \in Clients,
             BeginStart(c) \/ Look(c) \/ Insert(c) \/ Start(c) \/
             BeginPolicy(c) \/ WritePolicy(c) \/ Unwatch(c) \/
             ReadPolicy(c) \/ Watch(c) \/ WatchNothing(c)
      PROVE  EventReceiver'
  <2>1. UNCHANGED <<sent, socket>>
    BY <1>7 DEF BeginStart, Begin, Look, Goto, Insert, Registered, Start,
                Move, BeginPolicy, WritePolicy, Unwatch, ReadPolicy, Watch, WatchNothing
  <2> QED
    BY <2>1 DEF Types, EventReceiver
<1>8. ASSUME NEW b \in Builds,
             Moves(b)
      PROVE  EventReceiver'
  <2>1. UNCHANGED <<sent, socket>>
    BY <1>8 DEF Moves, Move
  <2> QED
    BY <2>1 DEF Types, EventReceiver
<1>9. ASSUME NEW x \in notices,
             WriteRow(x) \/ WriteRowFails(x) \/ AppendEvent(x) \/ AppendEventFails(x)
      PROVE  EventReceiver'
  <2>1. UNCHANGED <<sent, socket>>
    BY <1>9 DEF WriteRow, WriteRowFails, Replace, AppendEvent, AppendEventFails
  <2> QED
    BY <2>1 DEF Types, EventReceiver
<1>10. ASSUME NEW s \in Servers,
             ReadLine(s)
      PROVE  EventReceiver'
  <2>1. UNCHANGED <<sent, socket>>
    BY <1>10 DEF ReadLine
  <2> QED
    BY <2>1 DEF Types, EventReceiver
<1>11. CASE UNCHANGED vars
  <2>1. UNCHANGED <<sent, socket>>
    BY <1>11 DEF vars
  <2> QED
    BY <2>1 DEF Types, EventReceiver
<1> QED
  BY <1>1, <1>2, <1>3, <1>4, <1>5, <1>6, <1>7, <1>8, <1>9, <1>10, <1>11
     DEF Next, Call

\* The last that is told of a server after one more event.
LEMMA AppendTells ==
  ASSUME NEW seq \in Seq(Items), NEW e \in Items, NEW s, NEW what
  PROVE  /\ e.server = s => LastTold(Append(seq, e), s, e.what)
         /\ e.server # s /\ LastTold(seq, s, what) => LastTold(Append(seq, e), s, what)
<1> DEFINE longer == Append(seq, e)
<1>1. /\ Len(seq) \in Nat /\ DOMAIN seq = 1 .. Len(seq) /\ DOMAIN longer = 1 .. Len(seq) + 1
      /\ \A i \in 1 .. Len(seq) : longer[i] = seq[i]
      /\ longer[Len(seq) + 1] = e
  BY AppendAt
<1> HIDE DEF longer
<1>2. e.server = s => LastTold(longer, s, e.what)
  BY <1>1 DEF LastTold
<1>3. ASSUME e.server # s, LastTold(seq, s, what) PROVE LastTold(longer, s, what)
  BY <1>1, <1>3 DEF LastTold
<1> QED
  BY <1>2, <1>3 DEF longer

\* A step that is about another server leaves the account of this one alone.
LEMMA ElsewhereKept ==
  ASSUME Types, NEW s \in Servers, Unknown(s), Known(s),
         registry'[s] = registry[s],
         registry[s] # Absent => sup'[registry[s]] = sup[registry[s]],
         \A x : x.server = s => (x \in notices' <=> x \in notices),
         row'[s] = row[s], s \in overlapped' <=> s \in overlapped, s \in unheard' <=> s \in unheard,
         s \in untold' <=> s \in untold,
         \/ sent'["events"] = sent["events"]
         \/ \E e \in Items : e.server # s /\ sent'["events"] = Append(sent["events"], e)
  PROVE  Unknown(s)' /\ Known(s)'
<1>1. \A what : LastTold(sent["events"], s, what) => LastTold(sent'["events"], s, what)
  BY EventTypes, AppendTells
<1>2. (\A i \in DOMAIN sent["events"] : sent["events"][i].server # s)
        => \A i \in DOMAIN sent'["events"] : sent'["events"][i].server # s
  <2>1. CASE sent'["events"] = sent["events"]
    BY <2>1
  <2>2. ASSUME NEW e \in Items, e.server # s, sent'["events"] = Append(sent["events"], e)
        PROVE  (\A i \in DOMAIN sent["events"] : sent["events"][i].server # s)
                 => \A i \in DOMAIN sent'["events"] : sent'["events"][i].server # s
    BY <2>2, EventTypes, AppendAt
  <2> QED
    BY <2>1, <2>2
<1>3. registry[s] # Absent => (RowAgrees(s) => RowAgrees(s)')
  BY DEF RowAgrees
<1>4. Unknown(s)'
  BY <1>2 DEF Unknown
<1>5. Known(s)'
  BY <1>1, <1>3 DEF Known
<1> QED
  BY <1>4, <1>5

\* A supervisor that moves is the registered one; the others are not touched.
LEMMA MoveKeepsAccounts ==
  ASSUME Types, Registration, Accounts, NEW b \in Builds, sup[b] # Absent, NEW to \in States,
         Move(b, to), UNCHANGED <<registry, row, sent, unheard, untold>>
  PROVE  Accounts'
<1> SUFFICES ASSUME NEW s \in Servers PROVE Unknown(s)' /\ Known(s)'
  BY DEF Accounts
<1>1. Unknown(s) /\ Known(s)
  BY DEF Accounts
<1>2. registry[sup[b].server] = b /\ sup[b].server \in Servers
  BY DEF Registration, Types, ObjectTypes, Supervisors
<1>3. PICK x \in Notices : /\ x.server = sup[b].server /\ x.what = to /\ x.at = "row"
                           /\ notices' = notices \cup {x}
  BY MoveEffect
<1>4. sup'[b].state = to /\ \A d \in Builds \ {b} : sup'[d] = sup[d]
  BY MoveEffect
<1>5. overlapped' = overlapped \cup {z.server : z \in {y \in notices : y.server = sup[b].server}}
  BY DEF Move
<1>6. CASE s = sup[b].server
  <2>1. registry'[s] = b /\ b # Absent
    BY <1>2, <1>6, ConstantsAssumption DEF Builds
  <2>2. s \notin overlapped' => s \notin overlapped /\ \A y \in notices : y.server # s
    BY <1>5, <1>6
  <2>3. Known(s)'
    BY <1>3, <1>4, <1>6, <2>1, <2>2 DEF Known
  <2> QED
    BY <2>1, <2>3 DEF Unknown
<1>7. CASE s # sup[b].server
  <2>1. registry[s] # Absent => registry[s] \in Builds \ {b}
    BY <1>7 DEF Registration, Types, ObjectTypes
  <2>2. s \in overlapped' <=> s \in overlapped
    BY <1>5, <1>7
  <2>3. \A z : z.server = s => (z \in notices' <=> z \in notices)
    BY <1>3, <1>7
  <2>4. sent'["events"] = sent["events"] /\ row'[s] = row[s] /\ registry'[s] = registry[s]
    OBVIOUS
  <2> QED
    BY <1>1, <1>4, <2>1, <2>2, <2>3, <2>4, ElsewhereKept
<1> QED
  BY <1>6, <1>7

\* A transition changes the supervisor, then the row, then the log and what is sent: at
\* each of these steps the accounts that have been brought up to date agree with it.
LEMMA NextAccounts == Types /\ Jobbing /\ Registration /\ Accounts /\ [Next]_vars => Accounts'
<1> SUFFICES ASSUME Types, Jobbing, Registration, Accounts, [Next]_vars PROVE Accounts'
  OBVIOUS
<1> USE DEF Accounts
<1>1. ASSUME NEW c \in Clients, Insert(c) PROVE Accounts'
  <2> SUFFICES ASSUME NEW s \in Servers PROVE Unknown(s)' /\ Known(s)'
    BY DEF Accounts
  <2>1. Unknown(s) /\ Known(s)
    BY DEF Accounts
  <2>2. /\ job[c].server \in Servers /\ job[c].new \in Supervisors /\ job[c].new.state = "Stopped"
        /\ job[c].new.server = job[c].server
        /\ job[c].mine \in Builds /\ sup[job[c].mine] = Absent
    BY <1>1 DEF Insert, Jobbing, Registration
  <2>3. UNCHANGED <<row, notices, sent, overlapped, unheard, untold>>
    BY <1>1 DEF Insert
  <2>4. CASE registry[job[c].server] = Absent /\ s = job[c].server
    <3>1. registry'[s] = job[c].mine /\ sup'[job[c].mine] = job[c].new
      BY <1>1, <2>2, <2>4 DEF Insert, Registered, Types, ObjectTypes
    <3>2. registry'[s] # Absent /\ sup'[registry'[s]].state = "Stopped"
      BY <2>2, <3>1, ConstantsAssumption DEF Builds
    <3>3. /\ \A x \in notices' : x.server # s
          /\ \A i \in DOMAIN sent'["events"] : sent'["events"][i].server # s
          /\ s \notin unheard' => row'[s].state = "Stopped" /\ ~row'[s].up
      BY <2>1, <2>3, <2>4 DEF Unknown
    <3>4. LastTold(sent'["events"], s, "Stopped")
      BY <3>3 DEF LastTold
    <3>5. s \notin unheard' => RowAgrees(s)'
      BY <3>2, <3>3 DEF RowAgrees
    <3>6. Known(s)'
      BY <3>2, <3>3, <3>4, <3>5 DEF Known
    <3> QED
      BY <3>2, <3>6 DEF Unknown
  <2>5. CASE ~(registry[job[c].server] = Absent /\ s = job[c].server)
    <3>1. registry'[s] = registry[s]
      BY <1>1, <2>2, <2>5 DEF Insert, Registered, Types, ObjectTypes
    <3>2. registry[s] # Absent => sup'[registry[s]] = sup[registry[s]]
      <4>1. registry[s] # Absent => registry[s] \in Builds /\ registry[s] # job[c].mine
        BY <2>2 DEF Registration, Types, ObjectTypes
      <4> QED
        BY <1>1, <2>2, <4>1 DEF Insert, Registered, Types, ObjectTypes
    <3> QED
      BY <2>1, <2>3, <3>1, <3>2, ElsewhereKept
  <2> QED
    BY <2>4, <2>5
<1>2. ASSUME NEW c \in Clients, Start(c) PROVE Accounts'
  <2>1. CASE MayStart(sup[job[c].mine].state)
    <3>1. Move(job[c].mine, "Starting") /\ UNCHANGED <<registry, row, sent, unheard, untold>>
      BY <1>2, <2>1 DEF Start
    <3>2. "Starting" \in States /\ pc[c] = "start"
      BY <1>2 DEF States, Start
    <3> QED
      BY <3>1, <3>2, StartsRegistered, MoveKeepsAccounts
  <2>2. CASE ~MayStart(sup[job[c].mine].state)
    <3>1. UNCHANGED <<registry, sup, row, notices, sent, overlapped, unheard, untold>>
      BY <1>2, <2>2 DEF Start
    <3> QED
      BY <3>1 DEF Accounts, Unknown, Known, RowAgrees
  <2> QED
    BY <2>1, <2>2
<1>3. ASSUME NEW b \in Builds, Moves(b) PROVE Accounts'
  <2>1. PICK to \in MayBecome(sup[b].state) : Move(b, to)
    BY <1>3 DEF Moves
  <2>2. to \in States /\ sup[b] # Absent /\ UNCHANGED <<registry, row, sent, unheard, untold>>
    BY <1>3 DEF Moves, MayBecome, Types, ObjectTypes, Supervisors, States
  <2> QED
    BY <2>1, <2>2, MoveKeepsAccounts
<1>4. ASSUME NEW x \in notices, WriteRow(x) PROVE Accounts'
  <2> SUFFICES ASSUME NEW s \in Servers PROVE Unknown(s)' /\ Known(s)'
    BY DEF Accounts
  <2>1. Unknown(s) /\ Known(s)
    BY DEF Accounts
  <2>2. x.server = s => /\ registry[s] # Absent /\ registry[s] \in Builds
                        /\ s \notin overlapped => /\ x.what = sup[registry[s]].state
                                                  /\ \A y \in notices : y.server = s => y = x
    BY <2>1 DEF Unknown, Known, Types, ObjectTypes
  <2>3. x.what \in States /\ x.server \in Servers /\ x.n \in 1 .. MaxMoves
        /\ (x.at # "row" => x.what \in Told)
    BY DEF Types, NoticeTypes, Notices
  <2>4. UNCHANGED <<registry, sup, sent, overlapped, untold>> /\ unheard' = unheard \ {x.server}
    BY <1>4 DEF WriteRow
  <2>5. CASE s = x.server
    <3>1. row'[s] = RowAfter(row[s], x.what)
      BY <1>4, <2>5 DEF WriteRow, Types, RowTypes
    <3>2. s \notin overlapped => RowAgrees(s)'
      BY <2>2, <2>4, <2>5, <3>1 DEF RowAfter, RowAgrees
    <3>3. CASE x.what \in Told
      <4>1. PICK y \in Notices : /\ y.server = s /\ y.what = x.what /\ y.at = "event"
                                 /\ notices' = (notices \ {x}) \cup {y}
        BY <1>4, <2>5, <3>3, ReplaceEffect DEF WriteRow
      <4>2. Known(s)'
        BY <2>2, <2>4, <2>5, <3>2, <4>1 DEF Known
      <4> QED
        BY <2>2, <2>4, <2>5, <4>2 DEF Unknown
    <3>4. CASE x.what \notin Told
      <4>1. notices' = notices \ {x}
        BY <1>4, <3>4 DEF WriteRow
      <4>2. Known(s)'
        BY <2>2, <2>4, <2>5, <3>2, <3>4, <4>1 DEF Known
      <4> QED
        BY <2>2, <2>4, <2>5, <4>2 DEF Unknown
    <3> QED
      BY <3>3, <3>4
  <2>6. CASE s # x.server
    <3>1. row'[s] = row[s] /\ (s \in unheard' <=> s \in unheard)
      BY <1>4, <2>4, <2>6 DEF WriteRow, Types, RowTypes
    <3>2. \A z : z.server = s => (z \in notices' <=> z \in notices)
      BY <1>4, <2>6, ReplaceEffect DEF WriteRow
    <3> QED
      BY <2>1, <2>4, <3>1, <3>2, ElsewhereKept
  <2> QED
    BY <2>5, <2>6
<1>4a. ASSUME NEW x \in notices, WriteRowFails(x) PROVE Accounts'
  <2> SUFFICES ASSUME NEW s \in Servers PROVE Unknown(s)' /\ Known(s)'
    BY DEF Accounts
  <2>1. Unknown(s) /\ Known(s)
    BY DEF Accounts
  <2>2. x.server = s => /\ registry[s] # Absent /\ registry[s] \in Builds
                        /\ s \notin overlapped => /\ x.what = sup[registry[s]].state
                                                  /\ \A y \in notices : y.server = s => y = x
    BY <2>1 DEF Unknown, Known, Types, ObjectTypes
  <2>3. UNCHANGED <<registry, sup, row, sent, overlapped, untold>> /\ unheard' = unheard \cup {x.server}
    BY <1>4a DEF WriteRowFails
  <2>4. CASE s = x.server
    <3>1. CASE x.what \in Told
      <4>1. PICK y \in Notices : /\ y.server = s /\ y.what = x.what /\ y.at = "event"
                                 /\ notices' = (notices \ {x}) \cup {y}
        BY <1>4a, <2>4, <3>1, ReplaceEffect DEF WriteRowFails
      <4>2. Known(s)'
        BY <2>2, <2>3, <2>4, <4>1 DEF Known
      <4> QED
        BY <2>2, <2>3, <2>4, <4>2 DEF Unknown
    <3>2. CASE x.what \notin Told
      <4>1. notices' = notices \ {x}
        BY <1>4a, <3>2 DEF WriteRowFails
      <4>2. Known(s)'
        BY <2>2, <2>3, <2>4, <3>2, <4>1 DEF Known
      <4> QED
        BY <2>2, <2>3, <2>4, <4>2 DEF Unknown
    <3> QED
      BY <3>1, <3>2
  <2>5. CASE s # x.server
    <3>1. row'[s] = row[s] /\ (s \in unheard' <=> s \in unheard)
      BY <2>3, <2>5
    <3>2. \A z : z.server = s => (z \in notices' <=> z \in notices)
      BY <1>4a, <2>5, ReplaceEffect DEF WriteRowFails
    <3> QED
      BY <2>1, <2>3, <3>1, <3>2, ElsewhereKept
  <2> QED
    BY <2>4, <2>5
<1>5. ASSUME NEW x \in notices, AppendEvent(x) PROVE Accounts'
  <2> SUFFICES ASSUME NEW s \in Servers PROVE Unknown(s)' /\ Known(s)'
    BY DEF Accounts
  <2>1. Unknown(s) /\ Known(s)
    BY DEF Accounts
  <2>2. x.server = s => /\ registry[s] # Absent /\ registry[s] \in Builds
                        /\ s \notin overlapped => /\ x.what = sup[registry[s]].state
                                                  /\ \A y \in notices : y.server = s => y = x
    BY <2>1 DEF Unknown, Known, Types, ObjectTypes
  <2>3. x.what \in States /\ x.server \in Servers /\ x.n \in 1 .. MaxMoves
        /\ (x.at # "row" => x.what \in Told)
    BY DEF Types, NoticeTypes, Notices
  <2>4. /\ UNCHANGED <<registry, sup, row, sent, overlapped, unheard>> /\ x.at = "event"
        /\ untold' = untold \ {x.server}
    BY <1>5 DEF AppendEvent
  <2>5. PICK y \in Notices : /\ y.server = x.server /\ y.what = x.what /\ y.at = "publish"
                             /\ notices' = (notices \ {x}) \cup {y}
    BY <1>5, ReplaceEffect DEF AppendEvent
  <2>6. CASE s = x.server
    <3>1. RowAgrees(s)' <=> RowAgrees(s)
      BY <2>4 DEF RowAgrees
    <3>2. s \notin overlapped => \A z \in notices : z.server = s => z.at # "row"
      BY <2>2, <2>4, <2>6
    <3>3. Known(s)'
      BY <2>1, <2>2, <2>4, <2>5, <2>6, <3>1, <3>2 DEF Known
    <3> QED
      BY <2>2, <2>4, <2>6, <3>3 DEF Unknown
  <2>7. CASE s # x.server
    <3>1. \A z : z.server = s => (z \in notices' <=> z \in notices)
      BY <2>5, <2>7
    <3>2. s \in untold' <=> s \in untold
      BY <2>4, <2>7
    <3> QED
      BY <2>1, <2>4, <3>1, <3>2, ElsewhereKept
  <2> QED
    BY <2>6, <2>7
<1>5a. ASSUME NEW x \in notices, AppendEventFails(x) PROVE Accounts'
  <2> SUFFICES ASSUME NEW s \in Servers PROVE Unknown(s)' /\ Known(s)'
    BY DEF Accounts
  <2>1. Unknown(s) /\ Known(s)
    BY DEF Accounts
  <2>2. x.server = s => /\ registry[s] # Absent
                        /\ s \notin overlapped => \A y \in notices : y.server = s => y = x
    BY <2>1 DEF Unknown, Known
  <2>3. /\ UNCHANGED <<registry, sup, row, sent, overlapped, unheard>> /\ x.at = "event"
        /\ notices' = notices \ {x} /\ untold' = untold \cup {x.server}
    BY <1>5a DEF AppendEventFails
  <2>4. CASE s = x.server
    <3>1. RowAgrees(s)' <=> RowAgrees(s)
      BY <2>3 DEF RowAgrees
    <3>2. s \notin overlapped => \A z \in notices : z.server = s => z.at # "row"
      BY <2>2, <2>3, <2>4
    <3>3. Known(s)'
      BY <2>1, <2>2, <2>3, <2>4, <3>1, <3>2 DEF Known
    <3> QED
      BY <2>2, <2>3, <2>4, <3>3 DEF Unknown
  <2>5. CASE s # x.server
    <3>1. \A z : z.server = s => (z \in notices' <=> z \in notices)
      BY <2>3, <2>5
    <3>2. s \in untold' <=> s \in untold
      BY <2>3, <2>5
    <3> QED
      BY <2>1, <2>3, <3>1, <3>2, ElsewhereKept
  <2> QED
    BY <2>4, <2>5
<1>6. ASSUME NEW x \in notices, Publish(x) PROVE Accounts'
  <2> SUFFICES ASSUME NEW s \in Servers PROVE Unknown(s)' /\ Known(s)'
    BY DEF Accounts
  <2>1. Unknown(s) /\ Known(s)
    BY DEF Accounts
  <2>2. x.server = s => /\ registry[s] # Absent /\ registry[s] \in Builds
                        /\ s \notin overlapped => /\ x.what = sup[registry[s]].state
                                                  /\ \A y \in notices : y.server = s => y = x
    BY <2>1 DEF Unknown, Known, Types, ObjectTypes
  <2>3. x.what \in States /\ x.server \in Servers /\ x.n \in 1 .. MaxMoves
        /\ (x.at # "row" => x.what \in Told)
    BY DEF Types, NoticeTypes, Notices
  <2>4. UNCHANGED <<registry, sup, row, overlapped, unheard, untold>> /\ x.at = "publish"
        /\ notices' = notices \ {x}
    BY <1>6 DEF Publish
  <2>5. Item(x) \in Items /\ Item(x).server = x.server /\ Item(x).what = x.what
    BY <2>3, <2>4 DEF Item, Items
  <2>6. sent'["events"] = Append(sent["events"], Item(x))
    BY <1>6, SentGrows DEF Publish, Sockets
  <2>7. CASE s = x.server
    <3>1. LastTold(sent'["events"], s, x.what)
      BY <2>5, <2>6, <2>7, EventTypes, AppendTells
    <3>2. RowAgrees(s)' <=> RowAgrees(s)
      BY <2>4 DEF RowAgrees
    <3>3. s \notin overlapped => \A z \in notices : z.server = s => z.at # "row"
      BY <2>2, <2>4, <2>7
    <3>4. Known(s)'
      BY <2>1, <2>2, <2>4, <2>7, <3>1, <3>2, <3>3 DEF Known
    <3> QED
      BY <2>2, <2>4, <2>7, <3>4 DEF Unknown
  <2>8. CASE s # x.server
    <3>1. \A z : z.server = s => (z \in notices' <=> z \in notices)
      BY <2>4, <2>8
    <3>2. \E e \in Items : e.server # s /\ sent'["events"] = Append(sent["events"], e)
      BY <2>5, <2>6, <2>8
    <3> QED
      BY <2>1, <2>4, <3>1, <3>2, ElsewhereKept
  <2> QED
    BY <2>7, <2>8
<1>7. ASSUME NEW i \in lines, PublishLine(i) PROVE Accounts'
  <2>1. sent'["events"] = sent["events"]
    BY <1>7, SentGrows DEF PublishLine, Sockets
  <2> QED
    BY <1>7, <2>1 DEF PublishLine, Accounts, Unknown, Known, RowAgrees
<1>8. CASE Restart
  <2>1. /\ registry' = [s \in Servers |-> Absent] /\ notices' = {} /\ unheard' = Servers
        /\ sent'["events"] = <<>>
    BY <1>8 DEF Restart, Sockets
  <2> QED
    BY <2>1 DEF Accounts, Unknown, Known
<1>9. ASSUME NEW c \in Clients,
             BeginStart(c) \/ Look(c) \/ BeginPolicy(c) \/
             WritePolicy(c) \/ Unwatch(c) \/ ReadPolicy(c) \/ Watch(c) \/ WatchNothing(c)
      PROVE  Accounts'
  <2>1. UNCHANGED <<registry, sup, row, notices, sent, overlapped, unheard, untold>>
    BY <1>9 DEF BeginStart, Begin, Look, Goto, BeginPolicy, WritePolicy,
                Unwatch, ReadPolicy, Watch, WatchNothing
  <2> QED
    BY <2>1 DEF Accounts, Unknown, Known, RowAgrees
<1>10. ASSUME NEW s \in Servers,
             ReadLine(s)
      PROVE  Accounts'
  <2>1. UNCHANGED <<registry, sup, row, notices, sent, overlapped, unheard, untold>>
    BY <1>10 DEF ReadLine
  <2> QED
    BY <2>1 DEF Accounts, Unknown, Known, RowAgrees
<1>11. ASSUME NEW k \in Sockets,
             Connect(k) \/ Receive(k) \/ Lag(k)
      PROVE  Accounts'
  <2>1. UNCHANGED <<registry, sup, row, notices, sent, overlapped, unheard, untold>>
    BY <1>11 DEF Connect, Receive, Lag
  <2> QED
    BY <2>1 DEF Accounts, Unknown, Known, RowAgrees
<1>12. CASE UNCHANGED vars
  <2>1. UNCHANGED <<registry, sup, row, notices, sent, overlapped, unheard, untold>>
    BY <1>12 DEF vars
  <2> QED
    BY <2>1 DEF Accounts, Unknown, Known, RowAgrees
<1> QED
  BY <1>1, <1>2, <1>3, <1>4, <1>4a, <1>5, <1>5a, <1>6, <1>7, <1>8, <1>9, <1>10, <1>11,
     <1>12
     DEF Next, Call

\* Nothing is built, sent or under way when the app comes up for the first time.
LEMMA InitOrder == Init => Order
<1> SUFFICES ASSUME Init PROVE Order
  OBVIOUS
<1> USE ConstantsAssumption DEF Init
<1>1. RowTypes /\ ObjectTypes /\ CallTypes /\ NoticeTypes /\ LineTypes /\ CountTypes
  BY DEF RowTypes, ObjectTypes, CallTypes, NoticeTypes, LineTypes, CountTypes,
         Policies, States, Jobs, NoJob
<1>2. StreamTypes
  <2>1. <<>> \in Seq(Items) /\ <<>> \in Seq(1 .. MaxLines) /\ \A k \in Sockets : <<>> \in Seq(Stuff(k))
    OBVIOUS
  <2>2. \A k \in Sockets : Off \in Receiver(k) /\ Off.next = 1
    BY <2>1 DEF Off, Receiver
  <2> QED
    BY <2>1, <2>2 DEF StreamTypes, Sockets
<1>3. Jobbing /\ Registration
  BY DEF Jobbing, Registration
<1>4. socket["events"].got = <<>> /\ socket["events"].next = 1
      /\ socket["logs"].got = <<>> /\ socket["logs"].next = 1 /\ sent["events"] = <<>>
  BY DEF Sockets, Off
<1>5. Durability
  BY <1>4 DEF Durability, ToSet
<1>6. LogStream /\ EventReceiver
  BY <1>4 DEF LogStream, EndsBefore, Adjoining, EventReceiver, IsWindow
<1>7. Watching
  BY DEF Watching, PolicyCalls
<1>8. Accounts
  BY <1>4 DEF Accounts, Unknown, Known
<1> QED
  BY <1>1, <1>2, <1>3, <1>5, <1>6, <1>7, <1>8 DEF Order, Types

\* Each part is kept by every step, given the ones before it.
LEMMA NextOrder == Order /\ [Next]_vars => Order'
<1> SUFFICES ASSUME Order, [Next]_vars PROVE Order'
  OBVIOUS
<1>1. Types'
  BY NextRows, NextObjects, NextCalls, NextNotices, NextLines, NextStreams, NextCounts
     DEF Order, Types
<1>2. Jobbing' /\ Registration' /\ Durability'
  BY NextJobbing, NextRegistration, NextDurability DEF Order
<1>3. LogStream' /\ EventReceiver'
  BY NextLogStream, NextEventReceiver DEF Order
<1>4. Watching' /\ Accounts'
  BY NextWatching, NextAccounts DEF Order
<1> QED
  BY <1>1, <1>2, <1>3, <1>4 DEF Order

\* The inductive invariant: its parts say where every call, notice, line and receiver
\* is with respect to the registry, the rows, the log and what was sent.
THEOREM OrderHolds == Spec => []Order
BY InitOrder, NextOrder, PTL DEF Spec

-------------------------------------------------------------------------------
\* TypeOK: whatever the clients ask and however calls, listeners and sockets
\* interleave, the state is of its types.
THEOREM TypeCorrect == Spec => []TypeOK
<1>1. Order => TypeOK
  <2> SUFFICES ASSUME Order PROVE TypeOK
    OBVIOUS
  <2>1. \A s \in Servers : registry[s] # Absent => sup[registry[s]] # Absent
    BY DEF Order, Registration
  <2>2. ToSet(log) \subseteq Items /\ ToSet(sent["events"]) \subseteq Items
    BY DEF Order, Types, NoticeTypes, StreamTypes, ToSet
  <2>3. ToSet(sent["logs"]) \subseteq 1 .. MaxLines
    <3>1. sent["logs"] \in Seq(1 .. MaxLines)
      BY DEF Order, Types, StreamTypes
    <3>2. \A i \in 1 .. Len(sent["logs"]) : sent["logs"][i] \in 1 .. MaxLines
      BY <3>1, ElementOfSeq
    <3>3. DOMAIN sent["logs"] = 1 .. Len(sent["logs"])
      BY <3>1, LenProperties
    <3>4. ToSet(sent["logs"]) = {sent["logs"][i] : i \in 1 .. Len(sent["logs"])}
      BY <3>3 DEF ToSet
    <3> QED
      BY <3>2, <3>4
  <2>4. \A s \in Servers : Len(ring[s]) \in 0 .. BufferLines
    BY ConstantsAssumption DEF Order, Types, LineTypes
  <2>5. \A k \in Sockets : socket[k].on \in BOOLEAN /\ socket[k].next \in 1 .. Len(sent[k]) + 1
    BY DEF Order, Types, StreamTypes, Receiver
  <2>6. \A x \in notices : x.at \in {"row", "event", "publish"} /\ x.what \in States
    BY DEF Order, Types, NoticeTypes, Notices
  <2> QED
    BY <2>1, <2>2, <2>3, <2>4, <2>5, <2>6
       DEF TypeOK, Order, Types, RowTypes, ObjectTypes, CallTypes
<1> QED
  BY <1>1, OrderHolds, PTL

\* OnlyRegisteredRun: a supervisor that left Stopped is the registered one of its
\* server, however many first calls build one at once.
THEOREM RegisteredRun == Spec => []OnlyRegisteredRun
<1>1. Order => OnlyRegisteredRun
  BY DEF Order, Registration, OnlyRegisteredRun
<1> QED
  BY <1>1, OrderHolds, PTL

\* DurableFirst: what a client of /ws/events got is in the event log, though the app
\* may have ended and come back since.
THEOREM Durable == Spec => []DurableFirst
<1>1. Order => DurableFirst
  BY DEF Order, Durability, DurableFirst
<1> QED
  BY <1>1, OrderHolds, PTL

\* GapsAreTold: two lines a client of /ws/logs got next to each other were sent next to
\* each other, for any capacity of the channel.
THEOREM Gaps == Spec => []GapsAreTold
<1>1. Order => GapsAreTold
  BY DEF Order, LogStream, Adjoining, GapsAreTold
<1> QED
  BY <1>1, OrderHolds, PTL

\* PolicyIsWatched: when no policy call is under way and none overlapped another, a
\* server is not watched against its policy, and is watched as its policy says unless
\* no watcher could be made.
THEOREM Watched == Spec => []PolicyIsWatched
<1>1. Order => PolicyIsWatched
  BY DEF Order, Watching, PolicyIsWatched
<1> QED
  BY <1>1, OrderHolds, PTL

\* AccountsAgree: once its listener is through, the row, the supervisor and what a
\* client was told say the same of a server; a row that could not be written and an
\* event that could not be appended are each excused for themselves alone.
THEOREM Agree == Spec => []AccountsAgree
<1>1. Order => AccountsAgree
  <2> SUFFICES ASSUME Order, NEW s \in Servers, registry[s] # Absent,
                      s \notin overlapped, \A x \in notices : x.server # s
               PROVE  LET now == sup[registry[s]].state IN
                      /\ s \notin unheard => RowAgrees(s)
                      /\ s \notin untold /\ now \in Told /\ socket["events"].on /\ ~socket["events"].lagged
                           /\ socket["events"].next = Len(sent["events"]) + 1
                           /\ Len(socket["events"].got) = Len(sent["events"])
                         => LastTold(socket["events"].got, s, now)
    BY DEF AccountsAgree, RowAgrees
  <2>1. Known(s)
    BY DEF Order, Accounts
  <2>2. s \notin unheard => RowAgrees(s)
    BY <2>1 DEF Known
  <2>3. s \notin untold /\ sup[registry[s]].state \in Told => LastTold(sent["events"], s, sup[registry[s]].state)
    BY <2>1 DEF Known
  <2>4. ASSUME ~socket["events"].lagged, socket["events"].next = Len(sent["events"]) + 1,
               Len(socket["events"].got) = Len(sent["events"])
        PROVE  socket["events"].got = sent["events"]
    <3>1. Types /\ IsWindow(socket["events"].got, sent["events"], socket["events"].next)
      BY <2>4 DEF Order, EventReceiver
    <3> QED
      BY <2>4, <3>1, EventTypes, WholeWindow
  <2> QED
    BY <2>2, <2>3, <2>4
<1> QED
  BY <1>1, OrderHolds, PTL

===============================================================================
