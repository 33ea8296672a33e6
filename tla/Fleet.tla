------------------------------- MODULE Fleet --------------------------------
(***************************************************************************)
(* The console's picture of the fleet: the rows of agents, the requests    *)
(* that change them (routers/agents.py, the status reports of              *)
(* ws/agent_ws.py), the sockets of the consoles (ws/console_ws.py and the  *)
(* console half of connection_manager.py), and in each console window the  *)
(* socket with its reconnects (console_ws.ts) and the fleet store          *)
(* (fleet.ts), filled from the snapshot and from events.                   *)
(*                                                                         *)
(* One owner, whose token is valid.  An action is one statement, one send  *)
(* or the code between two awaits.  A frame is handled as it is sent: what *)
(* it says is fixed before, so a slow one is a late send, and one that is  *)
(* lost with its socket is a send to a lost socket.                        *)
(***************************************************************************)
EXTENDS Naturals

CONSTANTS
    Agents, Windows,
    Reporters,   \* handlers of agents' sockets
    MaxOpens,    \* bound: sockets each window opens
    Asks,        \* bound: what the page of each window may ask for
    MaxChanges,  \* bound: changes begun
    MaxFaults    \* bound: changes or broadcasts that fail

ASSUME WritersAssumption == Reporters \cap Windows = {}
ASSUME BoundsAssumption ==
    /\ MaxOpens \in [Windows -> Nat] /\ Asks \in [Windows -> SUBSET {"delete", "name", "role"}]
    /\ MaxChanges \in Nat /\ MaxFaults \in Nat

VARIABLES
    rows,                \* the table agents
    pc, job, todo, dead, \* a writer: its await, what it does, the sockets it has yet
                         \* to send to, those that failed
    consoles,            \* ConnectionManager._console_connections of the owner
    handler, read,       \* handle_console_ws per socket, and its snapshot's rows
    link,                \* a socket between the two ends
    opened, win,         \* a window: sockets opened so far, its state
    view,                \* the window's fleet store
    changes, faults      \* the changes begun so far, and the failures yet to come

db      == <<rows>>
writers == <<pc, job, todo, dead>>
server  == <<consoles, handler, read>>
client  == <<opened, win, view>>
budget  == <<changes, faults>>
vars    == <<db, writers, server, link, client, budget>>

\* What changes an agent: handlers of agent sockets, and one request of each window.
Writers   == Reporters \cup Windows
Sockets   == UNION {{w} \X (1..MaxOpens[w]) : w \in Windows}
Socket(w) == <<w, opened[w]>>

Statuses == {"idle", "offline"}
Names    == {"old", "new"}
Rest     == {"kept", "lost"}     \* capabilities.roles after the first
Row      == [status : Statuses, name : Names, rest : Rest, deleted : BOOLEAN]
Absent   == [status |-> "absent"]
Entry    == [status : Statuses, name : Names] \cup {Absent}
Requests == {"delete", "name", "role"}
Job      == [agent : Agents, does : {"report"} \cup Requests, status : Statuses,
             name : Names, rest : Rest]
NoJob    == [does |-> "nothing"]
NoRows   == [a \in Agents |-> Absent]

\* What SELECT ... WHERE deleted_at IS NULL answers.
SelectAll  == [a \in Agents |-> [status |-> rows[a].status, name |-> rows[a].name]]   \* mutant
SelectLive == [a \in Agents |-> IF rows[a].deleted THEN Absent
                                ELSE [status |-> rows[a].status, name |-> rows[a].name]]

TypeOK ==
    /\ rows \in [Agents -> Row]
    /\ pc \in [Writers -> {"idle", "lookup", "write", "event", "copy", "send", "answer"}]
    /\ job \in [Writers -> Job \cup {NoJob}] /\ \A x \in Writers : pc[x] # "idle" => job[x] \in Job
    /\ todo \in [Writers -> SUBSET Sockets] /\ dead \in [Writers -> SUBSET Sockets]
    /\ consoles \subseteq Sockets
    /\ handler \in [Sockets -> {"none", "select", "send", "receive", "over"}]
    /\ read \in [Sockets -> [Agents -> Entry]]
    /\ link \in [Sockets -> {"none", "open", "lost"}]
    /\ opened \in [Windows -> Nat]
    /\ win \in [Windows -> {"closed", "opening", "live"}]
    /\ view \in [Windows -> [Agents -> Entry]]
    /\ changes \in 0..MaxChanges /\ faults \in 0..MaxFaults

\* Agents are registered and offline; no window is open.
Init ==
    /\ rows = [a \in Agents |-> [status |-> "offline", name |-> "old", rest |-> "kept", deleted |-> FALSE]]
    /\ pc = [x \in Writers |-> "idle"] /\ job = [x \in Writers |-> NoJob]
    /\ todo = [x \in Writers |-> {}] /\ dead = [x \in Writers |-> {}]
    /\ consoles = {} /\ handler = [s \in Sockets |-> "none"] /\ read = [s \in Sockets |-> NoRows]
    /\ link = [s \in Sockets |-> "none"]
    /\ opened = [w \in Windows |-> 0] /\ win = [w \in Windows |-> "closed"]
    /\ view = [w \in Windows |-> NoRows]
    /\ changes = 0 /\ faults \in 0..MaxFaults

-----------------------------------------------------------------------------
(* Changes of an agent.  Those of the agent's own socket write at once; the  *)
(* REST ones look the agent up first.                                        *)

Begin(x) == pc[x] = "idle" /\ changes < MaxChanges /\ changes' = changes + 1 /\ UNCHANGED faults
Fail     == faults > 0 /\ faults' = faults - 1 /\ UNCHANGED changes
Now(a, does, status) ==
    [agent |-> a, does |-> does, status |-> status, name |-> rows[a].name, rest |-> rows[a].rest]
Goto(x, await) == pc' = [pc EXCEPT ![x] = await]
Finish(x) == Goto(x, "idle") /\ job' = [job EXCEPT ![x] = NoJob]

\* _set_status by a registration, a status update or a cleanup.  None of them looks at
\* deleted_at any more: a registration did so some awaits ago.  (One that raises has
\* written nothing and announces nothing: no step.)
Report(x, a, status) ==
    /\ Begin(x) /\ Goto(x, "event")
    /\ rows' = [rows EXCEPT ![a].status = status]
    /\ job' = [job EXCEPT ![x] = Now(a, "report", status)]
    /\ UNCHANGED <<todo, dead, server, link, client>>

\* The page asks for a change of an agent it shows.
Request(w, a, does) ==
    /\ does \in Asks[w] /\ view[w][a] # Absent /\ Begin(w) /\ Goto(w, "lookup")
    /\ job' = [job EXCEPT ![w] = Now(a, does, "offline")]
    /\ UNCHANGED <<db, todo, dead, server, link, client>>

\* update_agent: the PATCH takes the fields it does not set, and the roles after the
\* first, from the row it has read.
UpdateWhole(j, row) ==     \* mutant: the roles are replaced as a whole
    IF j.does = "name" THEN [j EXCEPT !.name = "new", !.rest = row.rest]
                       ELSE [j EXCEPT !.name = row.name, !.rest = "lost"]
Update(j, row) ==
    IF j.does = "name" THEN [j EXCEPT !.name = "new", !.rest = row.rest]
                       ELSE [j EXCEPT !.name = row.name, !.rest = row.rest]

\* update_agent and delete_agent: SELECT ... AND deleted_at IS NULL, or 404.
Lookup(w) ==
    LET row == rows[job[w].agent]
    IN  /\ pc[w] = "lookup"
        /\ IF row.deleted THEN Finish(w)
           ELSE /\ Goto(w, "write")
                /\ job' = [job EXCEPT ![w] = IF @.does = "delete" THEN @ ELSE Update(@, row)]
        /\ UNCHANGED <<db, todo, dead, server, link, client, budget>>

\* UPDATE agents SET name, capabilities, by id and owner.
WriteUpdate(w) ==
    /\ pc[w] = "write" /\ job[w].does \in {"name", "role"} /\ Goto(w, "answer")
    /\ rows' = [rows EXCEPT ![job[w].agent] = [@ EXCEPT !.name = job[w].name, !.rest = job[w].rest]]
    /\ UNCHANGED <<job, todo, dead, server, link, client, budget>>

\* UPDATE agents SET deleted_at, status = 'offline'.
WriteDelete(w) ==
    /\ pc[w] = "write" /\ job[w].does = "delete" /\ Goto(w, "event")
    /\ rows' = [rows EXCEPT ![job[w].agent] = [@ EXCEPT !.deleted = TRUE, !.status = "offline"]]
    /\ UNCHANGED <<job, todo, dead, server, link, client, budget>>

\* broadcast_fleet_event: the row's name is read again, the status is the argument.
ReadEvent(x) ==
    /\ pc[x] = "event" /\ Goto(x, "copy")
    /\ job' = [job EXCEPT ![x].name = rows[job[x].agent].name]
    /\ UNCHANGED <<db, todo, dead, server, link, client, budget>>

\* broadcast_to_user, after the tasks have been counted: the set of sockets is copied.
CopySockets(x) ==
    /\ pc[x] = "copy" /\ Goto(x, "send")
    /\ todo' = [todo EXCEPT ![x] = consoles]
    /\ UNCHANGED <<db, job, dead, server, link, client, budget>>

\* fleetStore.applyEvent: a deleted agent is dropped, one the store does not hold is
\* ignored.
Apply(entries, j) ==
    IF entries[j.agent] = Absent \/ j.does = "delete"
      THEN [entries EXCEPT ![j.agent] = Absent]
      ELSE [entries EXCEPT ![j.agent] = [status |-> j.status, name |-> j.name]]

\* Mutant: the first send that fails ends the broadcast.
SendEventOrStop(x, s) ==
    /\ pc[x] = "send" /\ s \in todo[x]
    /\ IF link[s] = "open"
         THEN /\ view' = [view EXCEPT ![s[1]] = Apply(@, job[x])]
              /\ todo' = [todo EXCEPT ![x] = @ \ {s}] /\ UNCHANGED dead
         ELSE /\ todo' = [todo EXCEPT ![x] = {}] /\ dead' = [dead EXCEPT ![x] = {s}]
              /\ UNCHANGED view
    /\ UNCHANGED <<db, pc, job, server, link, opened, win, budget>>

\* The sends, one after the other.  A send to a socket whose peer is gone raises, or
\* nobody notices yet.
SendEvent(x, s) ==
    /\ pc[x] = "send" /\ s \in todo[x]
    /\ todo' = [todo EXCEPT ![x] = @ \ {s}]
    /\ IF link[s] = "open"
         THEN view' = [view EXCEPT ![s[1]] = Apply(@, job[x])] /\ UNCHANGED dead
         ELSE dead' \in {dead, [dead EXCEPT ![x] = @ \cup {s}]} /\ UNCHANGED view
    /\ UNCHANGED <<db, pc, job, server, link, opened, win, budget>>

\* disconnect_console: the socket is discarded from the owner's set.
Discard(gone) == consoles' = consoles \ gone

\* What comes after a broadcast.
GoOn(x) == IF job[x].does = "report" THEN Finish(x) ELSE Goto(x, "answer") /\ UNCHANGED job

\* The sockets that failed are dropped.
EndBroadcast(x) ==
    /\ pc[x] = "send" /\ todo[x] = {} /\ GoOn(x)
    /\ Discard(dead[x]) /\ dead' = [dead EXCEPT ![x] = {}]
    /\ UNCHANGED <<db, todo, handler, read, link, client, budget>>

\* fleetStore.rename and fleetStore.remove.  (A role is not in the part of the store
\* that is modelled.)
Adopt(entries, j) ==
    CASE j.does = "delete" -> [entries EXCEPT ![j.agent] = Absent]
      [] j.does = "name" /\ entries[j.agent] # Absent ->
            [entries EXCEPT ![j.agent] = [@ EXCEPT !.name = j.name]]
      [] OTHER -> entries

\* The answer of a request reaches its page.
Answer(w) ==
    LET j == job[w]
    IN  /\ pc[w] = "answer" /\ Finish(w)
        /\ view' = [view EXCEPT ![w] = Adopt(@, j)]
        /\ UNCHANGED <<db, todo, dead, server, link, opened, win, budget>>

\* A statement of broadcast_fleet_event raises, which it swallows: no console is told,
\* and the caller goes on.
LoseEvent(x) ==
    /\ pc[x] \in {"event", "copy"} /\ Fail /\ GoOn(x)
    /\ UNCHANGED <<db, todo, dead, server, link, client>>

\* A statement of the request raises, the handler's append_event or its frame before the
\* broadcast, or the answer is lost: it ends there, whatever it has written.  A page that
\* gets an error changes nothing.  (A cleanup catches what raises there and then
\* broadcasts; for it this step is LoseEvent's.)
Raise(x) ==
    /\ pc[x] \in {"lookup", "write", "event", "answer"} /\ Fail /\ Finish(x)
    /\ UNCHANGED <<db, todo, dead, server, link, client>>

-----------------------------------------------------------------------------
(* handle_console_ws, per socket.                                            *)

\* websocket.accept and connect_console.
Accept(s) ==
    /\ handler[s] = "none" /\ link[s] = "open"
    /\ handler' = [handler EXCEPT ![s] = "select"] /\ consoles' = consoles \cup {s}
    /\ win' = [win EXCEPT ![s[1]] = "live"]
    /\ UNCHANGED <<db, writers, read, link, opened, view, budget>>

\* The snapshot's SELECT.
ReadSnapshot(s) ==
    /\ handler[s] = "select" /\ handler' = [handler EXCEPT ![s] = "send"]
    /\ read' = [read EXCEPT ![s] = SelectLive]
    /\ UNCHANGED <<db, writers, consoles, link, client, budget>>

\* The end of the handler, in one piece with what raised: the finally clause takes its
\* socket out of the table; the server closes what is left of it.
EndHandlerOnly(s) ==     \* mutant: no finally clause
    /\ handler' = [handler EXCEPT ![s] = "over"] /\ read' = [read EXCEPT ![s] = NoRows]
    /\ UNCHANGED <<db, writers, consoles, link, client>>
EndHandler(s) ==
    /\ handler' = [handler EXCEPT ![s] = "over"] /\ read' = [read EXCEPT ![s] = NoRows]
    /\ Discard({s})
    /\ UNCHANGED <<db, writers, link, client>>

\* The SELECT raises (the bound leaves each window the last socket it may open).
SnapshotFails(s) ==
    /\ handler[s] = "select" /\ opened[s[1]] < MaxOpens[s[1]]
    /\ EndHandler(s) /\ UNCHANGED budget

SendSnapshot(s) ==
    /\ handler[s] = "send" /\ link[s] = "open"
    /\ handler' = [handler EXCEPT ![s] = "receive"]
    /\ view' = [view EXCEPT ![s[1]] = read[s]] /\ read' = [read EXCEPT ![s] = NoRows]
    /\ UNCHANGED <<db, writers, consoles, link, opened, win, budget>>

\* The peer is gone: the send, or the receive loop, raises.
PeerGone(s) ==
    /\ handler[s] \in {"send", "receive"} /\ link[s] = "lost"
    /\ EndHandler(s) /\ UNCHANGED budget

-----------------------------------------------------------------------------
(* A console window.                                                         *)

\* _open: at the start and, after an unintended close, when the back-off is over.
Open(w) ==
    /\ win[w] = "closed" /\ opened[w] < MaxOpens[w]
    /\ opened' = [opened EXCEPT ![w] = @ + 1] /\ win' = [win EXCEPT ![w] = "opening"]
    /\ link' = [link EXCEPT ![<<w, opened[w] + 1>>] = "open"]
    /\ UNCHANGED <<db, writers, server, view, budget>>

MarkEntries(entries) ==     \* mutant: also the entries there are not
    [a \in Agents |-> [entries[a] EXCEPT !.status = "offline"]]
MarkOffline(entries) ==
    [a \in Agents |-> IF entries[a] = Absent THEN Absent ELSE [entries[a] EXCEPT !.status = "offline"]]

\* onclose: every agent is shown offline.
Closed(w) ==
    /\ win' = [win EXCEPT ![w] = "closed"]
    /\ link' = [link EXCEPT ![Socket(w)] = "lost"]
    /\ view' = [view EXCEPT ![w] = MarkOffline(@)]

\* The network drops the socket (the same bound).
LoseSocket(w) ==
    /\ win[w] = "live" /\ opened[w] < MaxOpens[w] /\ Closed(w)
    /\ UNCHANGED <<db, writers, server, opened, budget>>

\* The server's handler has ended.
ServerClosed(w) ==
    /\ win[w] = "live" /\ handler[Socket(w)] = "over" /\ Closed(w)
    /\ UNCHANGED <<db, writers, server, opened, budget>>

-----------------------------------------------------------------------------
RequestStep(w) == Lookup(w) \/ WriteUpdate(w) \/ WriteDelete(w) \/ Answer(w)
WriterStep(x) ==
    \/ ReadEvent(x) \/ CopySockets(x) \/ EndBroadcast(x) \/ \E s \in Sockets : SendEvent(x, s)
    \/ x \in Windows /\ RequestStep(x)
HandlerStep(s) == Accept(s) \/ ReadSnapshot(s) \/ SendSnapshot(s) \/ PeerGone(s)
WindowStep(w) == Open(w) \/ ServerClosed(w)

Next ==
    \/ \E x \in Reporters, a \in Agents, status \in Statuses : Report(x, a, status)
    \/ \E w \in Windows, a \in Agents, does \in Requests : Request(w, a, does)
    \/ \E x \in Writers : WriterStep(x) \/ LoseEvent(x) \/ Raise(x)
    \/ \E s \in Sockets : HandlerStep(s) \/ SnapshotFails(s)
    \/ \E w \in Windows : WindowStep(w) \/ LoseSocket(w)

Spec == Init /\ [][Next]_vars

\* Coroutines that can continue do, a socket whose peer is gone is noticed (the
\* server pings it) and timers fire: together, for no step can be taken for ever.
\* Nobody has to change anything, and nothing has to fail.
FairSpec ==
    /\ Spec
    /\ WF_vars(\/ \E x \in Writers : WriterStep(x)
               \/ \E s \in Sockets : HandlerStep(s)
               \/ \E w \in Windows : WindowStep(w))

-----------------------------------------------------------------------------
(* Properties that hold.                                                     *)

\* Exactly the sockets a handler serves are in the connection table: none is left there
\* by a handler that ended, and none whose peer is still there is taken out with
\* another's, so that it would be live and never told anything.
ConsolesServed ==
    /\ \A s \in consoles : handler[s] \in {"select", "send", "receive"}
    /\ \A s \in Sockets :
          handler[s] \in {"select", "send", "receive"} /\ link[s] = "open" => s \in consoles

\* No interleaving of updates loses a role after the first ("secondary roles ... survive
\* the update", routers/agents.py).
SecondarySurvives == \A a \in Agents : rows[a].rest = "kept"

\* A change of an agent that reaches its broadcast reaches every window that is served
\* and shows the agent, also when another window's socket is dead ("reflected
\* immediately", broadcast_fleet_event): provided nothing else is still to change the
\* agent's status or to tell of it, and nothing fails any more.
Served(w) == win[w] = "live" /\ handler[Socket(w)] = "receive"
Shows(w, a) ==
    IF rows[a].deleted THEN view[w][a] = Absent
                       ELSE view[w][a] # Absent /\ view[w][a].status = rows[a].status
MayTell(x, a) == pc[x] \notin {"idle", "answer"} /\ job[x].agent = a /\ job[x].does \in {"report", "delete"}
AnnouncesLast(x, a) ==
    /\ pc[x] = "event" /\ job[x].agent = a /\ \A y \in Writers \ {x} : ~MayTell(y, a)
    /\ job[x].status = rows[a].status /\ (job[x].does = "delete" <=> rows[a].deleted)
LiveUpdate ==
    \A w \in Windows, a \in Agents :
        /\ changes = MaxChanges /\ faults = 0
        /\ Served(w) /\ view[w][a] # Absent /\ \E x \in Writers : AnnouncesLast(x, a)
      ~> Shows(w, a) \/ win[w] # "live"

\* Whatever a window missed, because its event was lost or overwritten by a snapshot, or
\* was told out of order, a reconnect repairs it: with nothing else going on it shows
\* exactly the live rows.
Quiet == \A x \in Writers : pc[x] = "idle"
ShowsRow(w, a) ==
    view[w][a] = IF rows[a].deleted THEN Absent ELSE [status |-> rows[a].status, name |-> rows[a].name]
ReconnectRepairs ==
    \A w \in Windows :
        changes = MaxChanges /\ Quiet /\ win[w] = "opening"
      ~> (\A a \in Agents : ShowsRow(w, a)) \/ win[w] = "closed"
=============================================================================
