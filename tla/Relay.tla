------------------------------- MODULE Relay --------------------------------
(***************************************************************************)
(* The orchestrator's core: the path of a task from POST /v1/tasks to a    *)
(* terminal status (src/orchestrator/routers/tasks.py, dispatcher.py), the *)
(* agent WebSocket handler (ws/agent_ws.py), the in-memory connection      *)
(* table (connection_manager.py), agent removal (routers/agents.py) and    *)
(* the two watchdogs (main.py).                                            *)
(*                                                                         *)
(* The process is one asyncio event loop.  A coroutine is a program        *)
(* counter; one action is one SQL statement, or one stretch of code        *)
(* between two awaits that touches the connection table or a socket.       *)
(* Statements are atomic and any two coroutines interleave between them:   *)
(* that is PostgreSQL's pool, and contains every order of SQLite's queue.  *)
(***************************************************************************)
EXTENDS Naturals

CONSTANTS
    Agents,      \* agent ids (rows of the agents table)
    Tasks,       \* task ids a submit may draw (new_id)
    Sockets,     \* agent WebSocket connections the server may accept
    AssignedTo,  \* the agent each task is submitted to (assigned_agent_id)
    MaxRetries,  \* dispatcher._MAX_RETRIES
    Removable,   \* bound: the agents a client may ask to remove
    Cancellable, \* bound: the tasks a client may ask to delete by id
    MaxRestarts, \* bound: process restarts
    MaxFaults,   \* bound: SQL statements that raise
    None

ASSUME AssignedToAssumption == AssignedTo \in [Tasks -> Agents]
ASSUME RetriesAssumption == MaxRetries \in Nat \ {0}
ASSUME BoundsAssumption ==
    /\ MaxRestarts \in Nat /\ MaxFaults \in Nat
    /\ Removable \subseteq Agents /\ Cancellable \subseteq Tasks
ASSUME NoneAssumption == None \notin Sockets /\ None \notin Agents

VARIABLES
    \* the tasks table
    status,         \* tasks.status, or "absent" when there is no row
    retry,          \* tasks.retry_count
    dispatched_at,  \* tasks.dispatched_at: NULL, within timeout_s, or past it
    \* the agents table
    agent_status,   \* agents.status: "offline", or "online" for the other four
    deleted,        \* agents.deleted_at IS NOT NULL
    \* ConnectionManager
    conns,          \* _agent_connections: the socket of the agent's entry
    stale,          \* the agents whose entry's last_heartbeat has timed out
    \* the agents' sockets
    peer,           \* the agent whose runtime opened the socket
    link,           \* what the server would see on it
    known,          \* the tasks whose push ever reached their agent's runtime
    \* coroutines
    pc,             \* handle_agent_ws, one per socket
    rows,           \* its local rows: requeue_or_deadletter / dispatch_pending
    sub,            \* submit_task, one per task
    del,            \* delete_agent, one per agent
    dt,             \* the delete_task requests between check and DELETE
    hb_pc, hb_todo, hb_cur,  \* _heartbeat_watchdog
    tw,             \* _timeout_watchdog
    restarts, faults

taskDB  == <<status, retry, dispatched_at>>
agentDB == <<agent_status, deleted>>
table   == <<conns, stale>>
net     == <<peer, link, known>>
handler == <<pc, rows>>
request == <<sub, del, dt>>
beats   == <<hb_pc, hb_todo, hb_cur>>
bounds  == <<restarts, faults>>
vars    == <<taskDB, agentDB, table, net, handler, request, beats, tw, bounds>>

InFlight  == {"dispatched", "running"}
Terminal  == {"complete", "failed", "timed_out", "dead_letter"}
Statuses  == {"absent", "pending"} \cup InFlight \cup Terminal
Deletable == {"pending"} \cup Terminal          \* _DELETABLE_STATUSES
Scopes    == {{"failed", "timed_out", "dead_letter"}, Deletable}  \* _BULK_SCOPES

HandlerPCs == {"free", "accepted", "reg_connect", "reg_status", "reg_ack",
               "reg_drain", "reg_push", "serving",
               "cl_select", "cl_requeue", "cl_status", "done", "crashed"}

Of(a)      == {t \in Tasks : AssignedTo[t] = a}
Row        == [task : Tasks, retry : Nat]
RowsOf(T)  == {[task |-> t, retry |-> retry[t]] : t \in T}

TypeOK ==
    /\ status \in [Tasks -> Statuses]
    /\ retry \in [Tasks -> Nat]
    /\ dispatched_at \in [Tasks -> {"null", "recent", "overdue"}]
    /\ agent_status \in [Agents -> {"offline", "online"}]
    /\ deleted \in [Agents -> BOOLEAN]
    /\ conns \in [Agents -> Sockets \cup {None}]
    /\ stale \in SUBSET Agents
    /\ peer \in [Sockets -> Agents \cup {None}]
    /\ link \in [Sockets -> {"none", "up", "silent", "closed"}]
    /\ known \in SUBSET Tasks
    /\ pc \in [Sockets -> HandlerPCs]
    /\ rows \in [Sockets -> SUBSET Row]
    /\ sub \in [Tasks -> {"idle", "checked", "inserted", "claimed", "revert", "done"}]
    /\ del \in [Agents -> {"idle", "found", "marked", "failed"}]
    /\ dt \in SUBSET Tasks
    /\ hb_pc \in {"sleep", "mark", "next", "dead"}
    /\ hb_todo \in SUBSET Agents
    /\ hb_cur \in Agents \cup {None}
    /\ tw \in {"on", "dead"}
    /\ restarts \in 0..MaxRestarts
    /\ faults \in 0..MaxFaults

\* An empty database with the agents registered, and a process just started.
Init ==
    /\ status = [t \in Tasks |-> "absent"]
    /\ retry = [t \in Tasks |-> 0]
    /\ dispatched_at = [t \in Tasks |-> "null"]
    /\ agent_status = [a \in Agents |-> "offline"]
    /\ deleted = [a \in Agents |-> FALSE]
    /\ conns = [a \in Agents |-> None]
    /\ stale = {}
    /\ peer = [s \in Sockets |-> None]
    /\ link = [s \in Sockets |-> "none"]
    /\ known = {}
    /\ pc = [s \in Sockets |-> "free"]
    /\ rows = [s \in Sockets |-> {}]
    /\ sub = [t \in Tasks |-> "idle"]
    /\ del = [a \in Agents |-> "idle"]
    /\ dt = {}
    /\ hb_pc = "sleep" /\ hb_todo = {} /\ hb_cur = None
    /\ tw = "on"
    /\ restarts = 0 /\ faults = 0

-----------------------------------------------------------------------------
(* SQL statements on tasks and the connection table's operations.          *)

\* UPDATE tasks SET status = 'dispatched', dispatched_at = now WHERE status = 'pending'.
Claim(T) ==
    /\ status' = [t \in Tasks |-> IF t \in T THEN "dispatched" ELSE status[t]]
    /\ dispatched_at' = [t \in Tasks |-> IF t \in T THEN "recent" ELSE dispatched_at[t]]
    /\ UNCHANGED retry

\* UPDATE tasks SET status = new [, completed_at = now] for the rows T.
Settle(T, new) ==
    /\ status' = [t \in Tasks |-> IF t \in T THEN new ELSE status[t]]
    /\ UNCHANGED <<retry, dispatched_at>>

\* DELETE FROM tasks for the rows T.
DeleteRows(T) ==
    /\ status' = [t \in Tasks |-> IF t \in T THEN "absent" ELSE status[t]]
    /\ retry' = [t \in Tasks |-> IF t \in T THEN 0 ELSE retry[t]]
    /\ dispatched_at' = [t \in Tasks |-> IF t \in T THEN "null" ELSE dispatched_at[t]]

\* Mutant: the requeue forgets dispatched_at = NULL.
BackToPendingKeepingTime(t, n) ==
    IF status[t] = "absent" THEN UNCHANGED taskDB
    ELSE /\ status' = [status EXCEPT ![t] = "pending"]
         /\ retry' = [retry EXCEPT ![t] = n]
         /\ UNCHANGED dispatched_at

\* UPDATE tasks SET status = 'pending', retry_count = n, dispatched_at = NULL
\* WHERE id = t: nothing when the row has been deleted, else whatever its status.
BackToPending(t, n) ==
    IF status[t] = "absent" THEN UNCHANGED taskDB
    ELSE /\ status' = [status EXCEPT ![t] = "pending"]
         /\ retry' = [retry EXCEPT ![t] = n]
         /\ dispatched_at' = [dispatched_at EXCEPT ![t] = "null"]

\* ConnectionManager.connect and disconnect.
Enter(a, s) == conns' = [conns EXCEPT ![a] = s] /\ stale' = stale \ {a}
Remove(a)   == Enter(a, None)

\* ConnectionManager.send_json: no entry, nothing sent; a socket that is known
\* to be closed raises, and the agent's entry is dropped; a push reaches the
\* runtime unless the peer is gone.
Push(a, t) ==
    IF conns[a] = None THEN UNCHANGED <<conns, stale, known>>
    ELSE IF link[conns[a]] = "closed" THEN Remove(a) /\ UNCHANGED known
    ELSE /\ known' = IF link[conns[a]] = "up" THEN known \cup {t} ELSE known
         /\ UNCHANGED <<conns, stale>>

SetStatus(a, st) == agent_status' = [agent_status EXCEPT ![a] = st]

Goto(s, label) == pc' = [pc EXCEPT ![s] = label]

-----------------------------------------------------------------------------
(* The network and the agents' runtimes (outside the process).             *)

\* The runtime of agent a opens a connection.  It closes its previous one
\* first (async with websockets.connect), whether or not the server knows.
Connect(s, a) ==
    /\ pc[s] = "free"
    /\ \A x \in Sockets : peer[x] = a => link[x] # "up"
    /\ peer' = [peer EXCEPT ![s] = a]
    /\ link' = [link EXCEPT ![s] = "up"]
    /\ Goto(s, "accepted")
    /\ UNCHANGED <<taskDB, agentDB, table, known, rows, request, beats, tw, bounds>>

\* The peer vanishes and the server has not been told: frames sent are lost.
PeerLost(s) ==
    /\ link[s] = "up"
    /\ link' = [link EXCEPT ![s] = "silent"]
    /\ UNCHANGED <<taskDB, agentDB, table, peer, known, handler, request, beats, tw, bounds>>

\* The server's end learns that the connection is closed.
LinkClosed(s) ==
    /\ link[s] \in {"up", "silent"}
    /\ link' = [link EXCEPT ![s] = "closed"]
    /\ UNCHANGED <<taskDB, agentDB, table, peer, known, handler, request, beats, tw, bounds>>

\* Time: timeout_s has passed since a task's dispatched_at, or
\* heartbeat_timeout_s since an entry's last_heartbeat.
TaskOverdue(t) ==
    /\ status[t] \in InFlight /\ dispatched_at[t] = "recent"
    /\ dispatched_at' = [dispatched_at EXCEPT ![t] = "overdue"]
    /\ UNCHANGED <<status, retry, agentDB, table, net, handler, request, beats, tw, bounds>>

HeartbeatLate(a) ==
    /\ conns[a] # None /\ a \notin stale
    /\ stale' = stale \cup {a}
    /\ UNCHANGED <<taskDB, agentDB, conns, net, handler, request, beats, tw, bounds>>

-----------------------------------------------------------------------------
(* handle_agent_ws: registration.                                          *)

\* Mutant: the lookup does not look at deleted_at.
RegisterLookupAnyone(s) ==
    /\ pc[s] = "accepted"
    /\ Goto(s, "reg_connect")
    /\ UNCHANGED <<taskDB, agentDB, table, net, rows, request, beats, tw, bounds>>

\* The register frame of the connection: the lookup.  A deleted agent gets an
\* error frame and nothing changes.
RegisterLookup(s) ==
    /\ pc[s] = "accepted"
    /\ ~deleted[peer[s]]
    /\ Goto(s, "reg_connect")
    /\ UNCHANGED <<taskDB, agentDB, table, net, rows, request, beats, tw, bounds>>

\* manager.disconnect of an older entry and manager.connect, with no await.
RegisterConnect(s) ==
    /\ pc[s] = "reg_connect"
    /\ Enter(peer[s], s)
    /\ Goto(s, "reg_status")
    /\ UNCHANGED <<taskDB, agentDB, net, rows, request, beats, tw, bounds>>

\* _set_status(idle), then the audit event is awaited.
RegisterStatus(s) ==
    /\ pc[s] = "reg_status"
    /\ SetStatus(peer[s], "online")
    /\ Goto(s, "reg_ack")
    /\ UNCHANGED <<taskDB, deleted, table, net, rows, request, beats, tw, bounds>>

\* Mutant: set_agent_id after the send, the phantom its comment warns of.
RegisterAckLate(s) ==
    /\ pc[s] = "reg_ack"
    /\ Goto(s, IF link[s] = "closed" THEN "done" ELSE "reg_drain")
    /\ UNCHANGED <<taskDB, agentDB, table, net, rows, request, beats, tw, bounds>>

\* set_agent_id, then the registered frame: on a closed socket it raises, and
\* the handler's finally starts the cleanup.
RegisterAck(s) ==
    /\ pc[s] = "reg_ack"
    /\ Goto(s, IF link[s] = "closed" THEN "cl_select" ELSE "reg_drain")
    /\ UNCHANGED <<taskDB, agentDB, table, net, rows, request, beats, tw, bounds>>

\* dispatch_pending_for_agent claims every pending task of the agent ...
DrainClaim(s) ==
    LET T == {t \in Of(peer[s]) : status[t] = "pending"}
    IN  /\ pc[s] = "reg_drain"
        /\ Claim(T)
        /\ rows' = [rows EXCEPT ![s] = RowsOf(T)]
        /\ Goto(s, "reg_push")
        /\ UNCHANGED <<agentDB, table, net, request, beats, tw, bounds>>

\* ... and pushes them one by one to whatever socket the agent's entry holds.
DrainPush(s) ==
    \E r \in rows[s] :
        /\ pc[s] = "reg_push"
        /\ Push(peer[s], r.task)
        /\ rows' = [rows EXCEPT ![s] = @ \ {r}]
        /\ UNCHANGED <<taskDB, agentDB, peer, link, pc, request, beats, tw, bounds>>

DrainDone(s) ==
    /\ pc[s] = "reg_push" /\ rows[s] = {}
    /\ Goto(s, "serving")
    /\ UNCHANGED <<taskDB, agentDB, table, net, rows, request, beats, tw, bounds>>

-----------------------------------------------------------------------------
(* handle_agent_ws: frames.  The runtime sends on its current connection   *)
(* about any task it was ever pushed; frames may be read after the close.  *)

Heartbeat(s) ==
    /\ pc[s] = "serving" /\ link[s] # "silent"
    /\ stale' = stale \ {peer[s]}          \* record_heartbeat: not by socket
    /\ UNCHANGED <<taskDB, agentDB, conns, net, handler, request, beats, tw, bounds>>

\* _SELF_REPORTABLE_STATUSES are four names for online; the mutant takes any string.
AnyReport      == {"online", "lost"}
SelfReportable == {"online"}

StatusUpdate(s) ==
    /\ pc[s] = "serving"
    /\ \E st \in SelfReportable : SetStatus(peer[s], st)
    /\ UNCHANGED <<taskDB, deleted, table, net, handler, request, beats, tw, bounds>>

\* _handle_task_ack: the UPDATE ... AND status = 'dispatched'.
TaskAck(s, t) ==
    /\ pc[s] = "serving" /\ AssignedTo[t] = peer[s] /\ t \in known
    /\ status[t] = "dispatched"
    /\ Settle({t}, "running")
    /\ UNCHANGED <<agentDB, table, net, handler, request, beats, tw, bounds>>

\* The statuses a result may end; the mutant's UPDATE does not look.
AnyStatus  == Statuses \ {"absent"}
Acceptable == {"running"}

\* _handle_result: the UPDATE ... AND status = 'running'.
TaskResult(s, t, final) ==
    /\ pc[s] = "serving" /\ AssignedTo[t] = peer[s] /\ t \in known
    /\ status[t] \in Acceptable
    /\ Settle({t}, final)
    /\ UNCHANGED <<agentDB, table, net, handler, request, beats, tw, bounds>>

-----------------------------------------------------------------------------
(* handle_agent_ws: the end of a connection, _cleanup_on_disconnect.       *)

\* receive_json raises.  Before registration agent_id is None: no cleanup.
Hangup(s) ==
    /\ link[s] = "closed"
    /\ \/ pc[s] = "accepted" /\ Goto(s, "done")
       \/ pc[s] = "serving" /\ Goto(s, "cl_select")
    /\ UNCHANGED <<taskDB, agentDB, table, net, rows, request, beats, tw, bounds>>

\* Mutant: a task whose ack has not come yet is not looked up.
CleanupSelectRunning(s) ==
    /\ pc[s] = "cl_select"
    /\ rows' = [rows EXCEPT ![s] = RowsOf({t \in Of(peer[s]) : status[t] = "running"})]
    /\ Goto(s, "cl_requeue")
    /\ UNCHANGED <<taskDB, agentDB, table, net, request, beats, tw, bounds>>

\* requeue_or_deadletter: the SELECT of the agent's tasks in flight ...
CleanupSelect(s) ==
    /\ pc[s] = "cl_select"
    /\ rows' = [rows EXCEPT ![s] = RowsOf({t \in Of(peer[s]) : status[t] \in InFlight})]
    /\ Goto(s, "cl_requeue")
    /\ UNCHANGED <<taskDB, agentDB, table, net, request, beats, tw, bounds>>

\* Mutant: one retry too many.
OutOfRetriesLate(n) == n > MaxRetries

OutOfRetries(n) == n >= MaxRetries

\* ... and one UPDATE per selected row, WHERE id only.
CleanupRequeue(s) ==
    \E r \in rows[s] :
        /\ pc[s] = "cl_requeue"
        /\ rows' = [rows EXCEPT ![s] = @ \ {r}]
        /\ IF OutOfRetries(r.retry + 1)
             THEN Settle({r.task} \ {t \in Tasks : status[t] = "absent"}, "dead_letter")
             ELSE BackToPending(r.task, r.retry + 1)
        /\ UNCHANGED <<agentDB, table, net, pc, request, beats, tw, bounds>>

\* manager.disconnect(agent_id): the agent's entry, whichever socket it holds.
CleanupDisconnect(s) ==
    /\ pc[s] = "cl_requeue" /\ rows[s] = {}
    /\ Remove(peer[s])
    /\ Goto(s, "cl_status")
    /\ UNCHANGED <<taskDB, agentDB, net, rows, request, beats, tw, bounds>>

\* _set_status(offline); the handler returns and the server's end is closed.
CleanupStatus(s) ==
    /\ pc[s] = "cl_status"
    /\ SetStatus(peer[s], "offline")
    /\ Goto(s, "done")
    /\ link' = [link EXCEPT ![s] = "closed"]
    /\ UNCHANGED <<taskDB, deleted, table, peer, known, rows, request, beats, tw, bounds>>

-----------------------------------------------------------------------------
(* routers/tasks.py: submit_task with try_dispatch, and the deletions.     *)

\* The agent exists and is not deleted (404 otherwise: nothing happens).
SubmitCheck(t) ==
    /\ sub[t] = "idle" /\ ~deleted[AssignedTo[t]]
    /\ sub' = [sub EXCEPT ![t] = "checked"]
    /\ UNCHANGED <<taskDB, agentDB, table, net, handler, del, dt, beats, tw, bounds>>

SubmitInsert(t) ==
    /\ sub[t] = "checked"
    /\ status' = [status EXCEPT ![t] = "pending"]
    /\ sub' = [sub EXCEPT ![t] = "inserted"]
    /\ UNCHANGED <<retry, dispatched_at, agentDB, table, net, handler, del, dt, beats, tw, bounds>>

\* After the audit event: try_dispatch's compare-and-swap.
SubmitClaim(t) ==
    /\ sub[t] = "inserted"
    /\ IF status[t] = "pending"
         THEN Claim({t}) /\ sub' = [sub EXCEPT ![t] = "claimed"]
         ELSE sub' = [sub EXCEPT ![t] = "done"] /\ UNCHANGED taskDB
    /\ UNCHANGED <<agentDB, table, net, handler, del, dt, beats, tw, bounds>>

\* is_connected, and with no await between, the push.
SubmitSend(t) ==
    /\ sub[t] = "claimed"
    /\ sub' = [sub EXCEPT ![t] = IF conns[AssignedTo[t]] = None THEN "revert" ELSE "done"]
    /\ Push(AssignedTo[t], t)
    /\ UNCHANGED <<taskDB, agentDB, peer, link, handler, del, dt, beats, tw, bounds>>

\* UPDATE tasks SET status = 'pending', dispatched_at = NULL WHERE id.
SubmitRevert(t) ==
    /\ sub[t] = "revert"
    /\ BackToPending(t, retry[t])
    /\ sub' = [sub EXCEPT ![t] = "done"]
    /\ UNCHANGED <<agentDB, table, net, handler, del, dt, beats, tw, bounds>>

\* delete_task: the check of the status, and the DELETE that repeats it.
DeleteCheck(t) ==
    /\ t \in Cancellable \ dt /\ status[t] \in Deletable
    /\ dt' = dt \cup {t}
    /\ UNCHANGED <<taskDB, agentDB, table, net, handler, sub, del, beats, tw, bounds>>

\* The DELETE's WHERE; the mutant trusts the check.
ErasableAny(T) == T
Erasable(T)    == {t \in T : status[t] \in Deletable}

DeleteCommit(t) ==
    /\ t \in dt
    /\ dt' = dt \ {t}
    /\ DeleteRows(Erasable({t}))
    /\ UNCHANGED <<agentDB, table, net, handler, sub, del, beats, tw, bounds>>

\* delete_tasks(scope): one DELETE.
BulkDelete(scope) ==
    /\ \E t \in Tasks : status[t] \in scope
    /\ DeleteRows({t \in Tasks : status[t] \in scope})
    /\ UNCHANGED <<agentDB, table, net, handler, request, beats, tw, bounds>>

-----------------------------------------------------------------------------
(* routers/agents.py: delete_agent.                                        *)

RemoveLookup(a) ==
    /\ del[a] = "idle" /\ ~deleted[a] /\ a \in Removable
    /\ del' = [del EXCEPT ![a] = "found"]
    /\ UNCHANGED <<taskDB, agentDB, table, net, handler, sub, dt, beats, tw, bounds>>

RemoveMark(a) ==
    /\ del[a] = "found"
    /\ del' = [del EXCEPT ![a] = "marked"]
    /\ deleted' = [deleted EXCEPT ![a] = TRUE]
    /\ SetStatus(a, "offline")
    /\ UNCHANGED <<taskDB, table, net, handler, sub, dt, beats, tw, bounds>>

\* The work still queued or in flight; the mutant fails the finished tasks too.
OutstandingAny(a) == {t \in Of(a) : status[t] # "absent"}
Outstanding(a)    == {t \in Of(a) : status[t] \in InFlight \cup {"pending"}}

RemoveFail(a) ==
    /\ del[a] = "marked"
    /\ del' = [del EXCEPT ![a] = "failed"]
    /\ Settle(Outstanding(a), "failed")
    /\ UNCHANGED <<agentDB, table, net, handler, sub, dt, beats, tw, bounds>>

\* close_agent_ws: pop the entry and close its socket.
RemoveClose(a) ==
    /\ del[a] = "failed"
    /\ del' = [del EXCEPT ![a] = "idle"]
    /\ Remove(a)
    /\ link' = IF conns[a] = None THEN link ELSE [link EXCEPT ![conns[a]] = "closed"]
    /\ UNCHANGED <<taskDB, agentDB, peer, known, handler, sub, dt, beats, tw, bounds>>

-----------------------------------------------------------------------------
(* main.py: the watchdogs.                                                 *)

\* The watchdog's WHERE; in the mutant a task whose ack never comes does not time out.
OverdueRunning == {t \in Tasks : status[t] = "running" /\ dispatched_at[t] = "overdue"}
Overdue        == {t \in Tasks : status[t] \in InFlight /\ dispatched_at[t] = "overdue"}

\* Every task in flight past its timeout becomes timed_out, in one UPDATE.
TimeoutSweep ==
    /\ tw = "on" /\ Overdue # {}
    /\ Settle(Overdue, "timed_out")
    /\ UNCHANGED <<agentDB, table, net, handler, request, beats, tw, bounds>>

\* Mutant: the stale agent is marked offline and its entry stays.
HbScanKeepingEntry ==
    \E a \in stale :
        /\ hb_pc = "sleep"
        /\ hb_pc' = "mark" /\ hb_cur' = a /\ hb_todo' = stale \ {a}
        /\ UNCHANGED <<taskDB, agentDB, table, net, handler, request, tw, bounds>>

\* get_stale_agents and, with no await, the first eviction ...
HbScan ==
    \E a \in stale :
        /\ hb_pc = "sleep"
        /\ Remove(a)
        /\ hb_pc' = "mark" /\ hb_cur' = a /\ hb_todo' = stale \ {a}
        /\ UNCHANGED <<taskDB, agentDB, net, handler, request, tw, bounds>>

\* ... its row is marked offline ...
HbMark ==
    /\ hb_pc = "mark"
    /\ SetStatus(hb_cur, "offline")
    /\ hb_cur' = None
    /\ hb_pc' = IF hb_todo = {} THEN "sleep" ELSE "next"
    /\ UNCHANGED <<taskDB, deleted, table, net, handler, request, hb_todo, tw, bounds>>

\* ... and the next agent of the list taken before those awaits is evicted.
HbNext ==
    \E a \in hb_todo :
        /\ hb_pc = "next"
        /\ Remove(a)
        /\ hb_pc' = "mark" /\ hb_cur' = a /\ hb_todo' = hb_todo \ {a}
        /\ UNCHANGED <<taskDB, agentDB, net, handler, request, tw, bounds>>

-----------------------------------------------------------------------------
(* Failures of the process: a restart, and a SQL statement that raises.    *)

\* sweep_stale_agent_statuses, before the first request is served.
NoSweep       == UNCHANGED agent_status   \* mutant
SweepStatuses == agent_status' = [a \in Agents |-> "offline"]

\* Every coroutine and the connection table are lost; the rows stay.
Restart ==
    /\ restarts < MaxRestarts
    /\ restarts' = restarts + 1
    /\ conns' = [a \in Agents |-> None] /\ stale' = {}
    /\ link' = [s \in Sockets |-> IF link[s] = "none" THEN "none" ELSE "closed"]
    /\ pc' = [s \in Sockets |-> IF pc[s] = "free" THEN "free" ELSE "done"]
    /\ rows' = [s \in Sockets |-> {}]
    /\ sub' = [t \in Tasks |-> IF sub[t] = "idle" THEN "idle" ELSE "done"]
    /\ del' = [a \in Agents |-> "idle"] /\ dt' = {}
    /\ hb_pc' = "sleep" /\ hb_todo' = {} /\ hb_cur' = None /\ tw' = "on"
    /\ SweepStatuses
    /\ UNCHANGED <<taskDB, deleted, peer, known, faults>>

Fault == faults < MaxFaults /\ faults' = faults + 1

\* In the handler: before set_agent_id there is no cleanup, so what RegisterConnect
\* entered stays; afterwards the finally block cleans up; inside the cleanup a failed
\* requeue is caught and a failed _set_status is not ("crashed": nothing undone).
HandlerFault(s) ==
    /\ Fault
    /\ \/ pc[s] = "accepted" /\ Goto(s, "done") /\ link' = [link EXCEPT ![s] = "closed"]
       \/ pc[s] \in {"reg_status", "reg_ack", "cl_status"}
            /\ Goto(s, "crashed") /\ link' = [link EXCEPT ![s] = "closed"]
       \/ pc[s] \in {"reg_drain", "serving"} /\ Goto(s, "cl_select") /\ UNCHANGED link
       \/ (pc[s] = "cl_select" \/ (pc[s] = "cl_requeue" /\ rows[s] # {}))
            /\ Goto(s, "cl_requeue") /\ UNCHANGED link
    /\ rows' = [rows EXCEPT ![s] = {}]
    /\ UNCHANGED <<taskDB, agentDB, table, peer, known, request, beats, tw, restarts>>

\* In a request: the call ends where it is.
SubmitFault(t) ==
    /\ Fault
    /\ sub[t] \in {"checked", "inserted", "revert"}
    /\ sub' = [sub EXCEPT ![t] = "done"]
    /\ UNCHANGED <<taskDB, agentDB, table, net, handler, del, dt, beats, tw, restarts>>

RemoveFault(a) ==
    /\ Fault
    /\ del[a] \in {"found", "marked"}
    /\ del' = [del EXCEPT ![a] = "idle"]
    /\ UNCHANGED <<taskDB, agentDB, table, net, handler, sub, dt, beats, tw, restarts>>

\* In a watchdog: its loop has no except clause, so the task ends for good.
TimeoutFault ==
    /\ Fault /\ tw = "on" /\ tw' = "dead"
    /\ UNCHANGED <<taskDB, agentDB, table, net, handler, request, beats, restarts>>

HeartbeatFault ==
    /\ Fault /\ hb_pc = "mark"
    /\ hb_pc' = "dead" /\ hb_todo' = {} /\ hb_cur' = None
    /\ UNCHANGED <<taskDB, agentDB, table, net, handler, request, tw, restarts>>

-----------------------------------------------------------------------------
Registering(s) == RegisterLookup(s) \/ RegisterConnect(s) \/ RegisterStatus(s) \/ RegisterAck(s)
Draining(s)    == DrainClaim(s) \/ DrainPush(s) \/ DrainDone(s)
Receiving(s)   ==
    \/ Heartbeat(s) \/ StatusUpdate(s)
    \/ \E t \in Tasks : TaskAck(s, t) \/ \E final \in {"complete", "failed"} : TaskResult(s, t, final)
Closing(s)     ==
    Hangup(s) \/ CleanupSelect(s) \/ CleanupRequeue(s) \/ CleanupDisconnect(s) \/ CleanupStatus(s)
Submitting(t)  == SubmitCheck(t) \/ SubmitInsert(t) \/ SubmitClaim(t) \/ SubmitSend(t) \/ SubmitRevert(t)
Deleting       == (\E t \in Tasks : DeleteCheck(t) \/ DeleteCommit(t)) \/ \E sc \in Scopes : BulkDelete(sc)
Removing(a)    == RemoveLookup(a) \/ RemoveMark(a) \/ RemoveFail(a) \/ RemoveClose(a)
Watching       == TimeoutSweep \/ HbScan \/ HbMark \/ HbNext
Environment    ==
    \/ \E s \in Sockets : (\E a \in Agents : Connect(s, a)) \/ PeerLost(s) \/ LinkClosed(s)
    \/ (\E t \in Tasks : TaskOverdue(t)) \/ (\E a \in Agents : HeartbeatLate(a))
Failing        ==
    \/ Restart \/ TimeoutFault \/ HeartbeatFault
    \/ (\E s \in Sockets : HandlerFault(s)) \/ (\E t \in Tasks : SubmitFault(t))
    \/ (\E a \in Agents : RemoveFault(a))

Next ==
    \/ \E s \in Sockets : Registering(s) \/ Draining(s) \/ Receiving(s) \/ Closing(s)
    \/ \E t \in Tasks : Submitting(t)
    \/ \E a \in Agents : Removing(a)
    \/ Deleting \/ Watching \/ Environment \/ Failing

Spec == Init /\ [][Next]_vars

\* The event loop runs every coroutine that can continue, the watchdogs wake up
\* again and again, time passes, and a socket the server knows is closed raises.
\* No fairness for requests, peers, frames or failures: nobody has to send them.
Fairness ==
    /\ \A s \in Sockets :
          /\ WF_vars(RegisterConnect(s) \/ RegisterStatus(s) \/ RegisterAck(s))
          /\ WF_vars(Draining(s)) /\ WF_vars(Closing(s))
    /\ \A t \in Tasks :
          /\ WF_vars(SubmitInsert(t) \/ SubmitClaim(t) \/ SubmitSend(t) \/ SubmitRevert(t))
          /\ WF_vars(TaskOverdue(t))
    /\ \A a \in Agents :
          /\ WF_vars(RemoveMark(a) \/ RemoveFail(a) \/ RemoveClose(a))
          /\ WF_vars(HeartbeatLate(a))
    /\ WF_vars(TimeoutSweep) /\ WF_vars(HbScan \/ HbMark \/ HbNext)

FairSpec == Spec /\ Fairness

-----------------------------------------------------------------------------
(* Properties that hold.                                                   *)

\* A task's retry count never reaches MaxRetries, and no cleanup holds a count
\* that does: whatever cleanups overlap, a task goes back to pending only with an
\* attempt left (requeue_or_deadletter writes a count it read in an earlier
\* statement).
RetryBounded ==
    /\ \A t \in Tasks : retry[t] < MaxRetries
    /\ \A s \in Sockets : \A r \in rows[s] : r.retry < MaxRetries

\* The timeout watchdog can see every task in flight: dispatched_at is NULL
\* exactly when the task waits, over every claim, revert, requeue and restart.
InFlightIsTimed ==
    \A t \in Tasks :
        /\ status[t] \in InFlight => dispatched_at[t] # "null"
        /\ status[t] \in {"absent", "pending"} => dispatched_at[t] = "null"

\* Every entry of the connection table belongs to a handler that registered that
\* agent and has yet to run its cleanup, so no entry outlives its handler; the
\* one exception is a handler ended by a SQL error ("crashed").
EntryServed ==
    \A a \in Agents : conns[a] # None =>
        /\ peer[conns[a]] = a
        /\ pc[conns[a]] \in {"reg_status", "reg_ack", "reg_drain", "reg_push", "serving",
                             "cl_select", "cl_requeue", "crashed"}

\* A row that reads online has a handler of that agent still to mark it offline
\* (or one ended by a SQL error): no leftover of a connection or of a previous
\* process reads as ready forever, the ghost fleet sweep_stale_agent_statuses is
\* there to prevent.
OnlineServed ==
    \A a \in Agents : agent_status[a] = "online" =>
        \E s \in Sockets :
            /\ peer[s] = a
            /\ pc[s] \in {"reg_ack", "reg_drain", "reg_push", "serving",
                          "cl_select", "cl_requeue", "cl_status", "crashed"}

\* A row in flight is never deleted, whatever happened between delete_task's
\* check and its DELETE.
NoLostInFlight ==
    [][\A t \in Tasks : status[t] \in InFlight => status'[t] # "absent"]_vars

\* The orchestrator implements the ledger a submitter reads.
Ledger == INSTANCE TaskLedger WITH issued <- {t \in Tasks : sub[t] \notin {"idle", "checked"}}
ImplementsLedger == Ledger!Spec

\* No task stays in flight: a result, a cleanup or the timeout watchdog ends it,
\* also when its push went to a dead socket or the process restarted.
InFlightEnds ==
    \A t \in Tasks : status[t] \in InFlight ~> status[t] \notin InFlight

\* The entry of a peer that vanished without closing its socket is evicted, unless
\* the runtime is back on another socket: its heartbeats refresh the agent's entry
\* whichever socket the entry holds.
SilentPeerEvicted ==
    \A s \in Sockets : \A a \in Agents :
        conns[a] = s /\ link[s] = "silent"
            ~> conns[a] # s \/ \E x \in Sockets : peer[x] = a /\ link[x] = "up"

\* A removed agent that has no entry, and no handler between its lookup and
\* manager.connect, stays without either for good: "cannot re-register over the
\* WebSocket" (routers/agents.py, delete_agent), also after a restart.
KeptOut(a) ==
    /\ deleted[a] /\ conns[a] = None
    /\ \A s \in Sockets : peer[s] = a => pc[s] # "reg_connect"
RemovedStaysOut == [][\A a \in Agents : KeptOut(a) => KeptOut(a)']_vars

-----------------------------------------------------------------------------
(* A statement of the docs that the code does not keep.                    *)

\* "no task is left waiting forever on an agent that no longer exists"
\* (delete_agent): with the removal over and nothing under way for the agent, none
\* of its tasks is waiting or in flight.
NothingUnderWay(a) ==
    /\ del[a] = "idle"
    /\ \A s \in Sockets : peer[s] = a => pc[s] \in {"accepted", "done"}
    /\ \A t \in Of(a) : sub[t] \in {"idle", "done"}
NothingLeftOnRemovedAgent ==
    \A a \in Agents : deleted[a] /\ NothingUnderWay(a) =>
        \A t \in Of(a) : status[t] \notin InFlight \cup {"pending"}
=============================================================================
