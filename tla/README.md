# Verification of Gruper Distributed

TLA+ models of the orchestrator, its database backend, the agent runtime, the start
of the desktop's sidecars, and the console's fleet view and Round Table of Gruper
Distributed, TLC configurations that check them on small instances, and TLAPS proofs
of their main properties for every value of the constants. Paths below are relative to the repository root.

## 1. The system

| Component | Source | State | Operations | Hard behaviour |
|---|---|---|---|---|
| Task dispatch | `orchestrator/dispatcher.py` | `tasks.status`, `retry_count`, `dispatched_at` | `try_dispatch`, `dispatch_pending_for_agent`, `requeue_or_deadletter` | each is several SQL statements with awaits between; a SELECT whose rows are updated later by id |
| Agent socket handler | `orchestrator/ws/agent_ws.py` | one coroutine per socket, its `agent_id` | register, heartbeat, status, ack, progress, result, cleanup | two handlers of one agent overlap; the cleanup acts by agent id |
| Connection table | `orchestrator/connection_manager.py` | `_agent_connections`, `_console_connections` | connect, disconnect, heartbeat, stale list, send, close | sends to dead sockets, heartbeats not tied to a socket |
| Task API | `orchestrator/routers/tasks.py` | – | submit (idempotent by `correlation_id`), list, get, delete, bulk delete | check and write are different statements |
| Agent API | `orchestrator/routers/agents.py` | `agents.status`, `deleted_at` | register, list, update, delete | removal overlaps submits, registrations and cleanups |
| Watchdogs, lifecycle | `orchestrator/main.py` | two background tasks | timeout sweep, heartbeat eviction, start-up sweep | acts on a list taken before awaits; no except clause |
| Console relay | `orchestrator/ws/console_ws.py` | – | snapshot on connect, broadcasts | the snapshot's SELECT against events sent meanwhile; dead sockets in a broadcast |
| Database | `orchestrator/db/`, `database.py` | connection or pool | statements, audit events | PostgreSQL pool, or one SQLite connection behind a lock, whose statements are three awaits and whose transaction nobody rolls back |
| Migrations | `orchestrator/db/migrate.py`, `migrations/` | table `schema_migrations` | run the files in order, once | ended between two statements, or between a file and its record |
| Sidecar entry points | `orchestrator/packaging/entry.py`, `agent-runtime/main.py` | the captured ancestors | start, watch, exit | the watch ends the process wherever its main thread is; pids are reused |
| Tokens | `orchestrator/security.py`, `routers/auth.py` | users | issue, verify | find-or-create of a user |
| Agent runtime | `agent-runtime/ws_client.py` | `_ws`, `_in_flight`, heartbeat task | connect, register, drain, run task, send, stop | reconnects with back-off; runners outlive the connection |
| Breaker, offline queue | `agent-runtime/circuit_breaker.py`, `offline_queue.py` | `_failures`, `_is_open`; table `queued_tasks` | failure, success; enqueue, drain, complete | an open breaker makes no call; a drained task may fail again |
| Manager Console | `console/src/` | stores for tasks, fleet, Round Table | snapshots, events, reconnects, turns, stop, reset | events out of order with each other and with the snapshot; asynchronous turns on state that was reset |
| Desktop shell | `console/src-tauri/src/lib.rs` | child processes, log buffer | start, stop, kill sidecars | restart of a sidecar that is being stopped |
| Gruper Core | `Gruper.html` | – | legacy browser application | shares nothing with the rest |

How they interact: the console submits over REST; the handler of the request
inserts the row and pushes the task to the agent's socket through the connection
table; the runtime answers with `task_ack`, `progress` and `result` frames on its
socket; the socket's handler updates the row and broadcasts to the owner's
consoles. The database is the only durable state. Everything in the orchestrator
runs on one asyncio event loop: between two awaits nothing else runs, at an
await anything may.

What makes each part correct: a task always ends or waits for an agent that can
still come, its answer is not lost, its retry count is bounded; the connection
table holds only connections somebody will clean up after; the status column
does not claim an agent nobody serves; a removed agent does not come back; a
deletion never takes work in flight; a statement is atomic although its backend makes
it three awaits; the schema is complete before anything is served; a console shows
what the database says once it has reconnected. `PROJECT.json` lists the hazards line by line.

## 2. Modules

| Module | What it is |
|---|---|
| `Relay` | the orchestrator's core: task path, socket handlers, connection table, removal, watchdogs, restarts, failing statements |
| `TaskLedger` | the abstract specification: the lifecycle of a row, as a submitter reads it |
| `MCRelay` | `Relay` for TLC: the assignment of tasks to agents, the symmetry of sockets |
| `RelayProofs` | theorems about `Relay` |
| `AgentRuntime` | one process of the agent runtime: connection loop, task runs, circuit breaker, offline queue, shutdown |
| `AgentRuntimeProofs` | theorems about `AgentRuntime` |
| `System` | `Relay` and `AgentRuntime` composed: the frames between them, connection by connection |
| `SystemProofs`, `SystemPushProofs` | theorems about `System`: what is recorded is real; no push is forgotten, and the composition refines its parts |
| `Handlers` | the find-or-create REST handlers, as functions from what a statement saw to what the handler does next |
| `Records` | the abstract specification: the handlers over a database whose statements are atomic |
| `SqliteTier` | the handlers over the SQLite backend: lock, execute, cursor, commit, interruptions, kills |
| `MCSqliteTier`, `SqliteTierProofs` | the mixes of calls for TLC; theorems about `SqliteTier` |
| `Fleet` | agents' rows, the requests that change them, the broadcast, the console sockets and the windows' fleet stores |
| `MCFleet`, `FleetProofs` | the windows for TLC; theorems about `Fleet` |
| `Startup` | the sidecars from launch to end: the orphan watch beside the migrations |
| `MCStartup`, `StartupProofs` | files and ancestors for TLC; theorems about `Startup` |
| `RoundTable`, `RoundTableProofs` | the console's group discussion: overlapping rounds of turns, interjections, stop, start over; theorems about it |

How they fit together. `System` instantiates `Relay` and `AgentRuntime` and adds only
the frames; apart from it, `Relay` assumes of the runtime only that it acks and
reports on tasks it was pushed, and `AgentRuntime` of the orchestrator only that it
may push any task at any time and close any connection. Both `Relay` and `Fleet` take
a SQL statement to be one atomic step that may fail (in `Fleet`, one of a request, of a
broadcast, of what a handler does before it, and a snapshot's); `SqliteTier` implements
`Records`, which is that assumption for the handlers of `Handlers`. `Startup` ends
where `Relay` and `AgentRuntime` begin. `Fleet` has the console's half of the
connection table and `Relay` the agents' half.

### Relay: state

| Variable | Code |
|---|---|
| `status`, `retry`, `dispatched_at` | columns of `tasks`; `"absent"` is no row; `dispatched_at` is NULL, within `timeout_s`, or past it |
| `agent_status`, `deleted` | `agents.status` (`"online"` stands for idle, busy, degraded, draining, which the orchestrator never tells apart) and `deleted_at IS NOT NULL` |
| `conns`, `stale` | `ConnectionManager._agent_connections`, and the agents whose `last_heartbeat` is older than the timeout |
| `peer`, `link`, `known` | the network: who opened a socket, what the server's end would see (`silent`: the peer is gone and nobody told the server), and the tasks whose push ever reached their runtime |
| `pc`, `rows` | one `handle_agent_ws` coroutine per socket and its local list of rows |
| `sub`, `del`, `dt` | `submit_task`, `delete_agent` and `delete_task` requests between their statements |
| `hb_pc`, `hb_todo`, `hb_cur`, `tw` | the two watchdogs |
| `restarts`, `faults` | counters of the bounds |

### Relay: actions

One action is one SQL statement, or the code between two awaits that touches the
connection table or a socket. A statement and the code up to the next await that
only computes belong to the same action; an audit event (`append_event`) or a
broadcast to consoles changes nothing modelled and is only the await it is: other
actions may come in between.

* Registration, `_handle_register`: `RegisterLookup`, `RegisterConnect` (replace
  and connect, no await), `RegisterStatus`, `RegisterAck` (`set_agent_id` and the
  registered frame), then `dispatch_pending_for_agent` as `DrainClaim`,
  `DrainPush` per row, `DrainDone`.
* Frames: `Heartbeat`, `StatusUpdate`, `TaskAck`, `TaskResult`. An UPDATE whose
  WHERE matches nothing is a stutter and has no action.
* End of a connection: `Hangup`, then `requeue_or_deadletter` as `CleanupSelect`
  and `CleanupRequeue` per row, `CleanupDisconnect`, `CleanupStatus`.
* `submit_task` with `try_dispatch`: `SubmitCheck`, `SubmitInsert`,
  `SubmitClaim`, `SubmitSend`, `SubmitRevert`.
* Deletions: `DeleteCheck`, `DeleteCommit`, `BulkDelete`. Removal: `RemoveLookup`,
  `RemoveMark`, `RemoveFail`, `RemoveClose`.
* Watchdogs: `TimeoutSweep`; `HbScan`, `HbMark`, `HbNext` (the list is taken once,
  each eviction awaits the database).
* Network and time: `Connect`, `PeerLost`, `LinkClosed`, `TaskOverdue`,
  `HeartbeatLate`.
* Failures: `Restart` loses every coroutine and the table and runs the start-up
  sweep; `HandlerFault`, `SubmitFault`, `RemoveFault`, `TimeoutFault` and
  `HeartbeatFault` are a SQL statement that raises, with what each caller does
  then (a watchdog's loop ends for good).

Abstractions: any two statements may interleave, which is what PostgreSQL's pool
allows and contains every order of the SQLite tier. A runtime that was pushed a
task may ack it and report on it at any later time on its current connection;
this contains every order of the runtime's code, its retries from the offline
queue included. Left out: ownership checks (one owner), a second `register` on a
registered socket (the runtime sends one per connection), `correlation_id` (in
`Handlers`), fleet broadcasts (in `Fleet`), progress frames, a send that blocks on
back-pressure.

Bounds in the guards: `MaxRestarts`, `MaxFaults`, the sets `Removable` and
`Cancellable`, and `Sockets` itself (a socket is used once). `MaxRetries` is
`_MAX_RETRIES`, 3 in the code and 2 in the runs, enough for a requeue and a dead
letter of the same task.

A small group of operators next to a model definition is marked "Mutant": they
are plausible bugs of that definition, used to show that a property notices
them, and are part of no specification. `PROJECT.json` pairs them with runs.

### TaskLedger

`ImplementsLedger` maps the ids a submit has used, the status and the retry count
of each row. The ledger says that work goes forward only from the status before
it, that a row in flight is never deleted, that a deleted id never returns and
that a requeue leaves an attempt. It lets a row return to `pending` from any
status, `complete` included, because the code does (section 3); an abstract
specification that refused it would not be implemented.

### AgentRuntime: state

| Variable | Code |
|---|---|
| `main` | the await of `AgentWSClient.start` and `_connect`: `dial`, `registering`, `draining`, `receiving`, `backoff`, then `checkpoint` (`start` is out of its loop), `gathering` (`_checkpoint_in_flight` awaits the cancelled runs), `exited` |
| `running`, `up` | `_running`; whether `_ws` is an open connection |
| `todo` | the rows of the drain's SELECT that `_drain_queue` has not run yet |
| `task`, `at` | one `_run_task` coroutine per run: its task, and the await it is at |
| `tracked`, `cancelled` | `_in_flight`, keyed by task id; the runs cancelled that have not run since |
| `queue` | the table `queued_tasks` in `agent.db`, the only durable state |
| `failures`, `open` | `CircuitBreaker._failures` and `_is_open` |
| `owed` | history: tasks pushed that the model has yet to answer |

### AgentRuntime: actions

One action is the code between two awaits. `Drain` is the run that `_drain_queue`
awaits in the connection loop (`from_queue=True`); `Runners` are the
`asyncio.create_task` runs of pushed tasks, which outlive their connection.

* Connection loop: `DialSucceeds`, `DialFails`, `BackoffEnds`, `Registered`,
  `Rejected`, `RegisterFails`, `DrainNext`, `DrainDone`, `Push`, `ConnectionLost`,
  `ReceiveEnds`. `Leave` is where the loop looks at `_running`, and nowhere else.
* `_run_task`: `Check` (the breaker, once, before the ack), `Shelve`, `Ack`,
  `CallSucceeds`, `RecordSuccess`, `MarkComplete`, `CallFails`, `Requeue`. `End` is
  the return and the done callback, which pops the entry of the task's id
  whichever run it holds.
* Shutdown: `Stop` (a signal), `Interrupt` (`asyncio.run` cancels `start` where there
  are no signal handlers), `Checkpoint`, `Unwind` (the `CancelledError` at a run's
  await), `Exit`. `Restart` starts a new process after an exit or a kill anywhere.

Abstractions: the queue is a set, since the order of its rows changes only which
is drained first; `_send` without a connection drops the frame, and the frames
are not kept; the heartbeat loop sends and changes nothing here. A model call
ends in an answer or an error, in any order among the runs. Bounds: `Runners` runs
of pushed tasks at a time, `MaxRestarts` later processes. `failures` has no bound:
it stays finite in the runs because a failure needs a run, and an open breaker
lets no new one through.

### RoundTable: state and actions

`transcript`, `running` and `stopRequested` are the store's (`roundtable.ts:69-81`). Of
a turn the model keeps whether it is live (shown as thinking or streaming) or
settled (done or failed), since no property tells more apart; a hole is an index of
the JavaScript array nobody assigned. `pc`, `todo` and `idx` are the locals of one
`runAgents` call, a round: its await, how many participants are still to speak, and
the index of its turn, which it keeps across awaits.

* The user: `Send`, `Continue`, `Stop`, `Reset`. `Send` and `Continue` begin a round when
  `running` is false, and it stays false over the round's pre-flight.
* A round: `Seat` or `NobodySeated` after the pre-flight; per turn `Ask` (the top of the
  poll loop), `NotEnded`, and one of `Ended`, `CallFails`, `Stopped`, `Cancelled`,
  `Deadline`. `Settle` patches the turn and `TakeTurns` goes on with the loop, since
  nothing but that continuation runs in between.

Bounds: `Rounds` calls at the same time, `MaxSeats` participants, and the user adds
nothing to a transcript of `MaxTurns` turns. Left out: prompts, wording, who is at
the table (any number of seats), and the streamed text.

### System

The variables of `Relay` and `AgentRuntime`, `sock` (the connection `_ws` is), the
frames sent and not read yet on each connection (`toServer`, `toAgent`), and three
history variables: the tasks the model answered or failed on, and for each task the live
connection its last push went out on (`pushedOn`; none, when a cleanup pushed it on a
socket that was lost already). Every action is an action
of one module with the frame it reads or sends, or of both at once (`Dial`). So a frame
is acted on only where it is read: `ReadRegister`, `ReadAck`, `ReadResult` at the
server, `ReadRegistered`, `ReadPush` at the runtime, whose `_register` fails when the
first frame is a push. `Send` is `_send`: on the connection there is now, or nowhere.
Runs outlive their connection, so an answer may be sent on a later one, where the
orchestrator takes it for the task's new attempt. What nobody has read when a
connection ends is lost (`Hangup`, `ReceiveEnds`).

Left out here and kept in the parts' own runs: deletion, removal, SQL errors,
restarts, signals, heartbeats and the eviction of an entry. Bound: nothing goes wrong
on the last connection.

### Handlers, Records and SqliteTier

A call is one request: `token` (`get_token`), `register` (`register_agent`), `submit`
(`submit_task`, its lookup and its answers), `clear` (`delete_tasks`). `Handlers` holds
what both specifications share: from the statement a call has executed, what it saw and
the id it has, `Result` gives the next statement or the answer, `Writes` what the
statement writes and `Refuses` whether the UNIQUE constraint turns it down.

| Variable | Code |
|---|---|
| `kind`, `pc`, `id` | the request, the statement its handler is at or its answer, the id of the row it found or made |
| `phase` | where the call is inside a statement: waiting for the lock, cursor open, cursor closed |
| `queue` | the `asyncio.Lock`: holder and waiters, in order |
| `disk` | the committed rows and audit events |
| `left`, `own` | the open transaction: what interrupted calls left in it, what the running statement wrote |

`SqliteTier` has `Enqueue`, `Execute`, `CloseCursor`, `Finish` (commit and release),
`Refused`, `Interrupted` and `Kill`. `sqlite.py` never rolls back, so an interrupted
call's writes stay in the transaction until anyone commits. `Records` says what that
means to the handlers: the effect of an interrupted statement may come at once, with
any later statement, or never (`limbo`), and everything else is atomic.
`ImplementsRecords` maps `db` to `disk` and `limbo` to `left`.

Abstractions: all calls of a kind use one key; of the audit events only those of a
creation are kept; a statement's data is what it lets the handler tell apart.

### Fleet

| Variable | Code |
|---|---|
| `rows` | `agents`: status, name, deleted, and whether the roles after the first are still there |
| `pc`, `job`, `todo`, `dead` | a handler that changes an agent (an agent's socket, or a request of a window): its await, its values, the sockets it still sends to, those that failed |
| `consoles` | `ConnectionManager._console_connections` of the owner |
| `handler`, `read` | `handle_console_ws` per socket, and the rows its SELECT gave |
| `link`, `opened`, `win` | a window's sockets and its state (`console_ws.ts`) |
| `view` | the window's `fleetStore` |

A change is `Report` (`_set_status`), or `Request`, `Lookup`, `WriteUpdate` or
`WriteDelete` (`update_agent`, `delete_agent`); then `broadcast_fleet_event` as
`ReadEvent`, `CopySockets` (after the tasks have been counted), one `SendEvent` per
socket and `EndBroadcast`, and `Answer` for a request. A PATCH broadcasts nothing. `Report`
looks at no `deleted_at`: the handlers of an agent that is removed meanwhile go on to set and
announce its status.

Two actions are failures. `LoseEvent`: a SELECT of `broadcast_fleet_event` raises, which it
swallows, so no console is told and the caller goes on. `Raise`: a statement of a request
raises, or what a handler does between its write and its broadcast (`append_event`, the
frame that answers a registration), or the answer is lost; what was written stays, nothing
is announced and the page changes nothing. `faults` is how many failures are yet to come, any
number up to `MaxFaults` at the start, so that `faults = 0` says that nothing fails any more.

A socket has `Accept`, `ReadSnapshot`, `SendSnapshot`, `SnapshotFails`, `PeerGone`; a
window `Open`, `LoseSocket`, `ServerClosed`.

A frame is handled where it is sent. What it says is fixed before, so a slow frame is a
late send: frames of different handlers still arrive in any order with each other, with
the snapshot and with the answers of requests.

### Startup

| Variable | Code |
|---|---|
| `anc` | who has each ancestor's pid: the same process, nobody, another process |
| `watch`, `watched` | the watch thread of each sidecar, the ancestors it captured |
| `at` | where the main thread is: `connect`, `lookup`, `run`, `record` are the orchestrator's lifespan before it serves |
| `dialect`, `file`, `pos` | the backend; the place of `run_migrations` |
| `applied`, `recorded` | on disk: statements that took effect, rows of `schema_migrations` |

`Launch`, `AncestorEnds`, `PidReused` and `Killed` are the environment's; `Capture` and
`Orphaned` the watch's (`os._exit`, wherever the main thread is); `Connect`, `Lookup`,
`RunStatement` (SQLite: each by itself) or `RunScript` (PostgreSQL: the file in one
transaction), `RunRaises`, `Record` and `Serve` the migrations'; `Fault` is a statement
that raises for a reason of its own. A file is `Repeatable` when all its statements
say IF NOT EXISTS; migration 005 (ALTER TABLE ... ADD COLUMN) is the one that is not.

## 3. Runs

| Run | Instance | Shows |
|---|---|---|
| `relay_tasks` | 1 agent, 1 task, 2 sockets, 1 SQL error | `TypeOK`, `RetryBounded`, `InFlightIsTimed`, `EntryServed`, `ImplementsLedger` hold while two connections of one agent, a submit and the deletions overlap (571,736 states) |
| `relay_fleet` | 2 agents, 2 sockets, 1 removable, 1 restart, 1 SQL error | `OnlineServed`, `RemovedStaysOut` (801,408 states) |
| `relay_live` | 1 agent, 1 task, 1 socket, removal, cancellation, 1 restart, fairness | `NoLostInFlight`, `InFlightEnds`, `SilentPeerEvicted` (81,420 states) |
| `removed_agent` | 1 agent, 1 task, 1 socket, removal | violates `NothingLeftOnRemovedAgent` |
| `runtime` | 1 task, 2 runs and the drain, threshold 2, 1 restart, fairness | `TypeOK`, `NothingForgotten`, `BreakerCounts`, `Redials`, `StopEnds` (59,736 states) |
| `queued_retry` | 1 task, 1 run and the drain, threshold 3, fairness and a good day | violates `QueuedTaskRetried` |
| `round_table` | 2 rounds, 2 seats, 4 turns, fairness | `TypeOK`, `TurnsSettle`, `RunningServed`, `RoundsEnd` (41,358 states) |
| `startup` | 2 files of 2 and 1 statements, a bootloader per sidecar and the Console above both, 2 launches, 1 fault, either backend, fairness | `TypeOK`, `SchemaBeforeService`, `RecordedNotRerun`, `OrphanExits`, `StartSucceeds` (101,194 states) |
| `start_recovers` | the same without faults | violates `StartRecovers` |
| `records` | 3 calls in 6 mixes, 2 interruptions, 1 kill, fairness | `TypeOK`, `SameRecord`, `Stored`, `Audited`, `NoCommitInProgress`, `Answered`, `ImplementsRecords` (153,245 states) |
| `fleet` | 1 agent, 2 windows with 2 and 1 sockets, 1 reporter, 2 changes, 1 failure, fairness | `TypeOK`, `ConsolesServed`, `SecondarySurvives`, `LiveUpdate`, `ReconnectRepairs` (216,816 states) |
| `system` | 1 agent, 1 task, 2 connections, 2 runs and the drain, threshold 1, 2 retries, fairness | `TypeOK`, `RecordedIsReal`, `PushKept`, `PushedIsAnswered` (289,930 states) |

Two sockets are the least on which a replaced connection overlaps the one that
replaces it; the handlers of one agent share only its rows and its entry, so a
third adds no new pair. One task suffices for the row-level properties: two
tasks meet only in loops over rows, where each row is treated on its own. In
`relay_fleet` there are no tasks: no property there reads one. The theorems of
section 4 hold for all instances. Symmetry is used only in runs without liveness.
Deadlock is not checked: the orchestrator really stops once every socket of the bound
has been used and no client asks for anything, the runtime once it has exited,
the Round Table when the user has reached the bound, a sidecar when it has ended and
the Console is not started again, the calls when all are answered, and the fleet when
nobody changes anything.

In `round_table`, two rounds are the least that overlap, two seats give a round a turn
between two others, and four turns let the user speak, interject and continue
after a full round.

In `runtime`, one task with two runs and the drain gives every way three coroutines
can meet on a task: pushed again while it runs, and drained beside both. Runs of
different tasks meet only in the breaker, which counts calls and not tasks, and in
the list of the drain, where each row is treated on its own; two tasks with two
runs were also clean for the safety properties (728,308 states).

In `startup`, a file of two repeatable statements and one of a statement that is not are
the two kinds of migration there are, in the order in which they come; one ancestor of
each sidecar's own and one they share tell apart a watch of the parent only and of all;
the second launch meets whatever the first left on the disk.

In `records`, three calls are the least with two that look before either creates while
a third holds the lock or clears; the mixes are the combinations of kinds that meet
on a key, and one whose kinds meet only at the lock. Two interruptions leave the
writes of two calls in the transaction at once.

In `fleet`, agents do not interact, so one suffices; two changes are the least whose
events can arrive in the wrong order; a window with two sockets reconnects beside one
that stays. `Asks` has the reconnecting window's page rename the agent and the other's change
its role or remove it: a report meets each of the three, and a rename the other two. (With
all of them from both pages it is 540,245 states, also clean, but too slow for a run.)
`LiveUpdate` promises only what the code does: once the broadcast has been reached, nothing
else is to change the agent's status or tell of it, and nothing fails any more. Other
writers may be at work meanwhile, on the agent's name or role. What was lost or told out of
order before is `ReconnectRepairs`' business. In `system`, two connections are the least on which a run outlives its own,
and two runs and the drain again give every way runs of one task meet.

Fairness (`relay_live`): coroutines that can continue do (the event loop), the
watchdogs wake up again and again (`while True`, `sleep`), time passes
(`TaskOverdue`, `HeartbeatLate`), and a handler whose socket is closed gets the
exception. No fairness for clients, for the peer's frames, for the network
closing a socket, or for failures. SQL errors are excluded there: an error ends
a watchdog for good, after which neither promise is kept by the code.

Fairness (`runtime`): the event loop runs what can continue, a dial and
a model call end one way or the other (both have timeouts), and a registration on a
closed connection raises. The orchestrator never has to answer, push or close, and no
signal has to come. `queued_retry` adds `GoodDaySpec`: connections come up, are
registered and lost again, and the model, called again and again, answers again
and again. That is more than the environment owes; the statement fails even so.

Fairness (`round_table`): REST calls return, timers fire, and the clock passes the
deadline of a turn that is polled again and again. Nothing is assumed of the tasks
behind the turns, nor of the user.

Fairness (`startup`): a process that runs goes on, its main thread and its watching
thread each. (`records`): the event loop runs what can continue and the connection's
thread answers. (`fleet`): coroutines go on, a dead socket is noticed (the server pings
it), and the reconnect timer fires; as in `system`, the behaviours of the bound are finite,
so that it suffices that one of those that can go on does. (`system`): while a coroutine of either side can
continue, one of them does; the behaviours of the bound are finite, so that suffices.
Time need not pass there: no watchdog has to help. Nobody has to start, ask, change or
break anything in any of them.

### Where the code and its documents differ

Three statements of the documents are checked and violated:

1. **`NothingLeftOnRemovedAgent`.** A submit that read the agent before it was
   removed inserts, or reverts by id (`dispatcher.py:92`), after the removal has
   failed the agent's tasks: the row is pending for ever.
   `routers/agents.py:265-267` says no task is.
2. **`QueuedTaskRetried`.** With the breaker open a run returns before the model is
   called (`ws_client.py:201`), a drained run too, and only a call that succeeds
   closes the breaker: once the runs that were past the check have failed, the
   process never calls the model again, and every reconnect drains the queue without
   trying a task. `agent-runtime/README.md:118-120` says queued tasks are retried on the
   next successful reconnect.
3. **`StartRecovers`.** A migration and the row that records it are two transactions
   (`db/migrate.py:51`). A start that is ended in between, as the orphan watch may at any
   time, runs the file again the next time; `ALTER TABLE ... ADD COLUMN` of migration 005
   then raises, on this and on every later start. `db/migrate.py:22-27` says idempotently.
   `StartSucceeds` is what holds on every other database.

Other places where the models show the code to do what a reader may not expect, without
a run of their own:

* The cleanup of an old connection drops the agent's entry by agent id
  (`ws/agent_ws.py:185`): an agent that has re-registered meanwhile loses its newer entry
  and reads offline while connected, although `orchestrator/README.md:205-207` says work
  continues normally. A task pushed in between waits for the timeout watchdog.
* `requeue_or_deadletter` updates by id the rows it selected earlier
  (`dispatcher.py:167`): an answer recorded between the two goes back to `pending`.
* `manager.connect` precedes the registered frame by two statements
  (`ws/agent_ws.py:240`), so a push may come first; the runtime then gives the connection
  up, and the task is pushed again on the next.
* `try_dispatch` finds no entry, the agent registers and drains nothing, and only then is
  the row reverted (`dispatcher.py:90-96`): it waits for the next connection.
* The runtime drains its queue, model calls included, before it sends its first
  heartbeat (`ws_client.py:116`), and may be evicted meanwhile with its socket open.
* A task shelved because the breaker is open stays `dispatched` until the timeout.
* `stop()` while `websockets.connect` is awaited closes nothing (`ws_client.py:102`); the
  runtime serves on until its connection is lost for another reason. `StopEnds` is what
  holds.
* Two requests with one `correlation_id` that both find no row: the second is answered
  500 rather than the task (`routers/tasks.py:154`).
* Fleet events of two handlers may arrive in the wrong order, a snapshot may be older
  than an event before it, and an event whose statement fails is never sent
  (`ws/agent_ws.py:70`); the view stays wrong until the next change or reconnect, which
  `ReconnectRepairs` shows to repair it. A PATCH is not broadcast at all.
* `running` of the Round Table is set only after the pre-flight (`roundtable.ts:256`): two
  rounds can run at once, the first to end clears the flag of both, and a reset then
  takes the transcript from under a live turn, which the comment on line 349 excludes.

## 4. Proofs

`RelayProofs` proves, for all sets of agents, tasks and sockets, every assignment
and every bound, from the named assumptions of `Relay` (`AssignedToAssumption`,
`RetriesAssumption`, `BoundsAssumption`, `NoneAssumption`):

| Theorem | Statement |
|---|---|
| `TypeCorrect` | `Spec => []TypeOK` |
| `RetriesBounded` | `Spec => []RetryBounded` |
| `InFlightTimed` | `Spec => []InFlightIsTimed` |
| `EntriesServed` | `Spec => []EntryServed` |
| `OnlineRowsServed` | `Spec => []OnlineServed` |
| `RemovedAgentsStayOut` | `Spec => RemovedStaysOut` |
| `RelayImplementsLedger` | `Spec => ImplementsLedger` |
| `InFlightRowsSurvive` | `Spec => NoLostInFlight` |

`TypeOK` is inductive by itself. Two strengthenings carry the rest.

* `TaskInv == Fresh /\ InFlightIsTimed /\ RetryBounded`. `Fresh` says that a task whose
  submit has not inserted it has no row and a retry count of 0: without it an INSERT
  could land on a row in flight, or the refinement could not map it to `Submit`.
  `RetryBounded` speaks of the rows a cleanup holds as well as of the table, since
  the count that is written is the one that was read.
* `FleetInv == EntryServed /\ OnlineServed`. The two are proved together: eviction
  and cleanup change the entry and the row in different steps of one handler.

Most actions do not touch a given invariant; `OffTable` and `OffFleet` prove those
cases once, from what the action leaves unchanged, and `TaskStep` and `FleetStep`
treat the others one action at a time. The refinement maps each action to the
ledger action of the same meaning (`LedgerStep`); a `CleanupRequeue` whose row was
deleted is a stutter.

`AgentRuntimeProofs` proves, for all sets of tasks and runs, every threshold and
every number of restarts, from `ThresholdAssumption`, `RunsAssumption` and
`RestartsAssumption`:

| Theorem | Statement |
|---|---|
| `RuntimeTypeCorrect` | `Spec => []TypeOK` |
| `PushedTasksKept` | `Spec => []NothingForgotten` |
| `BreakerCorrect` | `Spec => []BreakerCounts` |

They come from one inductive invariant,
`RuntimeInv == TypeOK /\ RunsAssigned /\ DrainInPlace /\ CancelledLast /\ NothingForgotten /\ BreakerCounts`.
`NothingForgotten` alone is not inductive. A run that fails or is shelved
keeps its task by writing the row, except the drain, which writes nothing because
the row is there already, and which deletes the row when it is done. `DrainInPlace`
says that the row still is there while the drain works on it, that its task is owed
no more once the model has answered, and that the drain works on nothing outside
the loop.
`CancelledLast` says that runs are cancelled only after the loop has ended, so
that `Unwind` never ends a run while the promise is in force.

| Theorem | Statement |
|---|---|
| `ShutdownAwaitsRuns` | `Spec => [](AwaitedRuns /\ CancelledLast)` |

The safety half of `StopEnds`: an entry of `_in_flight` is a run under way of that task,
although the done callback of any run of a task pops the entry of whichever run has it; so
every run that a shutdown has cancelled and awaits can still be unwound.

`RoundTableProofs` proves, for every number of rounds, seats and turns, from
`TableAssumption`:

| Theorem | Statement |
|---|---|
| `TableTypeCorrect` | `Spec => []TypeOK` |
| `TurnsAreSettled` | `Spec => []TurnsSettle` |
| `RunningIsServed` | `Spec => []RunningServed` |

`TableInv == TypeOK /\ TurnsSettle /\ RunningServed` is inductive as it stands. What carries
the proof is `OthersLive`: when a round goes on with its loop, every live turn of the
transcript it goes on with belongs to some other round. It holds where a round is
seated, which has no turn yet, and where one has settled its turn (`PatchType`, which
also says what a patch past the end of the array leaves), and `TurnsTaken` needs no more.

`StartupProofs` proves, for every number and length of files, every chain of ancestors
and every bound, from `FilesAssumption`, `ChainAssumption` and `LaunchAssumption`:

| Theorem | Statement |
|---|---|
| `StartupTypeCorrect` | `Spec => []TypeOK` |
| `SchemaIsComplete` | `Spec => []SchemaBeforeService` |
| `RecordedStayRun` | `Spec => []RecordedNotRerun` |

`SchemaInv == TypeOK /\ Resumed /\ HalfRun /\ SchemaBeforeService /\ RecordedNotRerun`.
`Resumed` says that while a start looks files up or runs them, all files before the one
it is at are recorded; `HalfRun` that the statements before its place have taken effect.
Without the first, `Serve` could be reached with a file missing, and without the
second a file could be recorded before it was run to its end.

| Theorem | Statement |
|---|---|
| `OrphanStaysSeen` | `Spec => [][\A p \in Sidecars : SeesOrphan(p) => (SeesOrphan(p)' /\ Up(p)') \/ ~Up(p)']_vars` |

The safety half of `OrphanExits`: from the step in which a captured ancestor ends, the watch
of that sidecar can end it, and nothing but the end of its process takes that away; a pid
that is given to somebody else does not. It rests on
`WatchInv`: a watch that captured something is watching, in a process that is up.

`SqliteTierProofs` proves, for every number of calls and every mix, from `NoneAssumption`,
`MixesAssumption` and `BoundsAssumption`:

| Theorem | Statement |
|---|---|
| `TierTypeCorrect` | `Spec => []TypeOK` |
| `OneRecord` | `Spec => []SameRecord` |
| `StatementsAtomic` | `Spec => NoCommitInProgress` |
| `TierImplementsRecords` | `Spec => ImplementsRecords` |
| `AnswersStored` | `Spec => []Stored` |
| `CreationsAudited` | `Spec => []Audited` |

`TierInv == TypeOK /\ LockInv /\ OwnInv /\ IdInv /\ UniqueInv`. `LockInv`: the call inside a
statement is the head of the lock's queue. `OwnInv`: what it wrote and found is what it
would write and find on what is on disk and left there; nothing has changed since.
From the two, `Finish` is the atomic statement of `Records`, and all steps before it
stutter. `IdInv` says which id a call has at which statement, and `UniqueInv` that no two rows
have one key, on disk and with what is left; `SameRecord` follows from them.

The last two rest on `HistoryInv == KindInv /\ DeletionInv /\ KeptInv /\ AuditInv` beside it.
`KeptInv`: a call that has a record has it on disk, from the commit on and not only once it
is answered. What could break it is what an interrupted statement left for somebody
else's commit, hence `DeletionInv`: a deletion left there is of a task, by a clear that has
ended. `AuditInv`: the creator of a record on disk is about to write its audit event, has
written it, or was ended. `KindInv` says which statements a call of each kind goes through.

| Theorem | Statement |
|---|---|
| `LockIsServed` | `Spec => [](LockServed /\ QueueInv)` |

The safety half of `Answered`: the lock is never held by a call that has ended. `QueueInv`
says that the calls inside `async with self._lock` or waiting for it are the lock's queue,
each once; so the head of the queue always has its next step to take, and each release
brings those behind it one place nearer.

`FleetProofs` proves, for all agents, windows and reporters, from `WritersAssumption` and
`BoundsAssumption`:

| Theorem | Statement |
|---|---|
| `FleetTypeCorrect` | `Spec => []TypeOK` |
| `SecondaryRolesSurvive` | `Spec => []SecondarySurvives` |
| `ConsolesStayServed` | `Spec => []ConsolesServed` |

`RolesInv` adds that every job under way carries the roles too, as it will write them.
A failure writes no row and drops no socket (`FailStep`), so it keeps both. `ServeInv` adds
that a broadcast takes only sockets out that are lost, and that the next socket a
window opens is one nobody has seen, so that a late `EndBroadcast` cannot take it out.

`SystemProofs` proves, for all tasks, connections, runs, thresholds and numbers of retries,
without an assumption:

| Theorem | Statement |
|---|---|
| `SystemTypeCorrect` | `Spec => []TypeOK` |
| `RecordsAreReal` | `Spec => []RecordedIsReal` |

`TypeInv == TypeOK /\ RunsAssigned`: a run under way has a task, so that what it sends is a
frame. `RecordInv == RecordedIsReal /\ Honest /\ ErredRuns` is what makes `RecordedIsReal`
inductive. `Honest` says of every frame on its way, on a live connection or a lost one,
that the model did what the frame reports: a result is recorded long after it was sent,
when the run is over and the task may have been pushed again. `ErredRuns` says it of a run
that is about to report a failure. `QuietStep` is the orchestrator's half: no other
step records a result.

`SystemPushProofs` proves of the same composition, from `NamesAssumption` and
`LimitsAssumption` (`None` and the drain are names of nothing else; the threshold and the
number of retries are positive):

| Theorem | Statement |
|---|---|
| `PushesKept` | `Spec => []PushKept` |
| `FramesExpected` | `Spec => []Expected` |
| `OrchestratorRefined` | `Spec => Server!Spec` |
| `RuntimeIsRefined` | `Spec => Runtime!Spec` |

`PushKept` is the safety half of `PushedIsAnswered`, and the argument that crosses the most
of the system. While a task is in flight and its last push went out on a live connection,
the push is unread, or its row is in the queue, or it has a run, or an ack and an answer are
behind one another on the wire; once the connection is lost, its handler will look the task
up or has; or somebody is about to push it again. A row in flight of which none of these is
true would wait for the timeout watchdog. The property does not speak of a push that a
cleanup sent on a lost connection (`pushedOn` is none): only the watchdog finds that one.

It is not inductive alone. `WireInv == LinkInv /\ EntryInv /\ DrainInv /\ UnreadInv` is what
it needs of the wire:

* `LinkInv`: only the connection the runtime has at present is live. So what a run sends
  arrives where the push came from, or that connection is lost and its cleanup to come.
* `EntryInv`: pushes go only to handlers that have registered, so that the handler of a
  connection that is lost with a push on it has a cleanup before it.
* `DrainInv` and `UnreadInv`: a row is deleted only while the loop drains, and until the loop
  receives, a push on the present connection is unread. So the drain never deletes the row
  that a push counts on.

`KeptStep` then has a lemma for each kind of step: `KeptByHandler` (the handlers of the
connections), `KeptByOthers` (dispatcher, watchdog, submitters), `KeptByRun` and
`KeptByLoop` (the runtime).

`FramesExpected` is what makes the refinements mean something. `Relay` takes only acks and
results of tasks that its agent was pushed: its guards name `known` tasks, and in a composition
that guard could silently keep a frame from being read. `KnownInv` says of every frame on the
wire, every run and every row of the queue that the orchestrator did push the task, over
reconnects, the queue and the runs that outlive their connection. So the guard never blocks,
and `OrchestratorRefined` does not hold by the shape of the model. By the two refinements all
that `RelayProofs` and `AgentRuntimeProofs` prove holds of the composition; `PartsAssumed`
shows that the assumptions of the two modules follow from those of `System`. `tlapm` cannot
cite a theorem through an INSTANCE, so the consequences are not stated again.

Only model-checked. The liveness properties, which the prover does not reach: `InFlightEnds`,
`SilentPeerEvicted`, `Redials`, `StopEnds`, `RoundsEnd`, `OrphanExits`, `StartSucceeds`,
`Answered`, `LiveUpdate`, `ReconnectRepairs` and `PushedIsAnswered`. Every safety property
of a passing run is proved, and with it the safety half of six of those eleven:
`InFlightTimed` and `EntriesServed` for the two watchdogs, `ShutdownAwaitsRuns`,
`OrphanStaysSeen`, `LockIsServed` and `PushesKept`. The violated statements are settled by
their counterexamples.

## 5. Not modelled, and the plan

What could be added, in order of importance:

1. Heartbeats and the eviction of an entry in `System`: a drain longer than the heartbeat
   timeout, a cancelled run whose task is in neither the queue nor a run. Each added to
   the two components at once is beyond what TLC finishes here; they are in `Relay`
   (`HbScan`, `HbMark`) and in `AgentRuntime` (`Unwind`) apart.
2. The console's task store and its REST lists: a list merged by id against events, as
   the fleet store is against snapshots; with it, that a dead-lettered task is never
   broadcast.
3. A send that waits under back-pressure, whose except clause disconnects by agent id
   (`connection_manager.py:64`).
4. The clean shutdown of the orchestrator: a watchdog that has died raises again when it is
   awaited, and `close_db` is skipped (`main.py:142`).
5. The desktop shell's start, stop and restart of its sidecars (`lib.rs`).

Not planned: the PostgreSQL backend (it hands its statements to `asyncpg`; `Relay` and
`Records` assume what that promises), tokens and configuration (no protocol state; every
model has one owner whose token is valid), the Ollama client (HTTP; a call is one step
that succeeds or fails), logging, packaging scripts, the presentation of the console's pages,
and `Gruper.html`, which shares nothing with the rest.
