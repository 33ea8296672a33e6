--------------------------- MODULE AgentRuntime ----------------------------
(***************************************************************************)
(* One process of the agent runtime: the connection loop and the task runs *)
(* (src/agent-runtime/ws_client.py), the circuit breaker                   *)
(* (circuit_breaker.py) and the durable queue (offline_queue.py).          *)
(*                                                                         *)
(* A run is one _run_task coroutine: those started by a push are tasks of  *)
(* the event loop and outlive the connection they came on; the one of the  *)
(* queue's drain is awaited by the connection loop itself.  An action is   *)
(* the code between two awaits.  The orchestrator, the network, the model  *)
(* and the signals are the environment.                                    *)
(***************************************************************************)
EXTENDS Naturals

CONSTANTS
    Tasks,       \* task ids the orchestrator may push
    Runners,     \* bound: runs of pushed tasks at the same time
    Drain,       \* the run of _drain_queue (from_queue = True)
    Threshold,   \* circuit_breaker._THRESHOLD
    MaxRestarts, \* bound: processes after the first
    None

ASSUME ThresholdAssumption == Threshold \in Nat \ {0}
ASSUME RunsAssumption == Drain \notin Runners /\ None \notin Runners /\ None \notin Tasks
ASSUME RestartsAssumption == MaxRestarts \in Nat

VARIABLES
    main,      \* where start() and _connect() are
    running,   \* _running
    up,        \* _ws is an open connection: what _send sends is sent
    todo,      \* rows of the drain's SELECT not run yet
    task, at,  \* the runs: their task, and the await they are at
    tracked,   \* _in_flight
    cancelled, \* runs that were cancelled and have not run since
    queue,     \* queued_tasks (on disk)
    failures,  \* CircuitBreaker._failures
    open,      \* CircuitBreaker._is_open
    owed,      \* history: the pushed tasks the model has yet to answer
    restarts

loop    == <<main, running, up, todo>>
runs    == <<task, at, tracked, cancelled>>
breaker == <<failures, open>>
vars    == <<loop, runs, queue, breaker, owed, restarts>>

Runs   == Runners \cup {Drain}
Stages == {"free", "start", "queueing", "ack", "call", "answered", "marking", "failed"}
Active == {r \in Runs : at[r] # "free"}

TypeOK ==
    /\ main \in {"dial", "registering", "draining", "receiving", "backoff",
                 "checkpoint", "gathering", "exited"}
    /\ running \in BOOLEAN /\ up \in BOOLEAN
    /\ todo \in SUBSET Tasks
    /\ task \in [Runs -> Tasks \cup {None}]
    /\ at \in [Runs -> Stages]
    /\ tracked \in [Tasks -> Runners \cup {None}]
    /\ cancelled \in SUBSET Runners
    /\ queue \in SUBSET Tasks
    /\ failures \in Nat /\ open \in BOOLEAN
    /\ owed \in SUBSET Tasks
    /\ restarts \in 0..MaxRestarts

Init ==
    /\ main = "dial" /\ running = TRUE /\ up = FALSE /\ todo = {}
    /\ task = [r \in Runs |-> None] /\ at = [r \in Runs |-> "free"]
    /\ tracked = [t \in Tasks |-> None] /\ cancelled = {}
    /\ queue = {}
    /\ failures = 0 /\ open = FALSE
    /\ owed = {}
    /\ restarts = 0

-----------------------------------------------------------------------------
(* start() and _connect(): the connection loop.                            *)

\* Mutant: the loop does not look at _running.
LeaveBlindly(next) == main' = next

\* Where the loop goes when _connect has returned or raised: around again, by
\* way of the back-off when it raised, or out of it once _running is false.
Leave(next) == main' = IF running THEN next ELSE "checkpoint"

\* websockets.connect succeeds: _ws is set and the register frame sent.
DialSucceeds ==
    /\ main = "dial"
    /\ main' = "registering" /\ up' = TRUE
    /\ UNCHANGED <<running, todo, runs, queue, breaker, owed, restarts>>

DialFails ==
    /\ main = "dial"
    /\ Leave("backoff")
    /\ UNCHANGED <<running, up, todo, runs, queue, breaker, owed, restarts>>

BackoffEnds ==
    /\ main = "backoff"
    /\ Leave("dial")
    /\ UNCHANGED <<running, up, todo, runs, queue, breaker, owed, restarts>>

\* The registered frame, then _drain_queue's SELECT.
Registered ==
    /\ main = "registering" /\ up
    /\ main' = "draining" /\ todo' = queue
    /\ UNCHANGED <<running, up, runs, queue, breaker, owed, restarts>>

\* An error frame: RegistrationRejected ends the runtime.
Rejected ==
    /\ main = "registering" /\ up
    /\ running' = FALSE /\ up' = FALSE /\ main' = "checkpoint"
    /\ UNCHANGED <<todo, runs, queue, breaker, owed, restarts>>

\* Any other first frame, or the connection is lost: _register raises.
RegisterFails ==
    /\ main = "registering"
    /\ Leave("backoff") /\ up' = FALSE
    /\ UNCHANGED <<running, todo, runs, queue, breaker, owed, restarts>>

\* _drain_queue runs the rows one after the other, connected or not.
DrainNext ==
    \E t \in todo :
        /\ main = "draining" /\ at[Drain] = "free"
        /\ todo' = todo \ {t}
        /\ task' = [task EXCEPT ![Drain] = t]
        /\ at' = [at EXCEPT ![Drain] = "start"]
        /\ UNCHANGED <<main, running, up, tracked, cancelled, queue, breaker, owed, restarts>>

\* Mutant: the drain goes on until the table is empty.
DrainDoneWhenEmpty ==
    /\ main = "draining" /\ at[Drain] = "free" /\ todo = {} /\ queue = {}
    /\ main' = "receiving"
    /\ UNCHANGED <<running, up, todo, runs, queue, breaker, owed, restarts>>

DrainDone ==
    /\ main = "draining" /\ at[Drain] = "free" /\ todo = {}
    /\ main' = "receiving"
    /\ UNCHANGED <<running, up, todo, runs, queue, breaker, owed, restarts>>

\* Mutant: a push without a task id is not ignored.
PushUnchecked(t) ==
    \E r \in Runners, id \in {t, None} :
        /\ main = "receiving" /\ at[r] = "free"
        /\ task' = [task EXCEPT ![r] = id]
        /\ at' = [at EXCEPT ![r] = "start"]
        /\ owed' = owed \cup {id}
        /\ UNCHANGED <<loop, tracked, cancelled, queue, breaker, restarts>>

\* _dispatch of a task_push: a run is created and tracked by its task's id,
\* whether or not that task is being run already.  Frames that arrived before
\* the connection closed are still read.
Push(t) ==
    \E r \in Runners :
        /\ main = "receiving" /\ at[r] = "free"
        /\ task' = [task EXCEPT ![r] = t]
        /\ at' = [at EXCEPT ![r] = "start"]
        /\ tracked' = [tracked EXCEPT ![t] = r]
        /\ owed' = owed \cup {t}
        /\ UNCHANGED <<loop, cancelled, queue, breaker, restarts>>

ConnectionLost ==
    /\ up /\ up' = FALSE
    /\ UNCHANGED <<main, running, todo, runs, queue, breaker, owed, restarts>>

\* async for raw in ws ends (a normal close) or raises.
ReceiveEnds ==
    /\ main = "receiving" /\ ~up
    /\ \E next \in {"dial", "backoff"} : Leave(next)
    /\ UNCHANGED <<running, up, todo, runs, queue, breaker, owed, restarts>>

-----------------------------------------------------------------------------
(* _run_task.                                                              *)

\* The run is over; the done callback of a pushed run pops its task's entry,
\* whichever run that entry holds.
End(r) ==
    /\ at' = [at EXCEPT ![r] = "free"]
    /\ task' = [task EXCEPT ![r] = None]
    /\ tracked' = IF r = Drain THEN tracked ELSE [tracked EXCEPT ![task[r]] = None]
    /\ cancelled' = cancelled \ {r}

Go(r, stage) == at' = [at EXCEPT ![r] = stage] /\ UNCHANGED <<task, tracked, cancelled>>

\* queue.enqueue, unless the run came from the queue (INSERT OR IGNORE).
Enqueue(r) == queue' = IF r = Drain THEN queue ELSE queue \cup {task[r]}

\* The circuit breaker is looked at once, before the ack.
Check(r) ==
    /\ at[r] = "start" /\ r \notin cancelled
    /\ IF ~open THEN Go(r, "ack")
       ELSE IF r = Drain THEN End(r) ELSE Go(r, "queueing")
    /\ UNCHANGED <<loop, queue, breaker, owed, restarts>>

Shelve(r) ==
    /\ at[r] = "queueing" /\ r \notin cancelled
    /\ Enqueue(r) /\ End(r)
    /\ UNCHANGED <<loop, breaker, owed, restarts>>

Ack(r) ==
    /\ at[r] = "ack" /\ r \notin cancelled
    /\ Go(r, "call")
    /\ UNCHANGED <<loop, queue, breaker, owed, restarts>>

\* The model has answered; the result is handed to _send, which drops it when
\* there is no open connection.
CallSucceeds(r) ==
    /\ at[r] = "call" /\ r \notin cancelled
    /\ Go(r, "answered")
    /\ owed' = owed \ {task[r]}
    /\ UNCHANGED <<loop, queue, breaker, restarts>>

\* Mutant: record_success closes the circuit and keeps the count.
RecordSuccessKeepingCount(r) ==
    /\ at[r] = "answered" /\ r \notin cancelled
    /\ open' = FALSE
    /\ IF r = Drain \/ open THEN Go(r, "marking") ELSE End(r)
    /\ UNCHANGED <<loop, queue, failures, owed, restarts>>

\* record_success; what is still awaited is on_close's send and mark_complete.
RecordSuccess(r) ==
    /\ at[r] = "answered" /\ r \notin cancelled
    /\ failures' = 0 /\ open' = FALSE
    /\ IF r = Drain \/ open THEN Go(r, "marking") ELSE End(r)
    /\ UNCHANGED <<loop, queue, owed, restarts>>

MarkComplete(r) ==
    /\ at[r] = "marking" /\ r \notin cancelled
    /\ queue' = IF r = Drain THEN queue \ {task[r]} ELSE queue
    /\ End(r)
    /\ UNCHANGED <<loop, breaker, owed, restarts>>

\* The model's call raises: record_failure, up to on_open's send.
CallFails(r) ==
    /\ at[r] = "call" /\ r \notin cancelled
    /\ Go(r, "failed")
    /\ failures' = failures + 1
    /\ open' = (open \/ failures + 1 >= Threshold)
    /\ UNCHANGED <<loop, queue, owed, restarts>>

\* Mutant: the failure is reported and the task is not kept.
RequeueNothing(r) ==
    /\ at[r] = "failed" /\ r \notin cancelled
    /\ End(r)
    /\ UNCHANGED <<loop, queue, breaker, owed, restarts>>

\* The task is kept for a retry and the failure is reported.
Requeue(r) ==
    /\ at[r] = "failed" /\ r \notin cancelled
    /\ Enqueue(r) /\ End(r)
    /\ UNCHANGED <<loop, breaker, owed, restarts>>

-----------------------------------------------------------------------------
(* Shutdown.                                                               *)

\* stop(), on SIGINT or SIGTERM: close _ws if there is one.  The loop is told
\* nothing more: it sees _running when _connect ends.
Stop ==
    /\ running /\ main \notin {"gathering", "exited"}
    /\ running' = FALSE /\ up' = FALSE
    /\ UNCHANGED <<main, todo, runs, queue, breaker, owed, restarts>>

\* Where there are no signal handlers (Windows), asyncio.run cancels start(): out
\* of the loop; from the back-off's sleep, which no except clause covers, out of
\* start() itself, and asyncio.run cancels every run.  A queued run is left there;
\* an interrupted mark_complete may or may not have been done.
Interrupt ==
    /\ main \in {"dial", "registering", "draining", "receiving", "backoff"}
    /\ up' = FALSE /\ todo' = {}
    /\ main' = IF main = "backoff" THEN "gathering" ELSE "checkpoint"
    /\ cancelled' = IF main = "backoff" THEN Active \ {Drain} ELSE cancelled
    /\ task' = [task EXCEPT ![Drain] = None]
    /\ at' = [at EXCEPT ![Drain] = "free"]
    /\ \/ UNCHANGED queue
       \/ at[Drain] = "marking" /\ queue' = queue \ {task[Drain]}
    /\ UNCHANGED <<running, tracked, breaker, owed, restarts>>

\* _checkpoint_in_flight cancels the tracked runs, and awaits them.  A run that was
\* only created has had its first turn by then (the loop's ready queue is in order).
Checkpoint ==
    /\ main = "checkpoint" /\ \A r \in Runners : at[r] # "start"
    /\ main' = "gathering"
    /\ cancelled' = {tracked[t] : t \in Tasks} \ {None}
    /\ UNCHANGED <<running, up, todo, task, at, tracked, queue, breaker, owed, restarts>>

\* CancelledError at the await a run is at: only inside the try, where the call and
\* the answer are, does the run queue its task; an INSERT that was interrupted may
\* or may not be committed.
Unwind(r) ==
    /\ r \in cancelled
    /\ \/ at[r] \in {"call", "answered", "marking", "queueing", "failed"} /\ Enqueue(r)
       \/ at[r] \in {"start", "ack", "queueing", "failed"} /\ UNCHANGED queue
    /\ End(r)
    /\ UNCHANGED <<loop, breaker, owed, restarts>>

\* The queue is closed and the process ends, with every run that was not tracked.
Exit ==
    /\ main = "gathering" /\ cancelled = {}
    /\ main' = "exited"
    /\ task' = [r \in Runs |-> None] /\ at' = [r \in Runs |-> "free"]
    /\ tracked' = [t \in Tasks |-> None]
    /\ UNCHANGED <<running, up, todo, cancelled, queue, breaker, owed, restarts>>

\* A new process, after an exit or a kill: only the queue survives, and what is
\* owed is what it holds (the rest is the orchestrator's to send again).
Restart ==
    /\ restarts < MaxRestarts
    /\ restarts' = restarts + 1
    /\ main' = "dial" /\ running' = TRUE /\ up' = FALSE /\ todo' = {}
    /\ task' = [r \in Runs |-> None] /\ at' = [r \in Runs |-> "free"]
    /\ tracked' = [t \in Tasks |-> None] /\ cancelled' = {}
    /\ failures' = 0 /\ open' = FALSE
    /\ owed' = owed \cap queue
    /\ UNCHANGED queue

-----------------------------------------------------------------------------
Looping ==
    \/ DialSucceeds \/ DialFails \/ BackoffEnds \/ Registered \/ Rejected \/ RegisterFails
    \/ DrainNext \/ DrainDone \/ ConnectionLost \/ ReceiveEnds \/ \E t \in Tasks : Push(t)
Running(r) ==
    \/ Check(r) \/ Shelve(r) \/ Ack(r) \/ CallSucceeds(r) \/ RecordSuccess(r)
    \/ MarkComplete(r) \/ CallFails(r) \/ Requeue(r)
ShuttingDown ==
    Stop \/ Interrupt \/ Checkpoint \/ (\E r \in Runners : Unwind(r)) \/ Exit \/ Restart

Next == Looping \/ (\E r \in Runs : Running(r)) \/ ShuttingDown

Spec == Init /\ [][Next]_vars

\* The event loop runs what can continue; a dial and a model call end one way or the
\* other (both have timeouts).  Nobody has to answer a register frame, to push, to
\* close a connection or to send a signal.
Fairness ==
    /\ WF_vars(DialSucceeds \/ DialFails) /\ WF_vars(BackoffEnds)
    /\ WF_vars(RegisterFails /\ ~up)
    /\ WF_vars(DrainNext \/ DrainDone) /\ WF_vars(ReceiveEnds)
    /\ WF_vars(Checkpoint) /\ WF_vars(Exit)
    /\ \A r \in Runs : WF_vars(Running(r))
    /\ \A r \in Runners : WF_vars(Unwind(r))

FairSpec == Spec /\ Fairness

\* A good day: connections come up, are registered and are lost again, and a model
\* called again and again answers again and again.
GoodDay ==
    /\ SF_vars(DialSucceeds) /\ SF_vars(Registered) /\ WF_vars(ConnectionLost)
    /\ \A r \in Runs : SF_vars(CallSucceeds(r))

GoodDaySpec == FairSpec /\ GoodDay

-----------------------------------------------------------------------------
(* Properties that hold.                                                   *)

\* While the runtime is not shutting down, a task it was pushed and the model has
\* not answered has a run that will ask the model, or its row in the queue, whatever runs of the same task overlap
\* (a push repeated after a reconnect, the queue's drain beside an older run), over
\* failures, an open breaker and a restart.
Unanswered == {r \in Active : at[r] \notin {"answered", "marking"}}
NothingForgotten ==
    main \notin {"checkpoint", "gathering", "exited"} =>
        \A t \in owed : t \in queue \/ \E r \in Unanswered : task[r] = t

\* The breaker is open exactly when the last Threshold calls to end have all
\* failed, runs that were past their check included.
BreakerCounts == open <=> failures >= Threshold

\* A runtime without a connection dials again or ends: no queue to drain and no
\* run keeps the loop from it.
Redials == ~up ~> main \in {"dial", "exited"}

\* A runtime that was stopped while it had a connection or waited to dial exits, with
\* the calls of an unfinished drain made first.
StopEnds == ~running /\ ~up /\ main # "dial" ~> main = "exited" \/ running

-----------------------------------------------------------------------------
(* A statement of the docs that the code does not keep.                    *)

\* "Tasks received while Ollama is unavailable ... are retried in FIFO order on the
\* next successful reconnect" (agent-runtime/README.md): on a good day a queued task
\* is given to the model again, unless the runtime is told to end.
Ending == ~running \/ main \in {"checkpoint", "gathering", "exited"}
QueuedTaskRetried ==
    \A t \in Tasks :
        t \in queue ~> t \notin queue \/ (at[Drain] = "call" /\ task[Drain] = t) \/ Ending
=============================================================================
