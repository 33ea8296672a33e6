------------------------------- MODULE System -------------------------------
(***************************************************************************)
(* The orchestrator (Relay) and one agent's runtime (AgentRuntime) with    *)
(* the WebSocket between them: what one side sends is what the other       *)
(* reads, in order, on each connection.  Every step is a step of one of    *)
(* the two modules, or of both where a connection is opened or closed.     *)
(*                                                                         *)
(* Left to the modules' own runs: deletions and removals, SQL errors,      *)
(* restarts and signals, heartbeats and the eviction of an entry.  Frames  *)
(* that nothing else waits for (progress, status) are not queued.          *)
(***************************************************************************)
EXTENDS Sequences, Naturals

CONSTANTS
    agent, Tasks, Sockets, MaxRetries,   \* of Relay
    Runners, Drain, Threshold,           \* of AgentRuntime
    None

\* What the two modules assume of them.
ASSUME NamesAssumption == Drain \notin Runners /\ None \notin Runners \cup Sockets \cup Tasks \cup {agent}
ASSUME LimitsAssumption == MaxRetries \in Nat \ {0} /\ Threshold \in Nat \ {0}

VARIABLES
    status, retry, dispatched_at, agent_status, deleted, conns, stale, peer, link, known,
    pc, rows, sub, del, dt, hb_pc, hb_todo, hb_cur, tw,                        \* Relay
    main, running, up, todo, task, at, tracked, cancelled, queue, failures,
    open, owed,                                                                \* AgentRuntime
    sock,               \* the connection _ws is
    toServer, toAgent,  \* frames sent on each connection and not read yet
    answered, erred,    \* history: the tasks the model answered, or failed on
    pushedOn            \* history: the live connection a task's last push went out on

Server  == INSTANCE Relay WITH
             Agents <- {agent}, AssignedTo <- [t \in Tasks |-> agent], Removable <- {},
             Cancellable <- {}, MaxRestarts <- 0, MaxFaults <- 0, restarts <- 0, faults <- 0
Runtime == INSTANCE AgentRuntime WITH MaxRestarts <- 0, restarts <- 0

serverVars  == <<status, retry, dispatched_at, agent_status, deleted, conns, stale, peer, link,
                 known, pc, rows, sub, del, dt, hb_pc, hb_todo, hb_cur, tw>>
runtimeVars == <<main, running, up, todo, task, at, tracked, cancelled, queue, failures, open, owed>>
wire        == <<toServer, toAgent>>
history     == <<answered, erred, pushedOn>>
vars        == <<serverVars, runtimeVars, sock, wire, history>>

Frame == [kind : {"register", "registered"}]
         \cup [kind : {"push", "ack", "complete", "failed"}, task : Tasks]
About(kind, t) == [kind |-> kind, task |-> t]

TypeOK ==
    /\ Server!TypeOK /\ Runtime!TypeOK
    /\ sock \in Sockets \cup {None}
    /\ toServer \in [Sockets -> Seq(Frame)] /\ toAgent \in [Sockets -> Seq(Frame)]
    /\ answered \subseteq Tasks /\ erred \subseteq Tasks
    /\ pushedOn \in [Tasks -> Sockets \cup {None}]

Init ==
    /\ Server!Init /\ Runtime!Init
    /\ sock = None
    /\ toServer = [s \in Sockets |-> <<>>] /\ toAgent = [s \in Sockets |-> <<>>]
    /\ answered = {} /\ erred = {} /\ pushedOn = [t \in Tasks |-> None]

-----------------------------------------------------------------------------
(* The wire.                                                               *)

Arrived(s, chan, f) == chan[s] # <<>> /\ Head(chan[s]) = f
Read(s, chan) == [chan EXCEPT ![s] = Tail(@)]

\* ConnectionManager.send_json: to the socket of the agent's entry.
SendPush(t) ==
    LET s    == conns[agent]
        sent == s # None /\ link[s] = "up"
    IN  /\ toAgent' = IF sent THEN [toAgent EXCEPT ![s] = Append(@, About("push", t))] ELSE toAgent
        /\ pushedOn' = [pushedOn EXCEPT ![t] = IF sent THEN s ELSE None]

\* AgentRuntimeClient._send: on the connection there is now, or nowhere.
Send(f) ==
    toServer' = IF up /\ link[sock] = "up" THEN [toServer EXCEPT ![sock] = Append(@, f)]
                                          ELSE toServer

-----------------------------------------------------------------------------
(* Steps of the orchestrator.                                              *)

ServerAlone(A) == A /\ UNCHANGED <<runtimeVars, sock, wire, history>>

\* receive_json returns the register frame.
ReadRegister(s) ==
    /\ Arrived(s, toServer, [kind |-> "register"]) /\ toServer' = Read(s, toServer)
    /\ Server!RegisterLookup(s)
    /\ UNCHANGED <<runtimeVars, sock, toAgent, history>>

SendRegistered(s) ==
    /\ Server!RegisterAck(s)
    /\ toAgent' = IF link[s] = "up" THEN [toAgent EXCEPT ![s] = Append(@, [kind |-> "registered"])]
                                    ELSE toAgent
    /\ UNCHANGED <<runtimeVars, sock, toServer, history>>

PushPending(s) ==
    \E r \in rows[s] :
        /\ Server!DrainPush(s) /\ rows'[s] = rows[s] \ {r} /\ SendPush(r.task)
        /\ UNCHANGED <<runtimeVars, sock, toServer, answered, erred>>

PushSubmitted(t) ==
    /\ Server!SubmitSend(t) /\ SendPush(t)
    /\ UNCHANGED <<runtimeVars, sock, toServer, answered, erred>>

\* The receive loop: an ack or a result that its UPDATE does not match changes nothing.
ReadAck(s, t) ==
    /\ Arrived(s, toServer, About("ack", t)) /\ toServer' = Read(s, toServer) /\ pc[s] = "serving"
    /\ IF status[t] = "dispatched" THEN Server!TaskAck(s, t) ELSE UNCHANGED serverVars
    /\ UNCHANGED <<runtimeVars, sock, toAgent, history>>

ReadResult(s, t, final) ==
    /\ Arrived(s, toServer, About(final, t)) /\ toServer' = Read(s, toServer) /\ pc[s] = "serving"
    /\ IF status[t] = "running" THEN Server!TaskResult(s, t, final) ELSE UNCHANGED serverVars
    /\ UNCHANGED <<runtimeVars, sock, toAgent, history>>

\* What the runtime sent and nobody read is lost with the handler.
Hangup(s) ==
    /\ Server!Hangup(s) /\ toServer' = [toServer EXCEPT ![s] = <<>>]
    /\ UNCHANGED <<runtimeVars, sock, toAgent, history>>

ServerStep(s) ==
    \/ ReadRegister(s) \/ SendRegistered(s) \/ PushPending(s) \/ Hangup(s)
    \/ \E t \in Tasks : ReadAck(s, t) \/ \E final \in {"complete", "failed"} : ReadResult(s, t, final)
    \/ ServerAlone(Server!RegisterConnect(s)) \/ ServerAlone(Server!RegisterStatus(s))
    \/ ServerAlone(Server!DrainClaim(s)) \/ ServerAlone(Server!DrainDone(s))
    \/ ServerAlone(Server!CleanupSelect(s)) \/ ServerAlone(Server!CleanupRequeue(s))
    \/ ServerAlone(Server!CleanupDisconnect(s)) \/ ServerAlone(Server!CleanupStatus(s))

SubmitStep(t) ==
    \/ PushSubmitted(t)
    \/ ServerAlone(Server!SubmitInsert(t)) \/ ServerAlone(Server!SubmitClaim(t))
    \/ ServerAlone(Server!SubmitRevert(t))

Sweep == ServerAlone(Server!TimeoutSweep)

-----------------------------------------------------------------------------
(* Steps of the runtime.                                                   *)

RuntimeAlone(A) == A /\ UNCHANGED <<serverVars, sock, wire, history>>

\* The connection is opened and the register frame sent.
Dial(s) ==
    /\ Runtime!DialSucceeds /\ Server!Connect(s, agent)
    /\ sock' = s /\ toServer' = [toServer EXCEPT ![s] = <<[kind |-> "register"]>>]
    /\ UNCHANGED <<toAgent, history>>

ReadRegistered ==
    /\ sock # None /\ Arrived(sock, toAgent, [kind |-> "registered"])
    /\ Runtime!Registered /\ toAgent' = Read(sock, toAgent)
    /\ UNCHANGED <<serverVars, sock, toServer, history>>

\* _register raises: the first frame is a push, and the runtime closes the connection;
\* or there is none any more.
RegisterFails ==
    /\ Runtime!RegisterFails
    /\ \/ ~up /\ UNCHANGED serverVars
       \/ /\ up /\ \E t \in Tasks : Arrived(sock, toAgent, About("push", t))
          /\ IF link[sock] = "closed" THEN UNCHANGED serverVars ELSE Server!LinkClosed(sock)
    /\ toAgent' = [toAgent EXCEPT ![sock] = <<>>]
    /\ UNCHANGED <<sock, toServer, history>>

ReadPush(t) ==
    /\ sock # None /\ Arrived(sock, toAgent, About("push", t))
    /\ Runtime!Push(t) /\ toAgent' = Read(sock, toAgent)
    /\ UNCHANGED <<serverVars, sock, toServer, history>>

\* The runtime learns that its connection is gone.
NoticeLoss == up /\ link[sock] # "up" /\ RuntimeAlone(Runtime!ConnectionLost)

\* What the server sent and nobody read is lost.
ReceiveEnds ==
    /\ Runtime!ReceiveEnds /\ toAgent' = [toAgent EXCEPT ![sock] = <<>>]
    /\ UNCHANGED <<serverVars, sock, toServer, history>>

SendAckNever(r) == RuntimeAlone(Runtime!Ack(r))     \* mutant
SendAck(r) ==
    /\ Runtime!Ack(r) /\ Send(About("ack", task[r]))
    /\ UNCHANGED <<serverVars, sock, toAgent, history>>

SendAnswer(r) ==
    /\ Runtime!CallSucceeds(r) /\ Send(About("complete", task[r]))
    /\ answered' = answered \cup {task[r]}
    /\ UNCHANGED <<serverVars, sock, toAgent, erred, pushedOn>>

Err(r) ==
    /\ Runtime!CallFails(r) /\ erred' = erred \cup {task[r]}
    /\ UNCHANGED <<serverVars, sock, wire, answered, pushedOn>>

SendFailureAs(r, kind) ==
    /\ Runtime!Requeue(r) /\ Send(About(kind, task[r]))
    /\ UNCHANGED <<serverVars, sock, toAgent, history>>
SendPartial(r) == SendFailureAs(r, "complete")     \* mutant: what there is, as an answer
SendFailure(r) == SendFailureAs(r, "failed")

RunStep(r) ==
    \/ SendAck(r) \/ SendAnswer(r) \/ Err(r) \/ SendFailure(r)
    \/ RuntimeAlone(Runtime!Check(r)) \/ RuntimeAlone(Runtime!Shelve(r))
    \/ RuntimeAlone(Runtime!RecordSuccess(r)) \/ RuntimeAlone(Runtime!MarkComplete(r))

LoopStep ==
    \/ (\E s \in Sockets : Dial(s)) \/ ReadRegistered \/ RegisterFails \/ NoticeLoss \/ ReceiveEnds
    \/ (\E t \in Tasks : ReadPush(t))
    \/ RuntimeAlone(Runtime!DrainNext) \/ RuntimeAlone(Runtime!DrainDone)
    \/ RuntimeAlone(Runtime!BackoffEnds)

-----------------------------------------------------------------------------
Request == \E t \in Tasks : ServerAlone(Server!SubmitCheck(t))

\* The bound: nothing goes wrong any more on the last connection.
Environment ==
    /\ \E x \in Sockets : pc[x] = "free"
    /\ \/ \E s \in Sockets : ServerAlone(Server!PeerLost(s) \/ Server!LinkClosed(s))
       \/ \E t \in Tasks : ServerAlone(Server!TaskOverdue(t))

Steps ==
    \/ (\E r \in Runners \cup {Drain} : RunStep(r)) \/ LoopStep
    \/ (\E s \in Sockets : ServerStep(s)) \/ (\E t \in Tasks : SubmitStep(t)) \/ Sweep

Next == Steps \/ Request \/ Environment

Spec == Init /\ [][Next]_vars

\* While a coroutine of one of the two can continue, one of them does, frames are read,
\* and a model call ends.  (There are finitely many steps, so all of them do.)  Time need
\* not pass, so no watchdog has to help, and nothing has to go wrong.
FairSpec == Spec /\ WF_vars(Steps)

-----------------------------------------------------------------------------
(* Properties that hold.                                                   *)

\* What is recorded is what the model did, however old the run that sent it and whatever
\* was lost on the way.
RecordedIsReal ==
    \A t \in Tasks :
        /\ status[t] = "complete" => t \in answered
        /\ status[t] = "failed" => t \in erred

\* A push that went out on a live connection is not forgotten while its task is in flight.
\* As long as the connection stays, the push is still to be read, or a run has its task, or
\* the frames that will end it are behind each other on the wire: an ack where there was none
\* yet, then a result.  When the connection is lost its handler will still look the task up,
\* or one has, or the task is to be pushed again.
Unread(s, t)     == \E i \in DOMAIN toAgent[s] : toAgent[s][i] = About("push", t)
RunAt(t, stages) == \E r \in Runners : task[r] = t /\ at[r] \in stages
ResultAfter(s, t, i) ==
    \/ RunAt(t, {"call", "failed"})
    \/ \E j \in DOMAIN toServer[s] :
          j > i /\ toServer[s][j] \in {About("complete", t), About("failed", t)}
Carried(s, t) ==
    \/ t \in queue \/ Unread(s, t) \/ RunAt(t, {"start", "queueing", "ack"})
    \/ \E i \in DOMAIN toServer[s] : toServer[s][i] = About("ack", t) /\ ResultAfter(s, t, i)
    \/ status[t] = "running" /\ ResultAfter(s, t, 0)

BeforeCleanup(s) ==
    pc[s] \in {"reg_status", "reg_ack", "reg_drain", "reg_push", "serving", "cl_select"}
HeldBy(t, label) == \E s \in Sockets : pc[s] = label /\ \E r \in rows[s] : r.task = t

PushKept ==
    \A s \in Sockets, t \in Tasks :
        status[t] \in Server!InFlight /\ pushedOn[t] = s =>
            \/ IF link[s] = "up" THEN Carried(s, t) ELSE BeforeCleanup(s)
            \/ HeldBy(t, "cl_requeue")
            \/ sub[t] = "claimed" \/ HeldBy(t, "reg_push")

\* A push on a connection that stays gets the task out of flight without the watchdog:
\* the ack makes it running before the result comes, also when an older run of the same
\* task answers meanwhile.  The one other end is the queue, when the breaker is open.  (Two
\* live connections do not follow each other without a moment that has none.)
Connected == \E s \in Sockets : link[s] = "up"
PushedIsAnswered ==
    \A t \in Tasks :
        (\E s \in Sockets : link[s] = "up" /\ Unread(s, t))
            ~> status[t] \notin Server!InFlight \/ ~Connected \/ t \in queue
=============================================================================
