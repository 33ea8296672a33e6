---------------------------- MODULE SystemProofs ----------------------------
(***************************************************************************)
(* Theorems about System, for all tasks, connections, runs and bounds:     *)
(* each side of it keeps its types, and what the orchestrator records is   *)
(* what the model did.                                                     *)
(***************************************************************************)
EXTENDS System, TLAPS

\* The variables of the two sides and of the wire have their types.
WireType ==
    /\ sock \in Sockets \cup {None}
    /\ toServer \in [Sockets -> Seq(Frame)] /\ toAgent \in [Sockets -> Seq(Frame)]
    /\ answered \subseteq Tasks /\ erred \subseteq Tasks
    /\ pushedOn \in [Tasks -> Sockets \cup {None}]

\* A run that is under way has a task, so that what it sends is a frame.
RunsAssigned == \A r \in Runtime!Runs : at[r] # "free" => task[r] \in Tasks

TypeInv == TypeOK /\ RunsAssigned

\* What each step of the orchestrator leaves of its types.
LEMMA ServerType ==
  ASSUME Server!TypeOK,
         \/ \E s \in Sockets :
              \/ Server!RegisterLookup(s) \/ Server!RegisterConnect(s) \/ Server!RegisterStatus(s)
              \/ Server!RegisterAck(s) \/ Server!DrainClaim(s) \/ Server!DrainPush(s)
              \/ Server!DrainDone(s) \/ Server!Hangup(s) \/ Server!CleanupSelect(s)
              \/ Server!CleanupRequeue(s) \/ Server!CleanupDisconnect(s) \/ Server!CleanupStatus(s)
              \/ Server!PeerLost(s) \/ Server!LinkClosed(s) \/ Server!Connect(s, agent)
              \/ \E t \in Tasks : \/ Server!TaskAck(s, t)
                                  \/ \E final \in {"complete", "failed"} : Server!TaskResult(s, t, final)
         \/ \E t \in Tasks :
              \/ Server!SubmitCheck(t) \/ Server!SubmitInsert(t) \/ Server!SubmitClaim(t)
              \/ Server!SubmitSend(t) \/ Server!SubmitRevert(t) \/ Server!TaskOverdue(t)
         \/ Server!TimeoutSweep
         \/ UNCHANGED serverVars
  PROVE  Server!TypeOK'
<1> USE DEF Server!TypeOK, Server!Statuses, Server!InFlight, Server!Terminal, Server!HandlerPCs,
            Server!Row, Server!taskDB, Server!agentDB, Server!table, Server!net, Server!handler,
            Server!request, Server!beats, Server!bounds
<1>1. ASSUME NEW s \in Sockets, Server!RegisterLookup(s) PROVE Server!TypeOK'
  BY <1>1 DEF Server!RegisterLookup, Server!Goto
<1>2. ASSUME NEW s \in Sockets, Server!RegisterConnect(s) PROVE Server!TypeOK'
  BY <1>2 DEF Server!RegisterConnect, Server!Goto, Server!Enter
<1>3. ASSUME NEW s \in Sockets, Server!RegisterStatus(s) PROVE Server!TypeOK'
  BY <1>3 DEF Server!RegisterStatus, Server!Goto, Server!SetStatus
<1>4. ASSUME NEW s \in Sockets, Server!RegisterAck(s) PROVE Server!TypeOK'
  BY <1>4 DEF Server!RegisterAck, Server!Goto
<1>5. ASSUME NEW s \in Sockets, Server!DrainClaim(s) PROVE Server!TypeOK'
  BY <1>5 DEF Server!DrainClaim, Server!Goto, Server!Claim, Server!RowsOf, Server!Of
<1>6. ASSUME NEW s \in Sockets, Server!DrainPush(s) PROVE Server!TypeOK'
  BY <1>6 DEF Server!DrainPush, Server!Push, Server!Remove, Server!Enter
<1>7. ASSUME NEW s \in Sockets, Server!DrainDone(s) PROVE Server!TypeOK'
  BY <1>7 DEF Server!DrainDone, Server!Goto
<1>8. ASSUME NEW s \in Sockets, Server!Hangup(s) PROVE Server!TypeOK'
  BY <1>8 DEF Server!Hangup, Server!Goto
<1>9. ASSUME NEW s \in Sockets, Server!CleanupSelect(s) PROVE Server!TypeOK'
  BY <1>9 DEF Server!CleanupSelect, Server!Goto, Server!RowsOf, Server!Of
<1>10. ASSUME NEW s \in Sockets, Server!CleanupRequeue(s) PROVE Server!TypeOK'
  BY <1>10 DEF Server!CleanupRequeue, Server!Settle, Server!BackToPending
<1>11. ASSUME NEW s \in Sockets, Server!CleanupDisconnect(s) PROVE Server!TypeOK'
  BY <1>11 DEF Server!CleanupDisconnect, Server!Goto, Server!Remove, Server!Enter
<1>12. ASSUME NEW s \in Sockets, Server!CleanupStatus(s) PROVE Server!TypeOK'
  BY <1>12 DEF Server!CleanupStatus, Server!Goto, Server!SetStatus
<1>13. ASSUME NEW s \in Sockets, Server!PeerLost(s) \/ Server!LinkClosed(s) PROVE Server!TypeOK'
  BY <1>13 DEF Server!PeerLost, Server!LinkClosed
<1>14. ASSUME NEW s \in Sockets, Server!Connect(s, agent) PROVE Server!TypeOK'
  BY <1>14 DEF Server!Connect, Server!Goto
<1>15. ASSUME NEW s \in Sockets, NEW t \in Tasks, Server!TaskAck(s, t) PROVE Server!TypeOK'
  BY <1>15 DEF Server!TaskAck, Server!Settle
<1>16. ASSUME NEW s \in Sockets, NEW t \in Tasks, NEW final \in {"complete", "failed"},
              Server!TaskResult(s, t, final)
       PROVE  Server!TypeOK'
  BY <1>16 DEF Server!TaskResult, Server!Settle
<1>17. ASSUME NEW t \in Tasks, Server!SubmitCheck(t) \/ Server!SubmitInsert(t) PROVE Server!TypeOK'
  BY <1>17 DEF Server!SubmitCheck, Server!SubmitInsert
<1>18. ASSUME NEW t \in Tasks, Server!SubmitClaim(t) PROVE Server!TypeOK'
  BY <1>18 DEF Server!SubmitClaim, Server!Claim
<1>19. ASSUME NEW t \in Tasks, Server!SubmitSend(t) PROVE Server!TypeOK'
  BY <1>19 DEF Server!SubmitSend, Server!Push, Server!Remove, Server!Enter
<1>20. ASSUME NEW t \in Tasks, Server!SubmitRevert(t) PROVE Server!TypeOK'
  BY <1>20 DEF Server!SubmitRevert, Server!BackToPending
<1>21. ASSUME NEW t \in Tasks, Server!TaskOverdue(t) PROVE Server!TypeOK'
  BY <1>21 DEF Server!TaskOverdue
<1>22. CASE Server!TimeoutSweep
  BY <1>22 DEF Server!TimeoutSweep, Server!Settle
<1>23. CASE UNCHANGED serverVars
  BY <1>23 DEF serverVars
<1> HIDE DEF Server!TypeOK
<1> QED
  BY <1>1, <1>2, <1>3, <1>4, <1>5, <1>6, <1>7, <1>8, <1>9, <1>10, <1>11, <1>12, <1>13, <1>14,
     <1>15, <1>16, <1>17, <1>18, <1>19, <1>20, <1>21, <1>22, <1>23
\* What each step of the runtime leaves of its types, and of what its runs are for.
LEMMA RuntimeType ==
  ASSUME Runtime!TypeOK, RunsAssigned,
         \/ Runtime!DialSucceeds \/ Runtime!Registered \/ Runtime!RegisterFails
         \/ Runtime!ConnectionLost \/ Runtime!ReceiveEnds \/ Runtime!DrainNext \/ Runtime!DrainDone
         \/ Runtime!BackoffEnds
         \/ \E t \in Tasks : Runtime!Push(t)
         \/ \E r \in Runners \cup {Drain} :
              \/ Runtime!Check(r) \/ Runtime!Shelve(r) \/ Runtime!Ack(r) \/ Runtime!CallSucceeds(r)
              \/ Runtime!RecordSuccess(r) \/ Runtime!MarkComplete(r) \/ Runtime!CallFails(r)
              \/ Runtime!Requeue(r)
         \/ UNCHANGED runtimeVars
  PROVE  Runtime!TypeOK' /\ RunsAssigned'
<1> DEFINE Kept == Runtime!TypeOK' /\ RunsAssigned'
<1> USE DEF Runtime!TypeOK, RunsAssigned, Runtime!Runs, Runtime!Stages, Runtime!loop, Runtime!runs,
            Runtime!breaker
<1>1. CASE Runtime!DialSucceeds \/ Runtime!Registered
  BY <1>1 DEF Runtime!DialSucceeds, Runtime!Registered
<1>2. CASE Runtime!RegisterFails \/ Runtime!ReceiveEnds \/ Runtime!BackoffEnds
  BY <1>2 DEF Runtime!RegisterFails, Runtime!ReceiveEnds, Runtime!BackoffEnds, Runtime!Leave
<1>3. CASE Runtime!ConnectionLost \/ Runtime!DrainDone
  BY <1>3 DEF Runtime!ConnectionLost, Runtime!DrainDone
<1>4. CASE Runtime!DrainNext
  BY <1>4 DEF Runtime!DrainNext
<1>5. ASSUME NEW t \in Tasks, Runtime!Push(t) PROVE Kept
  BY <1>5 DEF Runtime!Push
<1>6. ASSUME NEW r \in Runners \cup {Drain}, Runtime!Check(r) PROVE Kept
  BY <1>6 DEF Runtime!Check, Runtime!Go, Runtime!End
<1>7. ASSUME NEW r \in Runners \cup {Drain}, Runtime!Shelve(r) \/ Runtime!Requeue(r) PROVE Kept
  BY <1>7 DEF Runtime!Shelve, Runtime!Requeue, Runtime!Enqueue, Runtime!End
<1>8. ASSUME NEW r \in Runners \cup {Drain}, Runtime!Ack(r) \/ Runtime!CallSucceeds(r) PROVE Kept
  BY <1>8 DEF Runtime!Ack, Runtime!CallSucceeds, Runtime!Go
<1>9. ASSUME NEW r \in Runners \cup {Drain}, Runtime!RecordSuccess(r) PROVE Kept
  BY <1>9 DEF Runtime!RecordSuccess, Runtime!Go, Runtime!End
<1>10. ASSUME NEW r \in Runners \cup {Drain}, Runtime!MarkComplete(r) PROVE Kept
  BY <1>10 DEF Runtime!MarkComplete, Runtime!End
<1>11. ASSUME NEW r \in Runners \cup {Drain}, Runtime!CallFails(r) PROVE Kept
  BY <1>11 DEF Runtime!CallFails, Runtime!Go
<1>12. CASE UNCHANGED runtimeVars
  BY <1>12 DEF runtimeVars
<1> HIDE DEF Runtime!TypeOK, RunsAssigned
<1> QED
  BY <1>1, <1>2, <1>3, <1>4, <1>5, <1>6, <1>7, <1>8, <1>9, <1>10, <1>11, <1>12
-----------------------------------------------------------------------------
(* The wire.                                                               *)

\* What the two sides send are frames, and what is read leaves frames.
LEMMA Frames ==
  /\ \A t \in Tasks, kind \in {"push", "ack", "complete", "failed"} : About(kind, t) \in Frame
  /\ \A kind \in {"register", "registered"} : [kind |-> kind] \in Frame
  /\ \A q \in Seq(Frame), f \in Frame : Append(q, f) \in Seq(Frame)
  /\ \A q \in Seq(Frame) : q # <<>> => Tail(q) \in Seq(Frame)
BY DEF About, Frame

\* Reading keeps a channel's type, whatever it is.
LEMMA ReadType ==
  ASSUME NEW chan \in [Sockets -> Seq(Frame)], NEW s \in Sockets, chan[s] # <<>>
  PROVE  Read(s, chan) \in [Sockets -> Seq(Frame)]
BY Frames DEF Read

\* Pushes.
LEMMA PushType ==
  ASSUME Server!TypeOK, WireType, NEW t \in Tasks, SendPush(t)
  PROVE  toAgent' \in [Sockets -> Seq(Frame)] /\ pushedOn' \in [Tasks -> Sockets \cup {None}]
<1>1. About("push", t) \in Frame
  BY Frames
<1>2. conns[agent] \in Sockets \cup {None}
  BY DEF Server!TypeOK
<1>3. toAgent' \in [Sockets -> Seq(Frame)]
  BY <1>1, <1>2, Frames DEF SendPush, WireType
<1>4. pushedOn' \in [Tasks -> Sockets \cup {None}]
  BY <1>2 DEF SendPush, WireType
<1> QED  BY <1>3, <1>4

\* What a run sends.
LEMMA SendType ==
  ASSUME WireType, NEW f \in Frame, Send(f)
  PROVE  toServer' \in [Sockets -> Seq(Frame)]
BY Frames DEF Send, WireType

\* Every step keeps every type.
LEMMA TypeStep == TypeInv /\ [Next]_vars => TypeInv'
<1> SUFFICES ASSUME TypeInv, [Next]_vars PROVE TypeInv'
  OBVIOUS
<1>t. Server!TypeOK /\ Runtime!TypeOK /\ RunsAssigned /\ WireType
  BY DEF TypeInv, TypeOK, WireType
<1>s. ASSUME Server!TypeOK', UNCHANGED runtimeVars, WireType' PROVE TypeInv'
  BY <1>s, <1>t, RuntimeType DEF TypeInv, TypeOK, WireType
<1>r. ASSUME Runtime!TypeOK', RunsAssigned', UNCHANGED serverVars, WireType' PROVE TypeInv'
  BY <1>r, <1>t, ServerType DEF TypeInv, TypeOK, WireType
<1>1. ASSUME NEW s \in Sockets, ServerStep(s) PROVE TypeInv'
  <2>1. CASE ReadRegister(s)
    <3>1. Server!TypeOK'
      BY <1>t, <2>1, ServerType DEF ReadRegister
    <3>2. WireType'
      BY <1>t, <2>1, ReadType DEF ReadRegister, Arrived, WireType, history
    <3> QED  BY <1>s, <2>1, <3>1, <3>2 DEF ReadRegister
  <2>2. CASE SendRegistered(s)
    <3>1. Server!TypeOK'
      BY <1>t, <2>2, ServerType DEF SendRegistered
    <3>2. WireType'
      BY <1>t, <2>2, Frames DEF SendRegistered, WireType, history
    <3> QED  BY <1>s, <2>2, <3>1, <3>2 DEF SendRegistered
  <2>3. CASE PushPending(s)
    <3>1. PICK r \in rows[s] : Server!DrainPush(s) /\ SendPush(r.task)
                               /\ UNCHANGED <<runtimeVars, sock, toServer, answered, erred>>
      BY <2>3 DEF PushPending
    <3>2. r.task \in Tasks
      BY <1>t DEF Server!TypeOK, Server!Row
    <3>3. Server!TypeOK'
      BY <1>t, <3>1, ServerType
    <3>4. WireType'
      BY <1>t, <3>1, <3>2, PushType DEF WireType, history
    <3> QED  BY <1>s, <3>1, <3>3, <3>4
  <2>4. CASE Hangup(s)
    <3>1. Server!TypeOK'
      BY <1>t, <2>4, ServerType DEF Hangup
    <3>2. WireType'
      BY <1>t, <2>4 DEF Hangup, WireType, history
    <3> QED  BY <1>s, <2>4, <3>1, <3>2 DEF Hangup
  <2>5. ASSUME NEW t \in Tasks, ReadAck(s, t) PROVE TypeInv'
    <3>1. Server!TypeOK'
      BY <1>t, <2>5, ServerType DEF ReadAck
    <3>2. WireType'
      BY <1>t, <2>5, ReadType DEF ReadAck, Arrived, WireType, history
    <3> QED  BY <1>s, <2>5, <3>1, <3>2 DEF ReadAck
  <2>6. ASSUME NEW t \in Tasks, NEW final \in {"complete", "failed"}, ReadResult(s, t, final)
        PROVE  TypeInv'
    <3>1. Server!TypeOK'
      BY <1>t, <2>6, ServerType DEF ReadResult
    <3>2. WireType'
      BY <1>t, <2>6, ReadType DEF ReadResult, Arrived, WireType, history
    <3> QED  BY <1>s, <2>6, <3>1, <3>2 DEF ReadResult
  <2>7. ASSUME \/ Server!RegisterConnect(s) \/ Server!RegisterStatus(s) \/ Server!DrainClaim(s)
               \/ Server!DrainDone(s) \/ Server!CleanupSelect(s) \/ Server!CleanupRequeue(s)
               \/ Server!CleanupDisconnect(s) \/ Server!CleanupStatus(s),
               UNCHANGED <<runtimeVars, sock, wire, history>>
        PROVE  TypeInv'
    <3>1. Server!TypeOK'
      BY <1>t, <2>7, ServerType
    <3> QED  BY <1>s, <1>t, <2>7, <3>1 DEF WireType, wire, history
  <2> QED  BY <1>1, <2>1, <2>2, <2>3, <2>4, <2>5, <2>6, <2>7 DEF ServerStep, ServerAlone
<1>2. ASSUME NEW t \in Tasks, SubmitStep(t) \/ ServerAlone(Server!SubmitCheck(t)) PROVE TypeInv'
  <2>1. Server!TypeOK'
    BY <1>2, <1>t, ServerType DEF SubmitStep, PushSubmitted, ServerAlone
  <2>2. WireType'
    BY <1>2, <1>t, PushType DEF SubmitStep, PushSubmitted, ServerAlone, WireType, wire, history
  <2> QED  BY <1>2, <1>s, <2>1, <2>2 DEF SubmitStep, PushSubmitted, ServerAlone
<1>3. CASE Sweep \/ Environment
  <2>1. Server!TypeOK'
    BY <1>3, <1>t, ServerType DEF Sweep, Environment, ServerAlone
  <2>2. WireType'
    BY <1>3, <1>t DEF Sweep, Environment, ServerAlone, WireType, wire, history
  <2> QED  BY <1>3, <1>s, <2>1, <2>2 DEF Sweep, Environment, ServerAlone
<1>4. ASSUME NEW r \in Runners \cup {Drain}, RunStep(r) PROVE TypeInv'
  <2>1. Runtime!TypeOK' /\ RunsAssigned'
    BY <1>4, <1>t, RuntimeType DEF RunStep, SendAck, SendAnswer, Err, SendFailure, SendFailureAs, RuntimeAlone
  <2>2. at[r] # "free" => task[r] \in Tasks
    BY <1>t DEF RunsAssigned, Runtime!Runs
  <2>3. WireType'
    <3>1. CASE SendAck(r)
      <4>1. Send(About("ack", task[r])) /\ task[r] \in Tasks
        BY <2>2, <3>1 DEF SendAck, Runtime!Ack
      <4> QED  BY <1>t, <3>1, <4>1, Frames, SendType DEF SendAck, WireType, history
    <3>2. CASE SendAnswer(r)
      <4>1. Send(About("complete", task[r])) /\ task[r] \in Tasks
        BY <2>2, <3>2 DEF SendAnswer, Runtime!CallSucceeds
      <4> QED  BY <1>t, <3>2, <4>1, Frames, SendType DEF SendAnswer, WireType
    <3>3. CASE Err(r)
      <4>1. task[r] \in Tasks
        BY <2>2, <3>3 DEF Err, Runtime!CallFails
      <4> QED  BY <1>t, <3>3, <4>1 DEF Err, WireType, wire
    <3>4. CASE SendFailure(r)
      <4>1. Send(About("failed", task[r])) /\ task[r] \in Tasks
        BY <2>2, <3>4 DEF SendFailure, SendFailureAs, Runtime!Requeue
      <4> QED  BY <1>t, <3>4, <4>1, Frames, SendType DEF SendFailure, SendFailureAs, WireType, history
    <3>5. CASE UNCHANGED <<serverVars, sock, wire, history>>
      BY <1>t, <3>5 DEF WireType, wire, history
    <3> QED  BY <1>4, <3>1, <3>2, <3>3, <3>4, <3>5 DEF RunStep, RuntimeAlone
  <2> QED
    BY <1>4, <1>r, <2>1, <2>3 DEF RunStep, SendAck, SendAnswer, Err, SendFailure, SendFailureAs, RuntimeAlone
<1>5. CASE LoopStep
  <2>1. Runtime!TypeOK' /\ RunsAssigned'
    BY <1>5, <1>t, RuntimeType
       DEF LoopStep, Dial, ReadRegistered, RegisterFails, NoticeLoss, ReceiveEnds, ReadPush, RuntimeAlone
  <2>2. Server!TypeOK'
    <3>1. ASSUME NEW s \in Sockets, Dial(s) PROVE Server!TypeOK'
      BY <1>t, <3>1, ServerType DEF Dial
    <3>2. CASE RegisterFails
      <4>1. CASE UNCHANGED serverVars
        BY <1>t, <4>1, ServerType
      <4>2. CASE Server!LinkClosed(sock)
        BY <1>t, <4>2
           DEF Server!LinkClosed, Server!TypeOK, Server!taskDB, Server!agentDB, Server!table,
               Server!handler, Server!request, Server!beats, Server!bounds, Server!net
      <4> QED  BY <3>2, <4>1, <4>2 DEF RegisterFails
    <3> QED
      BY <1>5, <1>t, <3>1, <3>2, ServerType
         DEF LoopStep, ReadRegistered, NoticeLoss, ReceiveEnds, ReadPush, RuntimeAlone
  <2>3. WireType'
    <3>1. ASSUME NEW s \in Sockets, Dial(s) PROVE WireType'
      BY <1>t, <3>1, Frames DEF Dial, WireType, history
    <3>2. CASE ReadRegistered
      BY <1>t, <3>2, ReadType DEF ReadRegistered, Arrived, WireType, history
    <3>3. CASE RegisterFails \/ ReceiveEnds
      <4>1. /\ toAgent' = [toAgent EXCEPT ![sock] = <<>>]
            /\ UNCHANGED <<sock, toServer, history>>
        BY <3>3 DEF RegisterFails, ReceiveEnds, history
      <4>2. <<>> \in Seq(Frame)
        OBVIOUS
      <4> QED  BY <1>t, <4>1, <4>2 DEF WireType, history
    <3>4. ASSUME NEW t \in Tasks, ReadPush(t) PROVE WireType'
      BY <1>t, <3>4, ReadType DEF ReadPush, Arrived, WireType, history
    <3>5. CASE UNCHANGED <<serverVars, sock, wire, history>>
      BY <1>t, <3>5 DEF WireType, wire, history
    <3> QED  BY <1>5, <3>1, <3>2, <3>3, <3>4, <3>5 DEF LoopStep, NoticeLoss, RuntimeAlone
  <2> QED  BY <2>1, <2>2, <2>3 DEF TypeInv, TypeOK, WireType
<1>6. CASE UNCHANGED vars
  BY <1>6, <1>s, <1>t, ServerType DEF vars, wire, history, WireType
<1> QED
  BY <1>1, <1>2, <1>3, <1>4, <1>5, <1>6 DEF Next, Steps, Request
\* Where the two sides start.
LEMMA TypeInit == Init => TypeInv
<1> SUFFICES ASSUME Init PROVE TypeInv
  OBVIOUS
<1>1. Server!TypeOK
  BY DEF Init, Server!Init, Server!TypeOK, Server!Statuses, Server!HandlerPCs
<1>2. Runtime!TypeOK
  <2>1. main = "dial" /\ running = TRUE /\ up = FALSE /\ todo = {} /\ cancelled = {} /\ queue = {}
        /\ failures = 0 /\ open = FALSE /\ owed = {}
    BY DEF Init, Runtime!Init
  <2>2. /\ task = [r \in Runtime!Runs |-> None] /\ at = [r \in Runtime!Runs |-> "free"]
        /\ tracked = [t \in Tasks |-> None]
    BY DEF Init, Runtime!Init
  <2>3. /\ task \in [Runtime!Runs -> Tasks \cup {None}] /\ at \in [Runtime!Runs -> Runtime!Stages]
        /\ tracked \in [Tasks -> Runners \cup {None}]
    BY <2>2 DEF Runtime!Stages
  <2>4. running \in BOOLEAN /\ up \in BOOLEAN /\ open \in BOOLEAN
    BY <2>1
  <2>5. failures \in Nat /\ 0 \in 0..0
    BY <2>1
  <2> QED  BY <2>1, <2>3, <2>4, <2>5 DEF Runtime!TypeOK
<1>3. RunsAssigned
  BY DEF Init, Runtime!Init, RunsAssigned
<1>4. WireType
  BY DEF Init, WireType
<1> QED  BY <1>1, <1>2, <1>3, <1>4 DEF TypeInv, TypeOK, WireType

\* The types of the two sides and of the wire hold in every state of the composition.
THEOREM SystemTypeCorrect == Spec => []TypeOK
<1>1. TypeInv => TypeOK
  BY DEF TypeInv
<1> QED  BY <1>1, TypeInit, TypeStep, PTL DEF Spec
-----------------------------------------------------------------------------
(* What is recorded is what the model did.                                 *)

\* The frames that claim no more than what the model has done.
RealFrames ==
    {f \in Frame : /\ f.kind = "complete" => f.task \in answered
                   /\ f.kind = "failed" => f.task \in erred}

Honest    == \A s \in Sockets : toServer[s] \in Seq(RealFrames)
ErredRuns == \A r \in Runtime!Runs : at[r] = "failed" => task[r] \in erred

\* Whatever is on its way on a connection, old or new, is as real as what is recorded,
\* and so is what a run is about to report.
RecordInv == RecordedIsReal /\ Honest /\ ErredRuns

\* What the model did, it did: the history only grows, and with it what may be said.
LEMMA HistoryGrows ==
  ASSUME [Next]_vars
  PROVE  answered \subseteq answered' /\ erred \subseteq erred'
BY DEF Next, Steps, Request, Environment, vars, history, ServerStep, SubmitStep, Sweep, RunStep,
       LoopStep, ServerAlone, RuntimeAlone, ReadRegister, SendRegistered, PushPending, PushSubmitted,
       ReadAck, ReadResult, Hangup, Dial, ReadRegistered, RegisterFails, ReadPush, NoticeLoss,
       ReceiveEnds, SendAck, SendAnswer, Err, SendFailure, SendFailureAs

LEMMA MoreIsReal ==
  ASSUME answered \subseteq answered', erred \subseteq erred'
  PROVE  RealFrames \subseteq RealFrames' /\ Seq(RealFrames) \subseteq Seq(RealFrames')
<1>1. RealFrames \subseteq RealFrames'
  BY DEF RealFrames
<1>2. ASSUME NEW q \in Seq(RealFrames) PROVE q \in Seq(RealFrames')
  BY <1>1
<1> QED  BY <1>1, <1>2

\* Only the handler of a result records one.
LEMMA QuietStep ==
  ASSUME Server!TypeOK,
         \/ \E s \in Sockets :
              \/ Server!RegisterLookup(s) \/ Server!RegisterConnect(s) \/ Server!RegisterStatus(s)
              \/ Server!RegisterAck(s) \/ Server!DrainClaim(s) \/ Server!DrainPush(s)
              \/ Server!DrainDone(s) \/ Server!Hangup(s) \/ Server!CleanupSelect(s)
              \/ Server!CleanupRequeue(s) \/ Server!CleanupDisconnect(s) \/ Server!CleanupStatus(s)
              \/ Server!PeerLost(s) \/ Server!LinkClosed(s) \/ Server!Connect(s, agent)
              \/ \E t \in Tasks : Server!TaskAck(s, t)
         \/ \E t \in Tasks :
              \/ Server!SubmitCheck(t) \/ Server!SubmitInsert(t) \/ Server!SubmitClaim(t)
              \/ Server!SubmitSend(t) \/ Server!SubmitRevert(t) \/ Server!TaskOverdue(t)
         \/ Server!TimeoutSweep \/ Server!LinkClosed(sock)
         \/ UNCHANGED serverVars
  PROVE  \A t \in Tasks : status'[t] \in {"complete", "failed"} => status'[t] = status[t]
<1>t. status \in [Tasks -> Server!Statuses]
  BY DEF Server!TypeOK
<1> DEFINE Quiet == \A t \in Tasks : status'[t] \in {"complete", "failed"} => status'[t] = status[t]
<1>1. ASSUME NEW s \in Sockets, Server!DrainClaim(s) PROVE Quiet
  BY <1>1, <1>t DEF Server!DrainClaim, Server!Claim
<1>2. ASSUME NEW s \in Sockets, Server!CleanupRequeue(s) PROVE Quiet
  BY <1>2, <1>t DEF Server!CleanupRequeue, Server!Settle, Server!BackToPending, Server!taskDB
<1>3. ASSUME NEW s \in Sockets, NEW t \in Tasks, Server!TaskAck(s, t) PROVE Quiet
  BY <1>3, <1>t DEF Server!TaskAck, Server!Settle
<1>4. ASSUME NEW t \in Tasks, Server!SubmitInsert(t) PROVE Quiet
  BY <1>4, <1>t DEF Server!SubmitInsert
<1>5. ASSUME NEW t \in Tasks, Server!SubmitClaim(t) PROVE Quiet
  BY <1>5, <1>t DEF Server!SubmitClaim, Server!Claim, Server!taskDB
<1>6. ASSUME NEW t \in Tasks, Server!SubmitRevert(t) PROVE Quiet
  BY <1>6, <1>t DEF Server!SubmitRevert, Server!BackToPending, Server!taskDB
<1>7. CASE Server!TimeoutSweep
  BY <1>7, <1>t DEF Server!TimeoutSweep, Server!Settle
<1>8. ASSUME NEW t \in Tasks, Server!SubmitCheck(t) \/ Server!SubmitSend(t) \/ Server!TaskOverdue(t)
      PROVE  Quiet
  <2>1. status' = status
    BY <1>8 DEF Server!SubmitCheck, Server!SubmitSend, Server!TaskOverdue, Server!taskDB
  <2> QED  BY <2>1
<1>9. ASSUME NEW s \in Sockets,
             \/ Server!RegisterLookup(s) \/ Server!RegisterConnect(s) \/ Server!RegisterStatus(s)
             \/ Server!RegisterAck(s) \/ Server!DrainPush(s) \/ Server!DrainDone(s)
             \/ Server!Hangup(s) \/ Server!CleanupSelect(s) \/ Server!CleanupDisconnect(s)
             \/ Server!CleanupStatus(s) \/ Server!PeerLost(s) \/ Server!LinkClosed(s)
             \/ Server!Connect(s, agent)
      PROVE  Quiet
  <2>1. status' = status
    BY <1>9 DEF Server!RegisterLookup, Server!RegisterConnect, Server!RegisterStatus,
       Server!RegisterAck, Server!DrainPush, Server!DrainDone, Server!Hangup, Server!CleanupSelect,
       Server!CleanupDisconnect, Server!CleanupStatus, Server!PeerLost, Server!LinkClosed,
       Server!Connect, Server!taskDB
  <2> QED  BY <2>1
<1>10. CASE Server!LinkClosed(sock) \/ UNCHANGED serverVars
  <2>1. status' = status
    BY <1>10 DEF Server!LinkClosed, Server!taskDB, serverVars
  <2> QED  BY <2>1
<1> HIDE DEF Quiet
<1>11. ASSUME NEW s \in Sockets,
              \/ Server!RegisterLookup(s) \/ Server!RegisterConnect(s) \/ Server!RegisterStatus(s)
              \/ Server!RegisterAck(s) \/ Server!DrainClaim(s) \/ Server!DrainPush(s)
              \/ Server!DrainDone(s) \/ Server!Hangup(s) \/ Server!CleanupSelect(s)
              \/ Server!CleanupRequeue(s) \/ Server!CleanupDisconnect(s) \/ Server!CleanupStatus(s)
              \/ Server!PeerLost(s) \/ Server!LinkClosed(s) \/ Server!Connect(s, agent)
              \/ \E t \in Tasks : Server!TaskAck(s, t)
       PROVE  Quiet
  BY <1>1, <1>2, <1>3, <1>9, <1>11
<1>12. ASSUME NEW t \in Tasks,
              \/ Server!SubmitCheck(t) \/ Server!SubmitInsert(t) \/ Server!SubmitClaim(t)
              \/ Server!SubmitSend(t) \/ Server!SubmitRevert(t) \/ Server!TaskOverdue(t)
       PROVE  Quiet
  BY <1>4, <1>5, <1>6, <1>8, <1>12
<1>q. Quiet
  BY <1>7, <1>10, <1>11, <1>12 DEF Quiet
<1> QED  BY <1>q DEF Quiet
\* A step of the composition that reads no result is quiet.
LEMMA Recorded ==
  ASSUME TypeInv, RecordInv, [Next]_vars
  PROVE  RecordedIsReal'
<1>t. Server!TypeOK
  BY DEF TypeInv, TypeOK
<1>g. answered \subseteq answered' /\ erred \subseteq erred'
  BY HistoryGrows
<1>q. ASSUME \A t \in Tasks : status'[t] \in {"complete", "failed"} => status'[t] = status[t]
      PROVE  RecordedIsReal'
  BY <1>g, <1>q DEF RecordInv, RecordedIsReal
<1>u. ASSUME UNCHANGED serverVars PROVE RecordedIsReal'
  BY <1>q, <1>t, <1>u, QuietStep
<1>1. ASSUME NEW s \in Sockets, NEW t \in Tasks, NEW final \in {"complete", "failed"},
             ReadResult(s, t, final)
      PROVE  RecordedIsReal'
  <2>1. CASE status[t] # "running"
    BY <1>1, <1>u, <2>1 DEF ReadResult
  <2>2. CASE status[t] = "running"
    <3>1. About(final, t) \in RealFrames
      <4>1. toServer[s] \in Seq(RealFrames)
        BY DEF RecordInv, Honest
      <4>2. toServer[s] # <<>> /\ Head(toServer[s]) = About(final, t)
        BY <1>1 DEF ReadResult, Arrived
      <4> QED  BY <4>1, <4>2
    <3>2. (final = "complete" => t \in answered) /\ (final = "failed" => t \in erred)
      BY <3>1 DEF RealFrames, About
    <3>3. status' = [x \in Tasks |-> IF x \in {t} THEN final ELSE status[x]]
      BY <1>1, <2>2 DEF ReadResult, Server!TaskResult, Server!Settle
    <3> QED  BY <1>g, <3>2, <3>3 DEF RecordInv, RecordedIsReal
  <2> QED  BY <2>1, <2>2
<1>2. ASSUME NEW s \in Sockets, NEW t \in Tasks, ReadAck(s, t) PROVE RecordedIsReal'
  BY <1>2, <1>q, <1>t, QuietStep DEF ReadAck
<1>3. ASSUME NEW s \in Sockets, ReadRegister(s) \/ SendRegistered(s) \/ PushPending(s) \/ Hangup(s)
      PROVE  RecordedIsReal'
  BY <1>3, <1>q, <1>t, QuietStep DEF ReadRegister, SendRegistered, PushPending, Hangup
<1>4. ASSUME NEW s \in Sockets,
             \/ Server!RegisterConnect(s) \/ Server!RegisterStatus(s) \/ Server!DrainClaim(s)
             \/ Server!DrainDone(s) \/ Server!CleanupSelect(s) \/ Server!CleanupRequeue(s)
             \/ Server!CleanupDisconnect(s) \/ Server!CleanupStatus(s)
      PROVE  RecordedIsReal'
  BY <1>4, <1>q, <1>t, QuietStep
<1>5. ASSUME NEW s \in Sockets, ServerStep(s) PROVE RecordedIsReal'
  BY <1>1, <1>2, <1>3, <1>4, <1>5 DEF ServerStep, ServerAlone
<1>6. ASSUME NEW t \in Tasks, SubmitStep(t) \/ ServerAlone(Server!SubmitCheck(t))
      PROVE  RecordedIsReal'
  BY <1>6, <1>q, <1>t, QuietStep DEF SubmitStep, PushSubmitted, ServerAlone
<1>7. CASE Sweep \/ Environment
  BY <1>7, <1>q, <1>t, QuietStep DEF Sweep, Environment, ServerAlone
<1>8. ASSUME NEW r \in Runners \cup {Drain}, RunStep(r) PROVE RecordedIsReal'
  BY <1>8, <1>u
     DEF RunStep, SendAck, SendAnswer, Err, SendFailure, SendFailureAs, RuntimeAlone
<1>9. CASE LoopStep
  <2>1. ASSUME NEW s \in Sockets, Dial(s) PROVE RecordedIsReal'
    BY <1>q, <1>t, <2>1, QuietStep DEF Dial
  <2>2. CASE RegisterFails
    BY <1>q, <1>t, <1>u, <2>2, QuietStep DEF RegisterFails
  <2> QED
    BY <1>9, <1>u, <2>1, <2>2
       DEF LoopStep, ReadRegistered, ReadPush, NoticeLoss, ReceiveEnds, RuntimeAlone
<1>10. CASE UNCHANGED vars
  BY <1>10, <1>u DEF vars
<1> QED
  BY <1>5, <1>6, <1>7, <1>8, <1>9, <1>10 DEF Next, Steps, Request

\* A failure is reported by a run whose model failed.
LEMMA ErredKept ==
  ASSUME TypeInv, RecordInv, [Next]_vars
  PROVE  ErredRuns'
<1>t. at \in [Runtime!Runs -> Runtime!Stages] /\ task \in [Runtime!Runs -> Tasks \cup {None}]
  BY DEF TypeInv, TypeOK, Runtime!TypeOK
<1>g. erred \subseteq erred'
  BY HistoryGrows
<1>e. ErredRuns
  BY DEF RecordInv
<1>k. ASSUME \A r \in Runtime!Runs : at'[r] = "failed" => at[r] = "failed" /\ task'[r] = task[r]
      PROVE  ErredRuns'
  BY <1>g, <1>e, <1>k DEF ErredRuns
<1>u. ASSUME UNCHANGED <<at, task>> PROVE ErredRuns'
  BY <1>k, <1>u
<1>1. ASSUME NEW s \in Sockets, ServerStep(s) PROVE ErredRuns'
  <2>1. UNCHANGED runtimeVars
    BY <1>1 DEF ServerStep, ServerAlone, ReadRegister, SendRegistered, PushPending, Hangup, ReadAck,
                ReadResult
  <2> QED  BY <1>u, <2>1 DEF runtimeVars
<1>2. ASSUME NEW t \in Tasks, SubmitStep(t) \/ ServerAlone(Server!SubmitCheck(t)) PROVE ErredRuns'
  BY <1>2, <1>u DEF SubmitStep, PushSubmitted, ServerAlone, runtimeVars
<1>3. CASE Sweep \/ Environment
  BY <1>3, <1>u DEF Sweep, Environment, ServerAlone, runtimeVars
<1>4. ASSUME NEW r \in Runners \cup {Drain}, RunStep(r) PROVE ErredRuns'
  <2>1. CASE Err(r)
    BY <1>e, <1>t, <2>1 DEF Err, Runtime!CallFails, Runtime!Go, ErredRuns
  <2>2. CASE SendAck(r) \/ SendAnswer(r)
    BY <1>k, <1>t, <2>2
       DEF SendAck, SendAnswer, Runtime!Ack, Runtime!CallSucceeds, Runtime!Go
  <2>3. CASE SendFailure(r) \/ Runtime!Shelve(r)
    BY <1>k, <1>t, <2>3
       DEF SendFailure, SendFailureAs, Runtime!Requeue, Runtime!Shelve, Runtime!End
  <2>4. CASE Runtime!Check(r)
    BY <1>k, <1>t, <2>4 DEF Runtime!Check, Runtime!Go, Runtime!End
  <2>5. CASE Runtime!RecordSuccess(r) \/ Runtime!MarkComplete(r)
    BY <1>k, <1>t, <2>5
       DEF Runtime!RecordSuccess, Runtime!MarkComplete, Runtime!Go, Runtime!End
  <2> QED  BY <1>4, <2>1, <2>2, <2>3, <2>4, <2>5 DEF RunStep, RuntimeAlone
<1>5. CASE LoopStep
  <2>1. ASSUME NEW t \in Tasks, ReadPush(t) PROVE ErredRuns'
    BY <1>k, <1>t, <2>1 DEF ReadPush, Runtime!Push
  <2>2. CASE Runtime!DrainNext
    BY <1>k, <1>t, <2>2 DEF Runtime!DrainNext
  <2>3. ASSUME NEW s \in Sockets, Dial(s) PROVE ErredRuns'
    BY <1>u, <2>3 DEF Dial, Runtime!DialSucceeds, Runtime!runs
  <2>4. CASE ReadRegistered \/ RegisterFails \/ ReceiveEnds
    BY <1>u, <2>4
       DEF ReadRegistered, RegisterFails, ReceiveEnds, Runtime!Registered, Runtime!RegisterFails,
           Runtime!ReceiveEnds, Runtime!runs
  <2>5. CASE Runtime!ConnectionLost \/ Runtime!DrainDone \/ Runtime!BackoffEnds
    BY <1>u, <2>5 DEF Runtime!ConnectionLost, Runtime!DrainDone, Runtime!BackoffEnds, Runtime!runs
  <2> QED  BY <1>5, <2>1, <2>2, <2>3, <2>4, <2>5 DEF LoopStep, NoticeLoss, RuntimeAlone
<1>6. CASE UNCHANGED vars
  BY <1>6, <1>u DEF vars, runtimeVars
<1> QED  BY <1>1, <1>2, <1>3, <1>4, <1>5, <1>6 DEF Next, Steps, Request
\* What is on its way stays real: what is read is taken off the front, and what is sent is
\* a register frame, an ack, the answer just given or the failure of a run that failed.
LEMMA HonestKept ==
  ASSUME TypeInv, RecordInv, [Next]_vars
  PROVE  Honest'
<1>t. toServer \in [Sockets -> Seq(Frame)]
  BY DEF TypeInv, TypeOK
<1>r. Runtime!Runs = Runners \cup {Drain}
  BY DEF Runtime!Runs
<1>m. RealFrames \subseteq RealFrames' /\ Seq(RealFrames) \subseteq Seq(RealFrames')
  BY HistoryGrows, MoreIsReal
<1>h. \A s \in Sockets : toServer[s] \in Seq(RealFrames')
  BY <1>m DEF RecordInv, Honest
<1>u. ASSUME UNCHANGED toServer PROVE Honest'
  BY <1>h, <1>u DEF Honest
<1>d. ASSUME NEW s \in Sockets, toServer[s] # <<>>, toServer' = Read(s, toServer) PROVE Honest'
  <2>1. Tail(toServer[s]) \in Seq(RealFrames')
    BY <1>h, <1>d
  <2> QED  BY <1>d, <1>h, <1>t, <2>1 DEF Honest, Read
<1>s. ASSUME NEW f \in RealFrames', Send(f) PROVE Honest'
  <2>1. \A s \in Sockets : Append(toServer[s], f) \in Seq(RealFrames')
    BY <1>h, <1>s
  <2> QED  BY <1>h, <1>s, <1>t, <2>1 DEF Honest, Send
<1>1. ASSUME NEW s \in Sockets, ServerStep(s) PROVE Honest'
  <2>1. CASE ReadRegister(s)
    BY <1>d, <2>1 DEF ReadRegister, Arrived
  <2>2. ASSUME NEW t \in Tasks, ReadAck(s, t) PROVE Honest'
    BY <1>d, <2>2 DEF ReadAck, Arrived
  <2>3. ASSUME NEW t \in Tasks, NEW final \in {"complete", "failed"}, ReadResult(s, t, final)
        PROVE  Honest'
    BY <1>d, <2>3 DEF ReadResult, Arrived
  <2>4. CASE Hangup(s)
    <3>1. <<>> \in Seq(RealFrames')
      OBVIOUS
    <3> QED  BY <1>h, <1>t, <2>4, <3>1 DEF Hangup, Honest
  <2>5. CASE UNCHANGED toServer
    BY <1>u, <2>5
  <2> QED
    BY <1>1, <2>1, <2>2, <2>3, <2>4, <2>5 DEF ServerStep, ServerAlone, SendRegistered, PushPending, wire
<1>2. ASSUME NEW t \in Tasks, SubmitStep(t) \/ ServerAlone(Server!SubmitCheck(t)) PROVE Honest'
  BY <1>2, <1>u DEF SubmitStep, PushSubmitted, ServerAlone, wire
<1>3. CASE Sweep \/ Environment
  BY <1>3, <1>u DEF Sweep, Environment, ServerAlone, wire
<1>4. ASSUME NEW r \in Runners \cup {Drain}, RunStep(r) PROVE Honest'
  <2>1. at[r] # "free" => task[r] \in Tasks
    BY <1>r DEF TypeInv, RunsAssigned
  <2>2. CASE SendAck(r)
    <3>1. Send(About("ack", task[r])) /\ task[r] \in Tasks
      BY <2>1, <2>2 DEF SendAck, Runtime!Ack
    <3>2. About("ack", task[r]) \in RealFrames'
      BY <3>1, Frames DEF RealFrames, About
    <3> QED  BY <1>s, <3>1, <3>2
  <2>3. CASE SendAnswer(r)
    <3>1. /\ Send(About("complete", task[r])) /\ task[r] \in Tasks
          /\ answered' = answered \cup {task[r]}
      BY <2>1, <2>3 DEF SendAnswer, Runtime!CallSucceeds
    <3>2. About("complete", task[r]) \in {f \in Frame : /\ f.kind = "complete" => f.task \in answered'
                                                        /\ f.kind = "failed" => f.task \in erred'}
      BY <3>1, Frames DEF About
    <3> QED  BY <1>s, <3>1, <3>2 DEF RealFrames
  <2>4. CASE SendFailure(r)
    <3>1. Send(About("failed", task[r])) /\ task[r] \in Tasks /\ task[r] \in erred
      BY <1>r, <2>1, <2>4 DEF SendFailure, SendFailureAs, Runtime!Requeue, RecordInv, ErredRuns
    <3>2. About("failed", task[r]) \in RealFrames
      BY <3>1, Frames DEF RealFrames, About
    <3> QED  BY <1>m, <1>s, <3>1, <3>2
  <2>5. CASE UNCHANGED toServer
    BY <1>u, <2>5
  <2> QED  BY <1>4, <2>2, <2>3, <2>4, <2>5 DEF RunStep, Err, RuntimeAlone, wire
<1>5. CASE LoopStep
  <2>1. ASSUME NEW s \in Sockets, Dial(s) PROVE Honest'
    <3>1. [kind |-> "register"] \in RealFrames'
      BY DEF RealFrames, Frame
    <3>2. <<[kind |-> "register"]>> \in Seq(RealFrames')
      BY <3>1
    <3> QED  BY <1>h, <1>t, <2>1, <3>2 DEF Dial, Honest
  <2>2. CASE UNCHANGED toServer
    BY <1>u, <2>2
  <2> QED
    BY <1>5, <2>1, <2>2
       DEF LoopStep, ReadRegistered, RegisterFails, ReadPush, NoticeLoss, ReceiveEnds, RuntimeAlone, wire
<1>6. CASE UNCHANGED vars
  BY <1>6, <1>u DEF vars, wire
<1> QED  BY <1>1, <1>2, <1>3, <1>4, <1>5, <1>6 DEF Next, Steps, Request

\* A task recorded as complete was answered by the model, and one recorded as failed is one
\* the model failed on: whichever run reported it, on whichever connection, and whatever
\* was lost, timed out or sent again in between.
THEOREM RecordsAreReal == Spec => []RecordedIsReal
<1>1. Init => RecordInv
  <2> SUFFICES ASSUME Init PROVE RecordInv
    OBVIOUS
  <2>1. RecordedIsReal
    BY DEF Init, Server!Init, RecordedIsReal
  <2>2. ErredRuns
    BY DEF Init, Runtime!Init, ErredRuns
  <2>3. Honest
    <3>1. <<>> \in Seq(RealFrames)
      OBVIOUS
    <3> QED  BY <3>1 DEF Init, Honest
  <2> QED  BY <2>1, <2>2, <2>3 DEF RecordInv
<1>2. TypeInv /\ RecordInv /\ [Next]_vars => RecordInv'
  BY Recorded, HonestKept, ErredKept DEF RecordInv
<1>3. RecordInv => RecordedIsReal
  BY DEF RecordInv
<1> QED  BY <1>1, <1>2, <1>3, TypeInit, TypeStep, PTL DEF Spec
=============================================================================
