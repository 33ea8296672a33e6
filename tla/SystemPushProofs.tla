-------------------------- MODULE SystemPushProofs --------------------------
(***************************************************************************)
(* Theorems about System: a push that went out on a live connection is not *)
(* forgotten while its task is in flight, and the composition is one of    *)
(* the orchestrator and of the runtime as their own modules describe them. *)
(***************************************************************************)
EXTENDS SystemProofs

\* The handlers that have not begun to close.
Open       == {"accepted", "reg_connect", "reg_status", "reg_ack", "reg_drain", "reg_push", "serving"}
Registered(s) == pc[s] \notin {"free", "accepted", "reg_connect"}

\* Only the runtime's present connection is live, and its handler has not begun to close;
\* every handler is one of the agent's.
LinkInv ==
    /\ \A s \in Sockets : link[s] = "up" => sock = s /\ up /\ pc[s] \in Open
    /\ \A s \in Sockets : pc[s] # "free" => peer[s] = agent
    /\ up => sock \in Sockets /\ main \in {"registering", "draining", "receiving"}

\* Pushes go to handlers that have registered.
EntryInv ==
    /\ conns[agent] # None => Registered(conns[agent])
    /\ \A t \in Tasks : pushedOn[t] # None => Registered(pushedOn[t])

\* The runtime reads no push before it has drained its queue.
DrainInv  == at[Drain] # "free" => main = "draining"
UnreadInv ==
    \A s \in Sockets, t \in Tasks :
        pushedOn[t] = s /\ link[s] = "up" /\ main \in {"registering", "draining"} => Unread(s, t)

WireInv == LinkInv /\ EntryInv /\ DrainInv /\ UnreadInv

\* LinkInv, over the steps of the orchestrator and over those of the runtime.
LEMMA LinkStep == TypeInv /\ LinkInv /\ [Next]_vars => LinkInv'
<1> SUFFICES ASSUME TypeInv, LinkInv, [Next]_vars PROVE LinkInv'
  OBVIOUS
<1>t. /\ pc \in [Sockets -> Server!HandlerPCs]
      /\ link \in [Sockets -> {"none", "up", "silent", "closed"}]
      /\ peer \in [Sockets -> {agent} \cup {None}]
      /\ sock \in Sockets \cup {None}
  BY DEF TypeInv, TypeOK, Server!TypeOK
<1>k. ASSUME UNCHANGED <<pc, link, peer, sock, up, main>> PROVE LinkInv'
  BY <1>k DEF LinkInv, Open
<1>p. ASSUME UNCHANGED <<link, peer, sock, up, main>>, NEW x \in Sockets, NEW label,
             pc' = [pc EXCEPT ![x] = label], label # "free", pc[x] # "free",
             label \in Open \/ link[x] # "up"
      PROVE  LinkInv'
  BY <1>p, <1>t DEF LinkInv, Open
<1>l. ASSUME UNCHANGED <<pc, peer, sock, up, main>>, \A x \in Sockets : link'[x] = "up" => link[x] = "up"
      PROVE  LinkInv'
  BY <1>l, <1>t DEF LinkInv, Open
<1>1. ASSUME NEW x \in Sockets, ServerStep(x) PROVE LinkInv'
  <2> USE DEF Server!Goto, Server!net, serverVars, runtimeVars, Server!handler, Open
  <2>1. CASE ReadRegister(x)
    BY <1>p, <2>1 DEF ReadRegister, Server!RegisterLookup
  <2>2. CASE SendRegistered(x)
    BY <1>p, <2>2 DEF SendRegistered, Server!RegisterAck
  <2>3. CASE PushPending(x)
    BY <1>k, <2>3 DEF PushPending, Server!DrainPush, Server!Push
  <2>4. CASE Hangup(x)
    BY <1>p, <2>4 DEF Hangup, Server!Hangup
  <2>5. ASSUME NEW t \in Tasks,
               ReadAck(x, t) \/ \E final \in {"complete", "failed"} : ReadResult(x, t, final)
        PROVE  LinkInv'
    BY <1>k, <2>5 DEF ReadAck, ReadResult, Server!TaskAck, Server!TaskResult
  <2>6. CASE ServerAlone(Server!RegisterConnect(x)) \/ ServerAlone(Server!RegisterStatus(x))
    BY <1>p, <2>6 DEF ServerAlone, Server!RegisterConnect, Server!RegisterStatus
  <2>7. CASE ServerAlone(Server!DrainClaim(x)) \/ ServerAlone(Server!DrainDone(x))
    BY <1>p, <2>7 DEF ServerAlone, Server!DrainClaim, Server!DrainDone
  <2>8. CASE ServerAlone(Server!CleanupSelect(x)) \/ ServerAlone(Server!CleanupDisconnect(x))
    BY <1>p, <2>8 DEF ServerAlone, Server!CleanupSelect, Server!CleanupDisconnect, LinkInv
  <2>9. CASE ServerAlone(Server!CleanupRequeue(x))
    BY <1>k, <2>9 DEF ServerAlone, Server!CleanupRequeue
  <2>10. CASE ServerAlone(Server!CleanupStatus(x))
    <3>1. /\ pc' = [pc EXCEPT ![x] = "done"] /\ pc[x] = "cl_status"
          /\ link' = [link EXCEPT ![x] = "closed"]
          /\ UNCHANGED <<peer, sock, up, main>>
      BY <2>10 DEF ServerAlone, Server!CleanupStatus
    <3> QED  BY <1>t, <3>1 DEF LinkInv
  <2> QED
    BY <1>1, <2>1, <2>2, <2>3, <2>4, <2>5, <2>6, <2>7, <2>8, <2>9, <2>10 DEF ServerStep
<1>2. ASSUME NEW t \in Tasks, SubmitStep(t) \/ ServerAlone(Server!SubmitCheck(t)) PROVE LinkInv'
  BY <1>k, <1>2
     DEF SubmitStep, PushSubmitted, ServerAlone, Server!SubmitCheck, Server!SubmitInsert,
         Server!SubmitClaim, Server!SubmitSend, Server!SubmitRevert, Server!Push,
         Server!net, Server!handler, runtimeVars
<1>3. CASE Sweep
  BY <1>k, <1>3 DEF Sweep, ServerAlone, Server!TimeoutSweep, Server!net, Server!handler, runtimeVars
<1>4. CASE Environment
  <2>1. ASSUME NEW x \in Sockets, ServerAlone(Server!PeerLost(x) \/ Server!LinkClosed(x)) PROVE LinkInv'
    BY <1>l, <1>t, <2>1
       DEF ServerAlone, Server!PeerLost, Server!LinkClosed, Server!handler, runtimeVars
  <2>2. ASSUME NEW t \in Tasks, ServerAlone(Server!TaskOverdue(t)) PROVE LinkInv'
    BY <1>k, <2>2 DEF ServerAlone, Server!TaskOverdue, Server!net, Server!handler, runtimeVars
  <2> QED  BY <1>4, <2>1, <2>2 DEF Environment
<1>5. ASSUME NEW r \in Runners \cup {Drain}, RunStep(r) PROVE LinkInv'
  <2>1. UNCHANGED <<pc, link, peer, sock, up, main>>
    BY <1>5
       DEF RunStep, SendAck, SendAnswer, Err, SendFailure, SendFailureAs, RuntimeAlone, serverVars,
           Runtime!Ack, Runtime!CallSucceeds, Runtime!CallFails, Runtime!Requeue, Runtime!Check,
           Runtime!Shelve, Runtime!RecordSuccess, Runtime!MarkComplete, Runtime!loop
  <2> QED  BY <1>k, <2>1
<1>6. CASE LoopStep
  <2>1. ASSUME NEW s \in Sockets, Dial(s) PROVE LinkInv'
    <3>1. /\ main = "dial" /\ main' = "registering" /\ up' = TRUE /\ sock' = s
          /\ peer' = [peer EXCEPT ![s] = agent] /\ link' = [link EXCEPT ![s] = "up"]
          /\ pc' = [pc EXCEPT ![s] = "accepted"]
      BY <2>1 DEF Dial, Runtime!DialSucceeds, Server!Connect, Server!Goto
    <3> QED  BY <1>t, <3>1 DEF LinkInv, Open
  <2>2. CASE ReadRegistered
    <3>1. main' = "draining" /\ UNCHANGED <<pc, link, peer, sock, up>>
      BY <2>2 DEF ReadRegistered, Runtime!Registered, serverVars
    <3> QED  BY <3>1 DEF LinkInv, Open
  <2>3. CASE RegisterFails
    <3>1. up' = FALSE /\ UNCHANGED <<pc, peer, sock>>
      BY <2>3 DEF RegisterFails, Runtime!RegisterFails, Server!LinkClosed, serverVars, Server!handler
    <3>2. ASSUME NEW s \in Sockets PROVE link'[s] # "up"
      <4>1. CASE ~up
        BY <2>3, <4>1 DEF LinkInv, RegisterFails, serverVars
      <4>2. CASE up /\ link[sock] = "closed"
        BY <2>3, <4>2 DEF LinkInv, RegisterFails, serverVars
      <4>3. CASE up /\ link[sock] # "closed"
        BY <1>t, <2>3, <4>3 DEF LinkInv, RegisterFails, Server!LinkClosed
      <4> QED  BY <4>1, <4>2, <4>3
    <3> QED  BY <3>1, <3>2 DEF LinkInv
  <2>4. CASE NoticeLoss
    <3>1. up /\ link[sock] # "up" /\ up' = FALSE /\ UNCHANGED <<pc, link, peer, sock>>
      BY <2>4 DEF NoticeLoss, RuntimeAlone, Runtime!ConnectionLost, serverVars
    <3> QED  BY <3>1 DEF LinkInv
  <2>5. CASE ReceiveEnds \/ RuntimeAlone(Runtime!BackoffEnds)
    <3>1. ~up /\ UNCHANGED <<pc, link, peer, sock, up>>
      BY <2>5 DEF ReceiveEnds, RuntimeAlone, Runtime!ReceiveEnds, Runtime!BackoffEnds, serverVars, LinkInv
    <3> QED  BY <3>1 DEF LinkInv
  <2>6. ASSUME NEW t \in Tasks, ReadPush(t) PROVE LinkInv'
    BY <1>k, <2>6 DEF ReadPush, Runtime!Push, Runtime!loop, serverVars
  <2>7. CASE RuntimeAlone(Runtime!DrainNext)
    BY <1>k, <2>7 DEF RuntimeAlone, Runtime!DrainNext, serverVars
  <2>8. CASE RuntimeAlone(Runtime!DrainDone)
    <3>1. main' = "receiving" /\ UNCHANGED <<pc, link, peer, sock, up>>
      BY <2>8 DEF RuntimeAlone, Runtime!DrainDone, serverVars
    <3> QED  BY <3>1 DEF LinkInv
  <2> QED  BY <1>6, <2>1, <2>2, <2>3, <2>4, <2>5, <2>6, <2>7, <2>8 DEF LoopStep
<1>7. CASE UNCHANGED vars
  BY <1>k, <1>7 DEF vars, serverVars, runtimeVars
<1> QED  BY <1>1, <1>2, <1>3, <1>4, <1>5, <1>6, <1>7 DEF Next, Steps, Request
\* A handler that has registered the agent has done so for good.
LEMMA RegisteredStays ==
  ASSUME TypeInv, [Next]_vars, NEW s \in Sockets, Registered(s)
  PROVE  Registered(s)'
<1>t. pc \in [Sockets -> Server!HandlerPCs]
  BY DEF TypeInv, TypeOK, Server!TypeOK
<1>k. ASSUME UNCHANGED pc PROVE Registered(s)'
  BY <1>k DEF Registered
<1>p. ASSUME NEW x \in Sockets, NEW label, pc' = [pc EXCEPT ![x] = label],
             label \notin {"free", "accepted", "reg_connect"} \/ pc[x] \in {"free", "accepted", "reg_connect"}
      PROVE  Registered(s)'
  BY <1>p, <1>t DEF Registered
<1>1. ASSUME NEW x \in Sockets, ServerStep(x) PROVE Registered(s)'
  <2> USE DEF Server!Goto, serverVars, Server!handler
  <2>1. CASE ReadRegister(x) \/ SendRegistered(x) \/ Hangup(x)
    BY <1>p, <2>1
       DEF ReadRegister, SendRegistered, Hangup, Server!RegisterLookup, Server!RegisterAck, Server!Hangup
  <2>2. CASE PushPending(x)
    BY <1>k, <2>2 DEF PushPending, Server!DrainPush
  <2>3. ASSUME NEW t \in Tasks,
               ReadAck(x, t) \/ \E final \in {"complete", "failed"} : ReadResult(x, t, final)
        PROVE  Registered(s)'
    BY <1>k, <2>3 DEF ReadAck, ReadResult, Server!TaskAck, Server!TaskResult
  <2>4. CASE \/ ServerAlone(Server!RegisterConnect(x)) \/ ServerAlone(Server!RegisterStatus(x))
             \/ ServerAlone(Server!DrainClaim(x)) \/ ServerAlone(Server!DrainDone(x))
    BY <1>p, <2>4
       DEF ServerAlone, Server!RegisterConnect, Server!RegisterStatus, Server!DrainClaim, Server!DrainDone
  <2>5. CASE \/ ServerAlone(Server!CleanupSelect(x)) \/ ServerAlone(Server!CleanupDisconnect(x))
             \/ ServerAlone(Server!CleanupStatus(x))
    BY <1>p, <2>5
       DEF ServerAlone, Server!CleanupSelect, Server!CleanupDisconnect, Server!CleanupStatus
  <2>6. CASE ServerAlone(Server!CleanupRequeue(x))
    BY <1>k, <2>6 DEF ServerAlone, Server!CleanupRequeue
  <2> QED  BY <1>1, <2>1, <2>2, <2>3, <2>4, <2>5, <2>6 DEF ServerStep
<1>2. ASSUME NEW t \in Tasks, SubmitStep(t) \/ ServerAlone(Server!SubmitCheck(t)) PROVE Registered(s)'
  BY <1>k, <1>2
     DEF SubmitStep, PushSubmitted, ServerAlone, Server!SubmitCheck, Server!SubmitInsert,
         Server!SubmitClaim, Server!SubmitSend, Server!SubmitRevert, Server!handler
<1>3. CASE Sweep \/ Environment
  BY <1>k, <1>3
     DEF Sweep, Environment, ServerAlone, Server!TimeoutSweep, Server!PeerLost, Server!LinkClosed,
         Server!TaskOverdue, Server!handler
<1>4. ASSUME NEW r \in Runners \cup {Drain}, RunStep(r) PROVE Registered(s)'
  BY <1>k, <1>4
     DEF RunStep, SendAck, SendAnswer, Err, SendFailure, SendFailureAs, RuntimeAlone, serverVars
<1>5. CASE LoopStep
  <2>1. ASSUME NEW x \in Sockets, Dial(x) PROVE Registered(s)'
    BY <1>p, <2>1 DEF Dial, Server!Connect, Server!Goto
  <2>2. CASE RegisterFails
    BY <1>k, <2>2 DEF RegisterFails, Server!LinkClosed, Server!handler, serverVars
  <2> QED
    BY <1>5, <1>k, <2>1, <2>2
       DEF LoopStep, ReadRegistered, NoticeLoss, ReceiveEnds, ReadPush, RuntimeAlone, serverVars
<1>6. CASE UNCHANGED vars
  BY <1>6, <1>k DEF vars, serverVars
<1> QED  BY <1>1, <1>2, <1>3, <1>4, <1>5, <1>6 DEF Next, Steps, Request

\* A frame that is sent comes after those that were.
LEMMA Appended ==
  ASSUME NEW q \in Seq(Frame), NEW f \in Frame
  PROVE  /\ \A i \in DOMAIN q : i \in DOMAIN Append(q, f) /\ Append(q, f)[i] = q[i]
         /\ Len(q) + 1 \in DOMAIN Append(q, f) /\ Append(q, f)[Len(q) + 1] = f
         /\ \A i \in DOMAIN q : i < Len(q) + 1
         /\ Len(q) \in Nat
OBVIOUS

\* Where a push goes: to the connection of the agent's entry, if that is live.
LEMMA PushGoes ==
  ASSUME TypeInv, NEW t \in Tasks, SendPush(t)
  PROVE  /\ \A x \in Tasks : x # t => pushedOn'[x] = pushedOn[x]
         /\ pushedOn'[t] # None =>
              pushedOn'[t] = conns[agent] /\ conns[agent] \in Sockets /\ link[conns[agent]] = "up"
         /\ \A s \in Sockets, x \in Tasks : Unread(s, x) => Unread(s, x)'
         /\ (pushedOn[t] # None => Unread(pushedOn[t], t))'
<1>t. /\ pushedOn \in [Tasks -> Sockets \cup {None}] /\ toAgent \in [Sockets -> Seq(Frame)]
      /\ conns[agent] \in Sockets \cup {None}
  BY DEF TypeInv, TypeOK, Server!TypeOK
<1>1. \A x \in Tasks : x # t => pushedOn'[x] = pushedOn[x]
  BY <1>t DEF SendPush
<1>2. CASE conns[agent] # None /\ link[conns[agent]] = "up"
  <2>1. PICK c \in Sockets : c = conns[agent]
    BY <1>2, <1>t
  <2>2. /\ pushedOn'[t] = c /\ link[c] = "up"
        /\ toAgent' = [toAgent EXCEPT ![c] = Append(@, About("push", t))]
    BY <1>2, <1>t, <2>1 DEF SendPush
  <2>3. /\ toAgent'[c] = Append(toAgent[c], About("push", t))
        /\ \A s \in Sockets : s # c => toAgent'[s] = toAgent[s]
    BY <1>t, <2>2
  <2>4. /\ \A i \in DOMAIN toAgent[c] : i \in DOMAIN toAgent'[c] /\ toAgent'[c][i] = toAgent[c][i]
        /\ \E i \in DOMAIN toAgent'[c] : toAgent'[c][i] = About("push", t)
    <3>1. toAgent[c] \in Seq(Frame) /\ About("push", t) \in Frame
      BY <1>t, Frames
    <3>2. /\ \A i \in DOMAIN toAgent[c] :
               /\ i \in DOMAIN Append(toAgent[c], About("push", t))
               /\ Append(toAgent[c], About("push", t))[i] = toAgent[c][i]
          /\ \E i \in DOMAIN Append(toAgent[c], About("push", t)) :
               Append(toAgent[c], About("push", t))[i] = About("push", t)
      BY <3>1, Appended
    <3> QED  BY <2>3, <3>2
  <2>5. \A s \in Sockets, x \in Tasks : Unread(s, x) => Unread(s, x)'
    BY <2>3, <2>4 DEF Unread
  <2>6. Unread(c, t)'
    BY <2>4 DEF Unread
  <2> QED  BY <1>1, <2>1, <2>2, <2>5, <2>6
<1>3. CASE ~(conns[agent] # None /\ link[conns[agent]] = "up")
  <2>1. pushedOn'[t] = None /\ toAgent' = toAgent
    BY <1>3, <1>t DEF SendPush
  <2> QED  BY <1>1, <2>1 DEF Unread
<1> QED  BY <1>2, <1>3
\* EntryInv.
LEMMA EntryStep == TypeInv /\ LinkInv /\ EntryInv /\ [Next]_vars => EntryInv'
<1> SUFFICES ASSUME TypeInv, LinkInv, EntryInv, [Next]_vars PROVE EntryInv'
  OBVIOUS
<1>t. /\ pushedOn \in [Tasks -> Sockets \cup {None}] /\ conns \in [{agent} -> Sockets \cup {None}]
      /\ pc \in [Sockets -> Server!HandlerPCs] /\ \A s \in Sockets : pc[s] # "free" => peer[s] = agent
  BY DEF TypeInv, TypeOK, Server!TypeOK, LinkInv
<1>r. \A s \in Sockets : Registered(s) => Registered(s)'
  BY RegisteredStays
<1>k. ASSUME \/ conns'[agent] \in {conns[agent], None}
             \/ \E s \in Sockets : conns'[agent] = s /\ Registered(s)',
             \A t \in Tasks : \/ pushedOn'[t] \in {pushedOn[t], None}
                              \/ pushedOn'[t] = conns[agent] /\ conns[agent] \in Sockets
      PROVE  EntryInv'
  <2>1. (conns[agent] # None => Registered(conns[agent]))'
    <3>1. CASE conns'[agent] # None /\ conns'[agent] = conns[agent]
      <4>1. PICK c \in Sockets : c = conns[agent]
        BY <1>t, <3>1
      <4> QED  BY <1>r, <3>1, <4>1 DEF EntryInv, Registered
    <3>2. ASSUME NEW s \in Sockets, conns'[agent] = s, Registered(s)'
          PROVE  (conns[agent] # None => Registered(conns[agent]))'
      BY <3>2 DEF Registered
    <3> QED  BY <1>k, <3>1, <3>2
  <2>2. ASSUME NEW t \in Tasks PROVE (pushedOn[t] # None => Registered(pushedOn[t]))'
    <3>1. CASE pushedOn'[t] # None
      <4>1. PICK c \in Sockets : c = pushedOn'[t] /\ Registered(c)
        BY <1>k, <1>t, <3>1 DEF EntryInv
      <4> QED  BY <1>r, <4>1 DEF Registered
    <3> QED  BY <3>1
  <2> QED  BY <2>1, <2>2 DEF EntryInv
<1>u. ASSUME UNCHANGED <<conns, pushedOn>> PROVE EntryInv'
  BY <1>k, <1>u
<1>1. ASSUME NEW x \in Sockets, ServerStep(x) PROVE EntryInv'
  <2> USE DEF Server!Goto, Server!table, serverVars, history, ServerAlone
  <2>1. CASE ReadRegister(x) \/ SendRegistered(x) \/ Hangup(x)
    BY <1>u, <2>1
       DEF ReadRegister, SendRegistered, Hangup, Server!RegisterLookup, Server!RegisterAck, Server!Hangup
  <2>2. CASE PushPending(x)
    <3>1. PICK r \in rows[x] : Server!DrainPush(x) /\ SendPush(r.task)
      BY <2>2 DEF PushPending
    <3>2. r.task \in Tasks
      BY DEF TypeInv, TypeOK, Server!TypeOK, Server!Row
    <3>3. conns'[agent] \in {conns[agent], None}
      BY <1>t, <3>1 DEF Server!DrainPush, Server!Push, Server!Remove, Server!Enter
    <3> QED  BY <1>k, <3>1, <3>2, <3>3, PushGoes
  <2>3. ASSUME NEW t \in Tasks,
               ReadAck(x, t) \/ \E final \in {"complete", "failed"} : ReadResult(x, t, final)
        PROVE  EntryInv'
    BY <1>u, <2>3 DEF ReadAck, ReadResult, Server!TaskAck, Server!TaskResult
  <2>4. CASE ServerAlone(Server!RegisterConnect(x))
    <3>1. /\ conns' = [conns EXCEPT ![peer[x]] = x] /\ pc[x] = "reg_connect"
          /\ pc' = [pc EXCEPT ![x] = "reg_status"] /\ UNCHANGED pushedOn
      BY <2>4 DEF Server!RegisterConnect, Server!Enter
    <3>2. conns'[agent] = x /\ Registered(x)'
      BY <1>t, <3>1 DEF Registered
    <3> QED  BY <1>k, <3>1, <3>2
  <2>5. CASE \/ ServerAlone(Server!RegisterStatus(x)) \/ ServerAlone(Server!DrainClaim(x))
             \/ ServerAlone(Server!DrainDone(x)) \/ ServerAlone(Server!CleanupSelect(x))
             \/ ServerAlone(Server!CleanupRequeue(x)) \/ ServerAlone(Server!CleanupStatus(x))
    BY <1>u, <2>5
       DEF Server!RegisterStatus, Server!DrainClaim, Server!DrainDone, Server!CleanupSelect,
           Server!CleanupRequeue, Server!CleanupStatus
  <2>6. CASE ServerAlone(Server!CleanupDisconnect(x))
    <3>1. conns' = [conns EXCEPT ![peer[x]] = None] /\ UNCHANGED pushedOn
      BY <2>6 DEF Server!CleanupDisconnect, Server!Remove, Server!Enter
    <3> QED  BY <1>k, <1>t, <3>1
  <2> QED  BY <1>1, <2>1, <2>2, <2>3, <2>4, <2>5, <2>6 DEF ServerStep
<1>2. ASSUME NEW t \in Tasks, SubmitStep(t) \/ ServerAlone(Server!SubmitCheck(t)) PROVE EntryInv'
  <2>1. CASE PushSubmitted(t)
    <3>1. conns'[agent] \in {conns[agent], None}
      BY <1>t, <2>1 DEF PushSubmitted, Server!SubmitSend, Server!Push, Server!Remove, Server!Enter
    <3> QED  BY <1>k, <2>1, <3>1, PushGoes DEF PushSubmitted
  <2> QED
    BY <1>2, <1>u, <2>1
       DEF SubmitStep, ServerAlone, Server!SubmitCheck, Server!SubmitInsert, Server!SubmitClaim,
           Server!SubmitRevert, Server!table, history
<1>3. CASE Sweep \/ Environment
  BY <1>3, <1>u
     DEF Sweep, Environment, ServerAlone, Server!TimeoutSweep, Server!PeerLost, Server!LinkClosed,
         Server!TaskOverdue, Server!table, history
<1>4. ASSUME NEW r \in Runners \cup {Drain}, RunStep(r) PROVE EntryInv'
  BY <1>4, <1>u
     DEF RunStep, SendAck, SendAnswer, Err, SendFailure, SendFailureAs, RuntimeAlone, serverVars, history
<1>5. CASE LoopStep
  <2>1. UNCHANGED <<conns, pushedOn>>
    BY <1>5
       DEF LoopStep, Dial, RegisterFails, ReadRegistered, NoticeLoss, ReceiveEnds, ReadPush,
           RuntimeAlone, Server!Connect, Server!LinkClosed, Server!table, serverVars, history
  <2> QED  BY <1>u, <2>1
<1>6. CASE UNCHANGED vars
  BY <1>6, <1>u DEF vars, serverVars, history
<1> QED  BY <1>1, <1>2, <1>3, <1>4, <1>5, <1>6 DEF Next, Steps, Request

\* DrainInv.
LEMMA DrainStep == TypeInv /\ DrainInv /\ [Next]_vars => DrainInv'
<1> SUFFICES ASSUME TypeInv, DrainInv, [Next]_vars PROVE DrainInv'
  OBVIOUS
<1>t. at \in [Runners \cup {Drain} -> Runtime!Stages]
  BY DEF TypeInv, TypeOK, Runtime!TypeOK, Runtime!Runs
<1>u. ASSUME UNCHANGED <<at, main>> PROVE DrainInv'
  BY <1>u DEF DrainInv
<1>1. CASE UNCHANGED runtimeVars
  BY <1>1, <1>u DEF runtimeVars
<1>2. ASSUME NEW r \in Runners \cup {Drain}, RunStep(r) PROVE DrainInv'
  <2>1. main' = main /\ at[r] # "free" /\ \E stage : at' = [at EXCEPT ![r] = stage]
    BY <1>2
       DEF RunStep, SendAck, SendAnswer, Err, SendFailure, SendFailureAs, RuntimeAlone, Runtime!Check,
           Runtime!Shelve, Runtime!Ack, Runtime!CallSucceeds, Runtime!CallFails, Runtime!Requeue,
           Runtime!RecordSuccess, Runtime!MarkComplete, Runtime!Go, Runtime!End, Runtime!loop
  <2> QED  BY <1>t, <2>1 DEF DrainInv
<1>3. CASE LoopStep
  <2>1. ASSUME NEW t \in Tasks, ReadPush(t) PROVE DrainInv'
    <3>1. main' = main /\ \E r \in Runners : at[r] = "free" /\ \E stage : at' = [at EXCEPT ![r] = stage]
      BY <2>1 DEF ReadPush, Runtime!Push, Runtime!loop
    <3> QED  BY <1>t, <3>1, NamesAssumption DEF DrainInv
  <2>2. CASE RuntimeAlone(Runtime!DrainNext)
    BY <2>2 DEF RuntimeAlone, Runtime!DrainNext, DrainInv
  <2>3. CASE RuntimeAlone(Runtime!DrainDone)
    BY <2>3 DEF RuntimeAlone, Runtime!DrainDone, Runtime!runs, DrainInv
  <2>4. CASE \/ \E s \in Sockets : Dial(s)
             \/ ReadRegistered \/ RegisterFails \/ ReceiveEnds \/ NoticeLoss
             \/ RuntimeAlone(Runtime!BackoffEnds)
    <3>1. UNCHANGED at /\ (main' = main \/ main # "draining")
      BY <2>4
         DEF Dial, ReadRegistered, RegisterFails, ReceiveEnds, NoticeLoss, RuntimeAlone, Runtime!runs,
             Runtime!DialSucceeds, Runtime!Registered, Runtime!RegisterFails, Runtime!ReceiveEnds,
             Runtime!ConnectionLost, Runtime!BackoffEnds
    <3> QED  BY <3>1 DEF DrainInv
  <2> QED  BY <1>3, <2>1, <2>2, <2>3, <2>4 DEF LoopStep
<1>4. CASE UNCHANGED vars
  BY <1>1, <1>4 DEF vars
<1> QED
  BY <1>1, <1>2, <1>3, <1>4
     DEF Next, Steps, Request, Environment, Sweep, ServerStep, SubmitStep, ServerAlone, ReadRegister,
         SendRegistered, PushPending, PushSubmitted, ReadAck, ReadResult, Hangup
\* What is left behind the frame that is read.
LEMMA LeftBehind ==
  ASSUME NEW q \in Seq(Frame), q # <<>>
  PROVE  /\ \A i \in DOMAIN q : i # 1 => i - 1 \in DOMAIN Tail(q) /\ Tail(q)[i - 1] = q[i]
         /\ \A i \in DOMAIN q : i \in Nat /\ i > 0
         /\ q[1] = Head(q)
OBVIOUS

LEMMA UnreadStays ==
  ASSUME TypeInv, NEW x \in Sockets, toAgent[x] # <<>>, toAgent' = Read(x, toAgent),
         NEW s \in Sockets, NEW t \in Tasks, Unread(s, t),
         s # x \/ Head(toAgent[x]) # About("push", t)
  PROVE  Unread(s, t)'
<1>t. toAgent \in [Sockets -> Seq(Frame)]
  BY DEF TypeInv, TypeOK
<1>1. CASE s # x
  <2>1. toAgent'[s] = toAgent[s]
    BY <1>1, <1>t DEF Read
  <2> QED  BY <2>1 DEF Unread
<1>2. CASE s = x
  <2>1. toAgent'[s] = Tail(toAgent[s])
    BY <1>2, <1>t DEF Read
  <2>2. PICK i \in DOMAIN toAgent[s] : toAgent[s][i] = About("push", t)
    BY DEF Unread
  <2>3. i # 1 /\ i - 1 \in DOMAIN Tail(toAgent[s]) /\ Tail(toAgent[s])[i - 1] = About("push", t)
    BY <1>2, <1>t, <2>2, LeftBehind
  <2> QED  BY <2>1, <2>3 DEF Unread
<1> QED  BY <1>1, <1>2

\* The registered frame comes after the pushes that were sent.
LEMMA RegisteredSent ==
  ASSUME TypeInv, NEW x \in Sockets,
         toAgent' = IF link[x] = "up" THEN [toAgent EXCEPT ![x] = Append(@, [kind |-> "registered"])]
                                      ELSE toAgent,
         NEW s \in Sockets, NEW t \in Tasks, Unread(s, t)
  PROVE  Unread(s, t)'
<1>t. toAgent \in [Sockets -> Seq(Frame)]
  BY DEF TypeInv, TypeOK
<1>1. toAgent[x] \in Seq(Frame) /\ [kind |-> "registered"] \in Frame
  BY <1>t, Frames
<1>2. \A i \in DOMAIN toAgent[x] :
         /\ i \in DOMAIN Append(toAgent[x], [kind |-> "registered"])
         /\ Append(toAgent[x], [kind |-> "registered"])[i] = toAgent[x][i]
  BY <1>1, Appended
<1>3. \A i \in DOMAIN toAgent[s] : i \in DOMAIN toAgent'[s] /\ toAgent'[s][i] = toAgent[s][i]
  BY <1>t, <1>2
<1> QED  BY <1>3 DEF Unread

\* UnreadInv.
LEMMA UnreadStep == TypeInv /\ LinkInv /\ EntryInv /\ UnreadInv /\ [Next]_vars => UnreadInv'
<1> SUFFICES ASSUME TypeInv, LinkInv, EntryInv, UnreadInv, [Next]_vars PROVE UnreadInv'
  OBVIOUS
<1>t. /\ pushedOn \in [Tasks -> Sockets \cup {None}] /\ toAgent \in [Sockets -> Seq(Frame)]
      /\ link \in [Sockets -> {"none", "up", "silent", "closed"}]
      /\ pc \in [Sockets -> Server!HandlerPCs]
  BY DEF TypeInv, TypeOK, Server!TypeOK
<1>m. ASSUME main' \notin {"registering", "draining"} PROVE UnreadInv'
  BY <1>m DEF UnreadInv
<1>k. ASSUME UNCHANGED <<main, pushedOn>>,
             \A s \in Sockets : link'[s] = "up" => link[s] = "up",
             \A s \in Sockets, t \in Tasks : Unread(s, t) => Unread(s, t)'
      PROVE  UnreadInv'
  BY <1>k DEF UnreadInv
<1>u. ASSUME UNCHANGED <<main, pushedOn, toAgent>>,
             UNCHANGED link \/ \E x \in Sockets, l \in {"silent", "closed"} : link' = [link EXCEPT ![x] = l]
      PROVE  UnreadInv'
  <2>1. \A s \in Sockets : link'[s] = "up" => link[s] = "up"
    BY <1>t, <1>u
  <2> QED  BY <1>k, <1>u, <2>1 DEF Unread
<1>p. ASSUME NEW t \in Tasks, SendPush(t), UNCHANGED <<main, link>> PROVE UnreadInv'
  <2> SUFFICES ASSUME NEW s \in Sockets, NEW x \in Tasks,
                      pushedOn'[x] = s, link[s] = "up", main \in {"registering", "draining"}
               PROVE  Unread(s, x)'
    BY <1>p DEF UnreadInv
  <2>1. CASE x = t
    <3>1. s # None
      BY NamesAssumption
    <3> QED  BY <1>p, <2>1, <3>1, PushGoes
  <2>2. CASE x # t
    BY <1>p, <2>2, PushGoes DEF UnreadInv
  <2> QED  BY <2>1, <2>2
<1>1. ASSUME NEW x \in Sockets, ServerStep(x) PROVE UnreadInv'
  <2> USE DEF Server!net, serverVars, runtimeVars, wire, history, ServerAlone
  <2>1. CASE ReadRegister(x) \/ Hangup(x)
    BY <1>u, <2>1 DEF ReadRegister, Hangup, Server!RegisterLookup, Server!Hangup
  <2>2. CASE SendRegistered(x)
    <3>1. UNCHANGED <<main, pushedOn, link>>
      BY <2>2 DEF SendRegistered, Server!RegisterAck
    <3>2. \A s \in Sockets, t \in Tasks : Unread(s, t) => Unread(s, t)'
      BY <2>2, RegisteredSent DEF SendRegistered
    <3> QED  BY <1>k, <3>1, <3>2
  <2>3. CASE PushPending(x)
    <3>1. PICK r \in rows[x] : Server!DrainPush(x) /\ SendPush(r.task) /\ UNCHANGED runtimeVars
      BY <2>3 DEF PushPending
    <3>2. r.task \in Tasks
      BY DEF TypeInv, TypeOK, Server!TypeOK, Server!Row
    <3>3. UNCHANGED <<main, link>>
      BY <3>1 DEF Server!DrainPush
    <3> QED  BY <1>p, <3>1, <3>2, <3>3
  <2>4. ASSUME NEW t \in Tasks,
               ReadAck(x, t) \/ \E final \in {"complete", "failed"} : ReadResult(x, t, final)
        PROVE  UnreadInv'
    BY <1>u, <2>4 DEF ReadAck, ReadResult, Server!TaskAck, Server!TaskResult
  <2>5. CASE \/ ServerAlone(Server!RegisterConnect(x)) \/ ServerAlone(Server!RegisterStatus(x))
             \/ ServerAlone(Server!DrainClaim(x)) \/ ServerAlone(Server!DrainDone(x))
    BY <1>u, <2>5
       DEF Server!RegisterConnect, Server!RegisterStatus, Server!DrainClaim, Server!DrainDone
  <2>6. CASE \/ ServerAlone(Server!CleanupSelect(x)) \/ ServerAlone(Server!CleanupRequeue(x))
             \/ ServerAlone(Server!CleanupDisconnect(x)) \/ ServerAlone(Server!CleanupStatus(x))
    BY <1>u, <2>6
       DEF Server!CleanupSelect, Server!CleanupRequeue, Server!CleanupDisconnect, Server!CleanupStatus
  <2> QED  BY <1>1, <2>1, <2>2, <2>3, <2>4, <2>5, <2>6 DEF ServerStep
<1>2. ASSUME NEW t \in Tasks, SubmitStep(t) \/ ServerAlone(Server!SubmitCheck(t)) PROVE UnreadInv'
  <2>1. CASE PushSubmitted(t)
    BY <1>p, <2>1 DEF PushSubmitted, Server!SubmitSend, runtimeVars
  <2> QED
    BY <1>2, <1>u, <2>1
       DEF SubmitStep, ServerAlone, Server!SubmitCheck, Server!SubmitInsert, Server!SubmitClaim,
           Server!SubmitRevert, Server!net, runtimeVars, wire, history
<1>3. CASE Sweep \/ Environment
  BY <1>3, <1>u
     DEF Sweep, Environment, ServerAlone, Server!TimeoutSweep, Server!PeerLost, Server!LinkClosed,
         Server!TaskOverdue, Server!net, runtimeVars, wire, history
<1>4. ASSUME NEW r \in Runners \cup {Drain}, RunStep(r) PROVE UnreadInv'
  <2>1. UNCHANGED <<main, link, pushedOn, toAgent>>
    BY <1>4
       DEF RunStep, SendAck, SendAnswer, Err, SendFailure, SendFailureAs, RuntimeAlone, serverVars,
           Runtime!Ack, Runtime!CallSucceeds, Runtime!CallFails, Runtime!Requeue, Runtime!Check,
           Runtime!Shelve, Runtime!RecordSuccess, Runtime!MarkComplete, Runtime!loop, wire, history
  <2> QED  BY <1>u, <2>1
<1>5. CASE LoopStep
  <2>1. ASSUME NEW x \in Sockets, Dial(x) PROVE UnreadInv'
    <3>1. /\ main = "dial" /\ pc[x] = "free" /\ link' = [link EXCEPT ![x] = "up"]
          /\ UNCHANGED pushedOn
      BY <2>1 DEF Dial, Runtime!DialSucceeds, Server!Connect, history
    <3>2. \A s \in Sockets : link[s] # "up"
      BY <3>1 DEF LinkInv
    <3>3. \A t \in Tasks : pushedOn[t] # x
      BY <3>1, NamesAssumption DEF EntryInv, Registered
    <3> QED  BY <1>t, <3>1, <3>2, <3>3 DEF UnreadInv
  <2>2. CASE ReadRegistered
    <3>1. /\ main = "registering" /\ UNCHANGED <<link, pushedOn>> /\ sock \in Sockets
          /\ toAgent[sock] # <<>> /\ Head(toAgent[sock]) = [kind |-> "registered"]
          /\ toAgent' = Read(sock, toAgent)
      BY <2>2 DEF ReadRegistered, Runtime!Registered, Arrived, serverVars, history, TypeInv, TypeOK
    <3>2. \A t \in Tasks : [kind |-> "registered"] # About("push", t)
      BY DEF About
    <3>3. \A s \in Sockets, t \in Tasks : Unread(s, t) => Unread(s, t)'
      BY <3>1, <3>2, UnreadStays
    <3> QED  BY <3>1, <3>3 DEF UnreadInv
  <2>3. CASE RegisterFails \/ ReceiveEnds \/ RuntimeAlone(Runtime!BackoffEnds)
             \/ RuntimeAlone(Runtime!DrainDone) \/ \E t \in Tasks : ReadPush(t)
    <3>1. main' \notin {"registering", "draining"}
      BY <2>3
         DEF RegisterFails, ReceiveEnds, ReadPush, RuntimeAlone, Runtime!RegisterFails, Runtime!Leave,
             Runtime!ReceiveEnds, Runtime!BackoffEnds, Runtime!DrainDone, Runtime!Push, Runtime!loop
    <3> QED  BY <1>m, <3>1
  <2>4. CASE NoticeLoss \/ RuntimeAlone(Runtime!DrainNext)
    BY <1>u, <2>4
       DEF NoticeLoss, RuntimeAlone, Runtime!ConnectionLost, Runtime!DrainNext, serverVars, wire, history
  <2> QED  BY <1>5, <2>1, <2>2, <2>3, <2>4 DEF LoopStep
<1>6. CASE UNCHANGED vars
  BY <1>6, <1>u DEF vars, serverVars, runtimeVars, wire, history
<1> QED  BY <1>1, <1>2, <1>3, <1>4, <1>5, <1>6 DEF Next, Steps, Request
-----------------------------------------------------------------------------
(* PushKept.                                                               *)

\* The task is about to be sent, or to be taken back.
Held(t) == HeldBy(t, "cl_requeue") \/ sub[t] = "claimed" \/ HeldBy(t, "reg_push")
Kept(s, t) == (IF link[s] = "up" THEN Carried(s, t) ELSE BeforeCleanup(s)) \/ Held(t)

\* The handler of a connection that is lost will still look the tasks up that went out on it.
LEMMA KeptStays ==
  ASSUME LinkInv, EntryInv, PushKept, NEW s \in Sockets, NEW t \in Tasks,
         status[t] \in Server!InFlight, pushedOn[t] = s,
         link'[s] = "up" => link[s] = "up" /\ (Carried(s, t) => Carried(s, t)'),
         BeforeCleanup(s) => BeforeCleanup(s)',
         Held(t) => Held(t)'
  PROVE  Kept(s, t)'
<1>1. Kept(s, t)
  BY DEF PushKept, Kept, Held
<1>2. link[s] = "up" => BeforeCleanup(s)
  BY NamesAssumption DEF LinkInv, EntryInv, Open, Registered, BeforeCleanup
<1> QED  BY <1>1, <1>2 DEF Kept

\* A run that is where it was.
LEMMA RunStays ==
  ASSUME TypeInv, NEW r \in Runners \cup {Drain}, NEW stage, at' = [at EXCEPT ![r] = stage],
         \A q \in Runners : q # r => task'[q] = task[q],
         NEW t \in Tasks, NEW stages, RunAt(t, stages),
         \/ r = Drain \/ task[r] # t \/ at[r] \notin stages
         \/ stage \in stages /\ task'[r] = task[r]
  PROVE  RunAt(t, stages)'
<1>t. at \in [Runners \cup {Drain} -> Runtime!Stages]
  BY DEF TypeInv, TypeOK, Runtime!TypeOK, Runtime!Runs
<1>1. PICK q \in Runners : task[q] = t /\ at[q] \in stages
  BY DEF RunAt
<1>2. task'[q] = t /\ at'[q] \in stages
  BY <1>t, <1>1, NamesAssumption
<1> QED  BY <1>2 DEF RunAt

\* What is on the wire stays there when nothing is read.
LEMMA CarriedStays ==
  ASSUME NEW s \in Sockets, NEW t \in Tasks, Carried(s, t),
         t \in queue => t \in queue',
         Unread(s, t) => Unread(s, t)',
         RunAt(t, {"start", "queueing", "ack"}) => RunAt(t, {"start", "queueing", "ack"})',
         RunAt(t, {"call", "failed"}) => RunAt(t, {"call", "failed"})',
         \A i \in DOMAIN toServer[s] : i \in DOMAIN toServer'[s] /\ toServer'[s][i] = toServer[s][i],
         status[t] = "running" => status'[t] = "running"
  PROVE  Carried(s, t)'
<1>1. \A i : ResultAfter(s, t, i) => ResultAfter(s, t, i)'
  BY DEF ResultAfter
<1> QED  BY <1>1 DEF Carried

\* Reading a frame leaves what is behind it.
LEMMA ResultBehind ==
  ASSUME TypeInv, NEW s \in Sockets, toServer[s] # <<>>, toServer'[s] = Tail(toServer[s]),
         NEW t \in Tasks, NEW i \in Nat, NEW k \in Nat, ResultAfter(s, t, i),
         UNCHANGED <<task, at>>,
         \/ i = k + 1
         \/ i = 0 /\ k = 0 /\ Head(toServer[s]) \notin {About("complete", t), About("failed", t)}
  PROVE  ResultAfter(s, t, k)'
<1>1. CASE RunAt(t, {"call", "failed"})
  BY <1>1 DEF ResultAfter, RunAt
<1>2. CASE ~RunAt(t, {"call", "failed"})
  <2>1. PICK j \in DOMAIN toServer[s] :
          j > i /\ toServer[s][j] \in {About("complete", t), About("failed", t)}
    BY <1>2 DEF ResultAfter
  <2>2. toServer[s] \in Seq(Frame)
    BY DEF TypeInv, TypeOK
  <2>3. j # 1
    BY <2>1, <2>2, LeftBehind
  <2>4. /\ j - 1 \in DOMAIN Tail(toServer[s]) /\ Tail(toServer[s])[j - 1] = toServer[s][j]
        /\ j \in Nat /\ j > 0
    BY <2>1, <2>2, <2>3, LeftBehind
  <2>5. j - 1 > k
    BY <2>1, <2>3, <2>4
  <2> QED  BY <2>1, <2>4, <2>5 DEF ResultAfter
<1> QED  BY <1>1, <1>2

LEMMA CarriedRead ==
  ASSUME TypeInv, NEW x \in Sockets, toServer[x] # <<>>, toServer' = Read(x, toServer),
         UNCHANGED <<toAgent, queue, task, at>>,
         NEW s \in Sockets, NEW t \in Tasks, Carried(s, t),
         s # x \/ Head(toServer[x]) \notin {About("ack", t), About("complete", t), About("failed", t)},
         status[t] = "running" => status'[t] = "running"
  PROVE  Carried(s, t)'
<1>t. toServer \in [Sockets -> Seq(Frame)]
  BY DEF TypeInv, TypeOK
<1>1. CASE s # x
  <2>1. toServer'[s] = toServer[s]
    BY <1>1, <1>t DEF Read
  <2> QED  BY <2>1, CarriedStays DEF Unread, RunAt
<1>2. CASE s = x
  <2>1. toServer'[s] = Tail(toServer[s])
    BY <1>2, <1>t DEF Read
  <2>2. CASE t \in queue \/ Unread(s, t) \/ RunAt(t, {"start", "queueing", "ack"})
    BY <2>2 DEF Carried, Unread, RunAt
  <2>3. ASSUME NEW i \in DOMAIN toServer[s], toServer[s][i] = About("ack", t), ResultAfter(s, t, i)
        PROVE  Carried(s, t)'
    <3>1. i # 1 /\ i \in Nat /\ i - 1 \in Nat
      BY <1>2, <1>t, <2>3, LeftBehind
    <3>2. i - 1 \in DOMAIN toServer'[s] /\ toServer'[s][i - 1] = About("ack", t)
      BY <1>2, <1>t, <2>1, <2>3, <3>1, LeftBehind
    <3>3. ResultAfter(s, t, i - 1)'
      <4> DEFINE k == i - 1
      <4>1. k \in Nat /\ i = k + 1
        BY <3>1
      <4> HIDE DEF k
      <4>2. ResultAfter(s, t, k)'
        BY <1>2, <2>1, <2>3, <3>1, <4>1, ResultBehind
      <4> QED  BY <4>2 DEF k
    <3> QED  BY <3>2, <3>3 DEF Carried
  <2>4. CASE status[t] = "running" /\ ResultAfter(s, t, 0)
    <3>1. ResultAfter(s, t, 0)'
      BY <1>2, <2>1, <2>4, ResultBehind
    <3> QED  BY <2>4, <3>1 DEF Carried
  <2> QED  BY <2>2, <2>3, <2>4 DEF Carried
<1> QED  BY <1>1, <1>2
\* The rows of a SELECT have its tasks.
LEMMA RowSelected ==
  ASSUME NEW T, NEW t \in T
  PROVE  \E r \in Server!RowsOf(T) : r.task = t
<1>1. [task |-> t, retry |-> retry[t]] \in Server!RowsOf(T)
  BY DEF Server!RowsOf
<1> QED  BY <1>1

\* The steps of a handler.
LEMMA KeptByHandler ==
  ASSUME TypeInv, LinkInv, EntryInv, PushKept, NEW x \in Sockets, ServerStep(x),
         NEW s \in Sockets, NEW t \in Tasks, status'[t] \in Server!InFlight, pushedOn'[t] = s
  PROVE  Kept(s, t)'
<1>t. /\ pc \in [Sockets -> Server!HandlerPCs] /\ rows \in [Sockets -> SUBSET Server!Row]
      /\ status \in [Tasks -> Server!Statuses] /\ toServer \in [Sockets -> Seq(Frame)]
      /\ link \in [Sockets -> {"none", "up", "silent", "closed"}]
  BY DEF TypeInv, TypeOK, Server!TypeOK
<1>a. pc[x] # "free" => peer[x] = agent
  BY DEF LinkInv
<1>k. ASSUME status[t] \in Server!InFlight, UNCHANGED <<pushedOn, link, sub, rows>>,
             link[s] = "up" /\ Carried(s, t) => Carried(s, t)',
             \/ UNCHANGED pc
             \/ \E label : /\ pc' = [pc EXCEPT ![x] = label]
                           /\ BeforeCleanup(x) => label \in {"reg_status", "reg_ack", "reg_drain", "reg_push",
                                                            "serving", "cl_select"}
                           /\ pc[x] \in {"reg_push", "cl_requeue"} => rows[x] = {}
      PROVE  Kept(s, t)'
  <2>1. BeforeCleanup(s) => BeforeCleanup(s)'
    BY <1>k, <1>t DEF BeforeCleanup
  <2>2. Held(t) => Held(t)'
    <3>1. ASSUME NEW label \in {"reg_push", "cl_requeue"}, HeldBy(t, label) PROVE HeldBy(t, label)'
      <4>1. PICK z \in Sockets : pc[z] = label /\ \E r \in rows[z] : r.task = t
        BY <3>1 DEF HeldBy
      <4>2. pc'[z] = label
        BY <1>k, <1>t, <4>1
      <4> QED  BY <1>k, <4>1, <4>2 DEF HeldBy
    <3> QED  BY <1>k, <3>1 DEF Held
  <2> QED  BY <1>k, <2>1, <2>2, KeptStays
<1>w. ASSUME UNCHANGED <<toAgent, queue, task, at, toServer>>, Carried(s, t),
             status[t] = "running" => status'[t] = "running"
      PROVE  Carried(s, t)'
  BY <1>w, CarriedStays DEF Unread, RunAt
<1> USE DEF serverVars, runtimeVars, wire, history, ServerAlone, Server!Goto, Server!net, Server!request,
            Server!taskDB
<1>1. CASE ReadRegister(x)
  <2>1. /\ pc[x] = "accepted" /\ pc' = [pc EXCEPT ![x] = "reg_connect"]
        /\ UNCHANGED <<status, pushedOn, link, sub, rows, toAgent, queue, task, at>>
        /\ toServer[x] # <<>> /\ Head(toServer[x]) = [kind |-> "register"]
        /\ toServer' = Read(x, toServer)
    BY <1>1 DEF ReadRegister, Server!RegisterLookup, Arrived
  <2>2. Head(toServer[x]) \notin {About("ack", t), About("complete", t), About("failed", t)}
    BY <2>1 DEF About
  <2>3. Carried(s, t) => Carried(s, t)'
    BY <2>1, <2>2, CarriedRead
  <2> QED  BY <1>k, <2>1, <2>3 DEF BeforeCleanup
<1>2. CASE SendRegistered(x)
  <2>1. /\ pc[x] = "reg_ack" /\ \E label \in {"cl_select", "reg_drain"} : pc' = [pc EXCEPT ![x] = label]
        /\ UNCHANGED <<status, pushedOn, link, sub, rows, toServer, queue, task, at>>
    BY <1>2 DEF SendRegistered, Server!RegisterAck
  <2>2. Unread(s, t) => Unread(s, t)'
    BY <1>2, RegisteredSent DEF SendRegistered
  <2>3. Carried(s, t) => Carried(s, t)'
    BY <2>1, <2>2, CarriedStays DEF RunAt
  <2> QED  BY <1>k, <2>1, <2>3 DEF BeforeCleanup
<1>3. CASE PushPending(x)
  <2>1. PICK r \in rows[x] : /\ Server!DrainPush(x) /\ SendPush(r.task)
                             /\ rows'[x] = rows[x] \ {r}
                             /\ UNCHANGED <<runtimeVars, sock, toServer, answered, erred>>
    BY <1>3 DEF PushPending
  <2>2. r.task \in Tasks
    BY <1>t, <2>1 DEF Server!Row
  <2>3. /\ pc[x] = "reg_push" /\ UNCHANGED <<status, link, pc, sub, queue, task, at, toServer>>
        /\ \A z \in Sockets : z # x => rows'[z] = rows[z]
    BY <1>t, <2>1 DEF Server!DrainPush
  <2>4. Unread(s, t) => Unread(s, t)'
    BY <2>1, <2>2, PushGoes
  <2>5. CASE t = r.task
    <3>1. link[s] = "up" /\ Unread(s, t)'
      BY <2>1, <2>2, <2>5, NamesAssumption, PushGoes
    <3> QED  BY <2>3, <3>1 DEF Kept, Carried
  <2>6. CASE t # r.task
    <3>1. pushedOn[t] = s /\ status[t] \in Server!InFlight
      BY <2>1, <2>2, <2>3, <2>6, PushGoes
    <3>2. Carried(s, t) => Carried(s, t)'
      BY <2>3, <2>4, CarriedStays DEF RunAt
    <3>3. Held(t) => Held(t)'
      <4>1. ASSUME NEW label, HeldBy(t, label) PROVE HeldBy(t, label)'
        <5>1. PICK z \in Sockets : pc[z] = label /\ \E q \in rows[z] : q.task = t
          BY <4>1 DEF HeldBy
        <5>2. \E q \in rows'[z] : q.task = t
          BY <2>1, <2>3, <2>6, <5>1
        <5> QED  BY <2>3, <5>1, <5>2 DEF HeldBy
      <4> QED  BY <2>3, <4>1 DEF Held
    <3> QED  BY <2>3, <3>1, <3>2, <3>3, KeptStays DEF BeforeCleanup
  <2> QED  BY <2>5, <2>6
<1>4. CASE Hangup(x)
  <2>1. /\ link[x] = "closed" /\ toServer' = [toServer EXCEPT ![x] = <<>>]
        /\ UNCHANGED <<status, pushedOn, link, sub, rows, toAgent, queue, task, at>>
        /\ \/ pc[x] = "accepted" /\ pc' = [pc EXCEPT ![x] = "done"]
           \/ pc[x] = "serving" /\ pc' = [pc EXCEPT ![x] = "cl_select"]
    BY <1>4 DEF Hangup, Server!Hangup
  <2>2. link[s] = "up" /\ Carried(s, t) => Carried(s, t)'
    <3>1. link[s] = "up" => toServer'[s] = toServer[s]
      BY <1>t, <2>1
    <3> QED  BY <2>1, <3>1, CarriedStays DEF Unread, RunAt
  <2> QED  BY <1>k, <2>1, <2>2 DEF BeforeCleanup
<1>5. ASSUME NEW u \in Tasks, ReadAck(x, u) PROVE Kept(s, t)'
  <2>1. /\ toServer[x] # <<>> /\ Head(toServer[x]) = About("ack", u)
        /\ toServer' = Read(x, toServer)
        /\ UNCHANGED <<pc, pushedOn, link, sub, rows, toAgent, queue, task, at>>
        /\ \/ status[u] = "dispatched" /\ status' = [z \in Tasks |-> IF z \in {u} THEN "running" ELSE status[z]]
           \/ status[u] # "dispatched" /\ UNCHANGED status
    BY <1>5 DEF ReadAck, Arrived, Server!TaskAck, Server!Settle, Server!handler
  <2>2. /\ status[t] \in Server!InFlight
        /\ status[t] = "running" => status'[t] = "running"
        /\ t = u => status'[t] = "running"
    BY <1>t, <2>1 DEF Server!InFlight
  <2>3. CASE s # x \/ u # t
    <3>1. s # x \/ Head(toServer[x]) \notin {About("ack", t), About("complete", t), About("failed", t)}
      BY <2>1, <2>3 DEF About
    <3>2. Carried(s, t) => Carried(s, t)'
      BY <2>1, <2>2, <3>1, CarriedRead
    <3> QED  BY <1>k, <2>1, <2>2, <3>2
  <2>4. CASE s = x /\ u = t
    <3>1. toServer'[s] = Tail(toServer[s])
      BY <1>t, <2>1, <2>4 DEF Read
    <3>2. Head(toServer[s]) \notin {About("complete", t), About("failed", t)}
      BY <2>1, <2>4 DEF About
    <3>3. ASSUME NEW i \in DOMAIN toServer[s], ResultAfter(s, t, i) PROVE ResultAfter(s, t, 0)
      <4>1. i \in Nat /\ i > 0 /\ DOMAIN toServer[s] \subseteq Nat
        BY <1>t, <2>1, <2>4, LeftBehind
      <4> QED  BY <3>3, <4>1 DEF ResultAfter
    <3>4. ResultAfter(s, t, 0) => ResultAfter(s, t, 0)'
      BY <2>1, <2>4, <3>1, <3>2, ResultBehind
    <3>5. Carried(s, t) => Carried(s, t)'
      BY <2>1, <2>2, <2>4, <3>3, <3>4 DEF Carried, Unread, RunAt
    <3> QED  BY <1>k, <2>1, <2>2, <3>5
  <2> QED  BY <2>3, <2>4
<1>6. ASSUME NEW u \in Tasks, NEW final \in {"complete", "failed"}, ReadResult(x, u, final)
      PROVE  Kept(s, t)'
  <2>1. /\ toServer[x] # <<>> /\ Head(toServer[x]) = About(final, u)
        /\ toServer' = Read(x, toServer)
        /\ UNCHANGED <<pc, pushedOn, link, sub, rows, toAgent, queue, task, at>>
        /\ \/ status[u] = "running" /\ status' = [z \in Tasks |-> IF z \in {u} THEN final ELSE status[z]]
           \/ status[u] # "running" /\ UNCHANGED status
    BY <1>6 DEF ReadResult, Arrived, Server!TaskResult, Server!Settle, Server!handler
  <2>2. status'[t] = status[t] /\ (t = u => status[t] # "running")
    BY <1>t, <2>1 DEF Server!InFlight
  <2>3. CASE s # x \/ u # t
    <3>1. s # x \/ Head(toServer[x]) \notin {About("ack", t), About("complete", t), About("failed", t)}
      BY <2>1, <2>3 DEF About
    <3>2. Carried(s, t) => Carried(s, t)'
      BY <2>1, <2>2, <3>1, CarriedRead
    <3> QED  BY <1>k, <2>1, <2>2, <3>2
  <2>4. CASE s = x /\ u = t
    <3>1. toServer'[s] = Tail(toServer[s])
      BY <1>t, <2>1, <2>4 DEF Read
    <3>2. ASSUME NEW i \in DOMAIN toServer[s], toServer[s][i] = About("ack", t), ResultAfter(s, t, i)
          PROVE  Carried(s, t)'
      <4>1. i # 1
        BY <1>t, <2>1, <2>4, <3>2, LeftBehind DEF About
      <4>2. i \in Nat /\ i > 0 /\ i - 1 \in DOMAIN toServer'[s] /\ toServer'[s][i - 1] = About("ack", t)
        BY <1>t, <2>1, <2>4, <3>1, <3>2, <4>1, LeftBehind
      <4>3. ResultAfter(s, t, i - 1)'
        <5> DEFINE k == i - 1
        <5>1. k \in Nat /\ i = k + 1
          BY <4>2
        <5> HIDE DEF k
        <5>2. ResultAfter(s, t, k)'
          BY <2>1, <2>4, <3>1, <3>2, <4>2, <5>1, ResultBehind
        <5> QED  BY <5>2 DEF k
      <4> QED  BY <4>2, <4>3 DEF Carried
    <3>3. Carried(s, t) => Carried(s, t)'
      BY <2>1, <2>2, <2>4, <3>2 DEF Carried, Unread, RunAt
    <3> QED  BY <1>k, <2>1, <2>2, <3>3
  <2> QED  BY <2>3, <2>4
<1>7. CASE ServerAlone(Server!RegisterConnect(x)) \/ ServerAlone(Server!RegisterStatus(x))
  <2>1. /\ UNCHANGED <<status, pushedOn, link, sub, rows, toAgent, queue, task, at, toServer>>
        /\ \/ pc[x] = "reg_connect" /\ pc' = [pc EXCEPT ![x] = "reg_status"]
           \/ pc[x] = "reg_status" /\ pc' = [pc EXCEPT ![x] = "reg_ack"]
    BY <1>7 DEF Server!RegisterConnect, Server!RegisterStatus
  <2> QED  BY <1>k, <1>w, <2>1 DEF BeforeCleanup
<1>8. CASE ServerAlone(Server!DrainClaim(x))
  <2> DEFINE T == {z \in Server!Of(peer[x]) : status[z] = "pending"}
  <2>1. /\ pc[x] = "reg_drain" /\ pc' = [pc EXCEPT ![x] = "reg_push"]
        /\ status' = [z \in Tasks |-> IF z \in T THEN "dispatched" ELSE status[z]]
        /\ rows' = [rows EXCEPT ![x] = Server!RowsOf(T)]
        /\ UNCHANGED <<pushedOn, link, sub, toAgent, queue, task, at, toServer>>
    BY <1>8 DEF Server!DrainClaim, Server!Claim
  <2>2. CASE status[t] = "pending"
    <3>1. t \in T
      BY <1>a, <2>1, <2>2 DEF Server!Of
    <3>2. \E r \in rows'[x] : r.task = t
      BY <1>t, <2>1, <3>1, RowSelected
    <3> QED  BY <1>t, <2>1, <3>2 DEF Kept, Held, HeldBy
  <2>3. CASE status[t] # "pending"
    <3>1. status'[t] = status[t]
      BY <2>1, <2>3
    <3>2. BeforeCleanup(s) => BeforeCleanup(s)'
      BY <1>t, <2>1 DEF BeforeCleanup
    <3>3. Held(t) => Held(t)'
      BY <1>t, <2>1 DEF Held, HeldBy
    <3> QED  BY <1>w, <2>1, <3>1, <3>2, <3>3, KeptStays
  <2> QED  BY <2>2, <2>3
<1>9. CASE ServerAlone(Server!DrainDone(x)) \/ ServerAlone(Server!CleanupDisconnect(x))
  <2>1. /\ UNCHANGED <<status, pushedOn, link, sub, rows, toAgent, queue, task, at, toServer>>
        /\ rows[x] = {}
        /\ \/ pc[x] = "reg_push" /\ pc' = [pc EXCEPT ![x] = "serving"]
           \/ pc[x] = "cl_requeue" /\ pc' = [pc EXCEPT ![x] = "cl_status"]
    BY <1>9 DEF Server!DrainDone, Server!CleanupDisconnect
  <2> QED  BY <1>k, <1>w, <2>1 DEF BeforeCleanup
<1>10. CASE ServerAlone(Server!CleanupSelect(x))
  <2> DEFINE T == {z \in Server!Of(peer[x]) : status[z] \in Server!InFlight}
  <2>1. /\ pc[x] = "cl_select" /\ pc' = [pc EXCEPT ![x] = "cl_requeue"]
        /\ rows' = [rows EXCEPT ![x] = Server!RowsOf(T)] /\ UNCHANGED status
    BY <1>10 DEF Server!CleanupSelect
  <2>2. t \in T
    BY <1>a, <2>1 DEF Server!Of
  <2>3. \E r \in rows'[x] : r.task = t
    BY <1>t, <2>1, <2>2, RowSelected
  <2> QED  BY <1>t, <2>1, <2>3 DEF Kept, Held, HeldBy
<1>11. CASE ServerAlone(Server!CleanupRequeue(x))
  <2>1. PICK r \in rows[x] :
          /\ pc[x] = "cl_requeue" /\ rows' = [rows EXCEPT ![x] = @ \ {r}]
          /\ IF Server!OutOfRetries(r.retry + 1)
               THEN Server!Settle({r.task} \ {z \in Tasks : status[z] = "absent"}, "dead_letter")
               ELSE Server!BackToPending(r.task, r.retry + 1)
          /\ UNCHANGED <<pc, pushedOn, link, sub, toAgent, queue, task, at, toServer>>
    BY <1>11 DEF Server!CleanupRequeue
  <2>2. t # r.task /\ status'[t] = status[t]
    BY <1>t, <2>1 DEF Server!Settle, Server!BackToPending, Server!InFlight
  <2>3. Held(t) => Held(t)'
    <3>1. ASSUME NEW label, HeldBy(t, label) PROVE HeldBy(t, label)'
      <4>1. PICK z \in Sockets : pc[z] = label /\ \E q \in rows[z] : q.task = t
        BY <3>1 DEF HeldBy
      <4>2. \E q \in rows'[z] : q.task = t
        BY <1>t, <2>1, <2>2, <4>1
      <4> QED  BY <2>1, <4>1, <4>2 DEF HeldBy
    <3> QED  BY <2>1, <3>1 DEF Held
  <2> QED  BY <1>w, <2>1, <2>2, <2>3, KeptStays DEF BeforeCleanup
<1>12. CASE ServerAlone(Server!CleanupStatus(x))
  <2>1. /\ pc[x] = "cl_status" /\ pc' = [pc EXCEPT ![x] = "done"]
        /\ link' = [link EXCEPT ![x] = "closed"]
        /\ UNCHANGED <<status, pushedOn, sub, rows, toAgent, queue, task, at, toServer>>
    BY <1>12 DEF Server!CleanupStatus
  <2>2. link'[s] = "up" => link[s] = "up"
    BY <1>t, <2>1
  <2>3. BeforeCleanup(s) => BeforeCleanup(s)'
    BY <1>t, <2>1 DEF BeforeCleanup
  <2>4. Held(t) => Held(t)'
    BY <1>t, <2>1 DEF Held, HeldBy
  <2> QED  BY <1>w, <2>1, <2>2, <2>3, <2>4, KeptStays
<1> QED
  BY <1>1, <1>2, <1>3, <1>4, <1>5, <1>6, <1>7, <1>8, <1>9, <1>10, <1>11, <1>12 DEF ServerStep
\* The steps of the requests, of the watchdog and of the environment.
LEMMA KeptByOthers ==
  ASSUME TypeInv, LinkInv, EntryInv, PushKept,
         Sweep \/ Environment \/ \E u \in Tasks : SubmitStep(u) \/ ServerAlone(Server!SubmitCheck(u)),
         NEW s \in Sockets, NEW t \in Tasks, status'[t] \in Server!InFlight, pushedOn'[t] = s
  PROVE  Kept(s, t)'
<1>t. /\ status \in [Tasks -> Server!Statuses] /\ sub \in [Tasks -> {"idle", "checked", "inserted",
                                                                     "claimed", "revert", "done"}]
      /\ link \in [Sockets -> {"none", "up", "silent", "closed"}]
  BY DEF TypeInv, TypeOK, Server!TypeOK
<1>k. ASSUME status'[t] = status[t], sub[t] = "claimed" => sub'[t] = "claimed",
             link'[s] = "up" => link[s] = "up",
             UNCHANGED <<pushedOn, pc, rows, toAgent, queue, task, at, toServer>>
      PROVE  Kept(s, t)'
  <2>1. Carried(s, t) => Carried(s, t)'
    BY <1>k, CarriedStays DEF Unread, RunAt
  <2>2. (BeforeCleanup(s) => BeforeCleanup(s)') /\ (Held(t) => Held(t)')
    BY <1>k DEF BeforeCleanup, Held, HeldBy
  <2> QED  BY <1>k, <2>1, <2>2, KeptStays
<1> USE DEF serverVars, runtimeVars, wire, history, ServerAlone, Server!net, Server!handler, Server!request,
            Server!taskDB
<1>1. CASE Sweep
  <2>1. /\ status'[t] = status[t]
        /\ UNCHANGED <<sub, link, pushedOn, pc, rows, toAgent, queue, task, at, toServer>>
    BY <1>1, <1>t DEF Sweep, Server!TimeoutSweep, Server!Settle, Server!InFlight
  <2> QED  BY <1>k, <2>1
<1>2. CASE Environment
  <2>1. /\ status'[t] = status[t] /\ (link'[s] = "up" => link[s] = "up")
        /\ UNCHANGED <<sub, pushedOn, pc, rows, toAgent, queue, task, at, toServer>>
    BY <1>2, <1>t DEF Environment, Server!PeerLost, Server!LinkClosed, Server!TaskOverdue
  <2> QED  BY <1>k, <2>1
<1>3. ASSUME NEW u \in Tasks, PushSubmitted(u) PROVE Kept(s, t)'
  <2>1. /\ sub[u] = "claimed" /\ \E label : sub' = [sub EXCEPT ![u] = label]
        /\ UNCHANGED <<status, link, pc, rows, queue, task, at, toServer>>
    BY <1>3 DEF PushSubmitted, Server!SubmitSend
  <2>2. CASE t = u
    <3>1. link[s] = "up" /\ Unread(s, t)'
      BY <1>3, <2>2, NamesAssumption, PushGoes DEF PushSubmitted
    <3> QED  BY <2>1, <3>1 DEF Kept, Carried
  <2>3. CASE t # u
    <3>1. pushedOn[t] = s /\ (Unread(s, t) => Unread(s, t)')
      BY <1>3, <2>3, PushGoes DEF PushSubmitted
    <3>2. Carried(s, t) => Carried(s, t)'
      BY <2>1, <3>1, CarriedStays DEF RunAt
    <3>3. (BeforeCleanup(s) => BeforeCleanup(s)') /\ (Held(t) => Held(t)')
      BY <1>t, <2>1, <2>3 DEF BeforeCleanup, Held, HeldBy
    <3> QED  BY <2>1, <3>1, <3>2, <3>3, KeptStays
  <2> QED  BY <2>2, <2>3
<1>4. ASSUME NEW u \in Tasks, ServerAlone(Server!SubmitClaim(u)) PROVE Kept(s, t)'
  <2>1. UNCHANGED <<link, pushedOn, pc, rows, toAgent, queue, task, at, toServer>>
    BY <1>4 DEF Server!SubmitClaim
  <2>2. CASE t = u /\ status[t] = "pending"
    BY <1>4, <1>t, <2>2 DEF Server!SubmitClaim, Kept, Held
  <2>3. CASE ~(t = u /\ status[t] = "pending")
    <3>1. status'[t] = status[t] /\ (sub[t] = "claimed" => sub'[t] = "claimed")
      BY <1>4, <1>t, <2>3 DEF Server!SubmitClaim, Server!Claim
    <3> QED  BY <1>k, <2>1, <3>1
  <2> QED  BY <2>2, <2>3
<1>5. ASSUME NEW u \in Tasks,
             \/ ServerAlone(Server!SubmitCheck(u)) \/ ServerAlone(Server!SubmitInsert(u))
             \/ ServerAlone(Server!SubmitRevert(u))
      PROVE  Kept(s, t)'
  <2>1. /\ status'[t] = status[t] /\ (sub[t] = "claimed" => sub'[t] = "claimed")
        /\ UNCHANGED <<link, pushedOn, pc, rows, toAgent, queue, task, at, toServer>>
    BY <1>5, <1>t
       DEF Server!SubmitCheck, Server!SubmitInsert, Server!SubmitRevert, Server!BackToPending,
           Server!InFlight
  <2> QED  BY <1>k, <2>1
<1> QED  BY <1>1, <1>2, <1>3, <1>4, <1>5 DEF SubmitStep

\* The steps of a run.
LEMMA KeptByRun ==
  ASSUME TypeInv, WireInv, PushKept, NEW r \in Runners \cup {Drain}, RunStep(r),
         NEW s \in Sockets, NEW t \in Tasks, status'[t] \in Server!InFlight, pushedOn'[t] = s
  PROVE  Kept(s, t)'
<1>t. /\ toServer \in [Sockets -> Seq(Frame)] /\ at \in [Runners \cup {Drain} -> Runtime!Stages]
      /\ task \in [Runners \cup {Drain} -> Tasks \cup {None}] /\ RunsAssigned /\ queue \subseteq Tasks
  BY DEF TypeInv, TypeOK, Runtime!TypeOK, Runtime!Runs
<1>u. UNCHANGED <<serverVars, sock, toAgent, pushedOn>> /\ UNCHANGED <<main, up>>
  BY DEF RunStep, SendAck, SendAnswer, Err, SendFailure, SendFailureAs, RuntimeAlone, wire, history,
         Runtime!Check, Runtime!Shelve, Runtime!Ack, Runtime!CallSucceeds, Runtime!CallFails,
         Runtime!Requeue, Runtime!RecordSuccess, Runtime!MarkComplete, Runtime!loop
<1>p. Unread(s, t)' = Unread(s, t)
  BY <1>u DEF Unread
\* What has to be shown: on the connection that stays, the push is still carried.
<1>g. SUFFICES ASSUME link[s] = "up", Carried(s, t) PROVE Carried(s, t)'
  <2>1. status[t] \in Server!InFlight /\ pushedOn[t] = s
    BY <1>u DEF serverVars
  <2>2. (BeforeCleanup(s) => BeforeCleanup(s)') /\ (Held(t) => Held(t)') /\ link' = link
    BY <1>u DEF serverVars, BeforeCleanup, Held, HeldBy
  <2> QED  BY <1>g, <2>1, <2>2, KeptStays DEF WireInv
<1>l. up /\ sock = s /\ pushedOn[t] = s
  BY <1>g, <1>u DEF WireInv, LinkInv
\* A frame is sent behind those that were.
<1>s. ASSUME NEW f \in Frame, Send(f)
      PROVE  /\ \A i \in DOMAIN toServer[s] : i \in DOMAIN toServer'[s] /\ toServer'[s][i] = toServer[s][i]
             /\ Len(toServer[s]) + 1 \in DOMAIN toServer'[s] /\ toServer'[s][Len(toServer[s]) + 1] = f
             /\ \A i \in DOMAIN toServer[s] : i < Len(toServer[s]) + 1
             /\ Len(toServer[s]) \in Nat
  <2>1. toServer'[s] = Append(toServer[s], f)
    BY <1>s, <1>t, <1>g, <1>l DEF Send
  <2> QED  BY <1>s, <1>t, <2>1, Appended
\* A step of a run that is not one of the task, or that stays where it counts.
<1>k. ASSUME NEW stage, at' = [at EXCEPT ![r] = stage],
             \A q \in Runners : q # r => task'[q] = task[q],
             \/ r = Drain \/ task[r] # t
             \/ /\ at[r] \notin {"start", "queueing", "ack"} \/ stage \in {"start", "queueing", "ack"}
                /\ at[r] \notin {"call", "failed"} \/ stage \in {"call", "failed"}
                /\ stage # "free" => task'[r] = task[r],
             t \in queue => t \in queue',
             \A i \in DOMAIN toServer[s] : i \in DOMAIN toServer'[s] /\ toServer'[s][i] = toServer[s][i]
      PROVE  Carried(s, t)'
  <2>1. RunAt(t, {"start", "queueing", "ack"}) => RunAt(t, {"start", "queueing", "ack"})'
    BY <1>k, RunStays
  <2>2. RunAt(t, {"call", "failed"}) => RunAt(t, {"call", "failed"})'
    BY <1>k, RunStays
  <2> QED  BY <1>g, <1>k, <1>p, <1>u, <2>1, <2>2, CarriedStays DEF serverVars
<1>e. ASSUME Runtime!End(r) PROVE at' = [at EXCEPT ![r] = "free"] /\ \A q \in Runners : q # r => task'[q] = task[q]
  BY <1>e, <1>t DEF Runtime!End
<1>q. ASSUME t \in queue' PROVE Carried(s, t)'
  BY <1>q DEF Carried
<1>n. at[r] # "free" => task[r] \in Tasks
  BY <1>t DEF RunsAssigned, Runtime!Runs
<1>1. CASE SendAck(r)
  <2>1. /\ at[r] = "ack" /\ at' = [at EXCEPT ![r] = "call"] /\ UNCHANGED <<task, queue>>
        /\ Send(About("ack", task[r])) /\ About("ack", task[r]) \in Frame
    BY <1>1, <1>n, Frames DEF SendAck, Runtime!Ack, Runtime!Go
  <2>2. CASE r # Drain /\ task[r] = t
    <3>1. RunAt(t, {"call", "failed"})'
      BY <1>t, <2>1, <2>2 DEF RunAt
    <3>2. \E i \in DOMAIN toServer'[s] : toServer'[s][i] = About("ack", t)
      BY <1>s, <2>1, <2>2
    <3> QED  BY <3>1, <3>2 DEF Carried, ResultAfter
  <2>3. CASE r = Drain \/ task[r] # t
    BY <1>k, <1>s, <2>1, <2>3
  <2> QED  BY <2>2, <2>3
<1>2. CASE SendAnswer(r)
  <2>1. /\ at[r] = "call" /\ at' = [at EXCEPT ![r] = "answered"] /\ UNCHANGED <<task, queue>>
        /\ Send(About("complete", task[r])) /\ About("complete", task[r]) \in Frame
    BY <1>2, <1>n, Frames DEF SendAnswer, Runtime!CallSucceeds, Runtime!Go
  <2>2. CASE r # Drain /\ task[r] = t
    <3>1. CASE t \in queue \/ Unread(s, t) \/ RunAt(t, {"start", "queueing", "ack"})
      <4>1. at[r] \notin {"start", "queueing", "ack"} /\ \A q \in Runners : task'[q] = task[q]
        BY <2>1
      <4>2. RunAt(t, {"start", "queueing", "ack"}) => RunAt(t, {"start", "queueing", "ack"})'
        BY <2>1, <4>1, RunStays
      <4> QED  BY <1>p, <2>1, <3>1, <4>2 DEF Carried
    <3>2. ASSUME NEW i, i \in DOMAIN toServer[s] \/ i = 0 PROVE ResultAfter(s, t, i)'
      <4>1. Len(toServer[s]) + 1 > i
        BY <1>s, <1>t, <2>1, <3>2
      <4>2. toServer'[s][Len(toServer[s]) + 1] = About("complete", t)
        BY <1>s, <2>1, <2>2
      <4> QED  BY <1>s, <2>1, <4>1, <4>2 DEF ResultAfter
    <3>3. ASSUME NEW i \in DOMAIN toServer[s], toServer[s][i] = About("ack", t) PROVE Carried(s, t)'
      <4>1. i \in DOMAIN toServer'[s] /\ toServer'[s][i] = About("ack", t)
        BY <1>s, <2>1, <3>3
      <4> QED  BY <3>2, <4>1 DEF Carried
    <3>4. CASE status[t] = "running"
      BY <1>u, <3>2, <3>4 DEF Carried, serverVars
    <3> QED  BY <1>g, <3>1, <3>3, <3>4 DEF Carried
  <2>3. CASE r = Drain \/ task[r] # t
    BY <1>k, <1>s, <2>1, <2>3
  <2> QED  BY <2>2, <2>3
<1>3. CASE Err(r)
  <2>1. /\ at[r] = "call" /\ at' = [at EXCEPT ![r] = "failed"] /\ UNCHANGED <<task, queue, toServer>>
    BY <1>3 DEF Err, Runtime!CallFails, Runtime!Go, wire
  <2> QED  BY <1>k, <2>1
<1>4. CASE SendFailure(r)
  <2>1. /\ at[r] = "failed" /\ Runtime!Enqueue(r) /\ Runtime!End(r)
        /\ Send(About("failed", task[r])) /\ About("failed", task[r]) \in Frame
    BY <1>4, <1>n, Frames DEF SendFailure, SendFailureAs, Runtime!Requeue
  <2>2. CASE r # Drain /\ task[r] = t
    BY <1>q, <2>1, <2>2 DEF Runtime!Enqueue
  <2>3. CASE r = Drain \/ task[r] # t
    BY <1>e, <1>k, <1>s, <2>1, <2>3 DEF Runtime!Enqueue
  <2> QED  BY <2>2, <2>3
<1>5. CASE RuntimeAlone(Runtime!Check(r))
  <2>1. /\ at[r] = "start" /\ UNCHANGED <<queue, toServer>>
        /\ \/ /\ \E stage \in {"ack", "queueing"} : at' = [at EXCEPT ![r] = stage]
              /\ UNCHANGED task
           \/ r = Drain /\ Runtime!End(r)
    BY <1>5 DEF RuntimeAlone, Runtime!Check, Runtime!Go, wire
  <2> QED  BY <1>e, <1>k, <2>1
<1>6. CASE RuntimeAlone(Runtime!Shelve(r))
  <2>1. Runtime!Enqueue(r) /\ Runtime!End(r) /\ UNCHANGED toServer
    BY <1>6 DEF RuntimeAlone, Runtime!Shelve, wire
  <2>2. CASE r # Drain /\ task[r] = t
    BY <1>q, <2>1, <2>2 DEF Runtime!Enqueue
  <2>3. CASE r = Drain \/ task[r] # t
    BY <1>e, <1>k, <2>1, <2>3 DEF Runtime!Enqueue
  <2> QED  BY <2>2, <2>3
<1>7. CASE RuntimeAlone(Runtime!RecordSuccess(r))
  <2>1. /\ at[r] = "answered" /\ UNCHANGED <<queue, toServer>>
        /\ \/ at' = [at EXCEPT ![r] = "marking"] /\ UNCHANGED task
           \/ Runtime!End(r)
    BY <1>7 DEF RuntimeAlone, Runtime!RecordSuccess, Runtime!Go, wire
  <2> QED  BY <1>e, <1>k, <2>1
<1>8. CASE RuntimeAlone(Runtime!MarkComplete(r))
  <2>1. /\ at[r] = "marking" /\ Runtime!End(r) /\ UNCHANGED toServer
        /\ queue' = IF r = Drain THEN queue \ {task[r]} ELSE queue
    BY <1>8 DEF RuntimeAlone, Runtime!MarkComplete, wire
  \* The queue is drained before anything pushed on this connection is read.
  <2>2. CASE r = Drain
    <3>1. main = "draining"
      BY <2>1, <2>2 DEF WireInv, DrainInv
    <3>2. Unread(s, t)
      BY <1>g, <1>l, <3>1 DEF WireInv, UnreadInv
    <3> QED  BY <1>p, <3>2 DEF Carried
  <2>3. CASE r # Drain
    BY <1>e, <1>k, <2>1, <2>3
  <2> QED  BY <2>2, <2>3
<1> QED  BY <1>1, <1>2, <1>3, <1>4, <1>5, <1>6, <1>7, <1>8 DEF RunStep
\* The steps of the runtime's connection loop.
LEMMA KeptByLoop ==
  ASSUME TypeInv, LinkInv, EntryInv, PushKept, LoopStep,
         NEW s \in Sockets, NEW t \in Tasks, status'[t] \in Server!InFlight, pushedOn'[t] = s
  PROVE  Kept(s, t)'
<1>t. /\ link \in [Sockets -> {"none", "up", "silent", "closed"}] /\ pc \in [Sockets -> Server!HandlerPCs]
      /\ at \in [Runners \cup {Drain} -> Runtime!Stages]
      /\ task \in [Runners \cup {Drain} -> Tasks \cup {None}]
  BY DEF TypeInv, TypeOK, Server!TypeOK, Runtime!TypeOK, Runtime!Runs
<1>u. /\ UNCHANGED <<status, rows, sub, pushedOn, queue>>
      /\ status[t] \in Server!InFlight /\ pushedOn[t] = s
  BY DEF LoopStep, Dial, ReadRegistered, RegisterFails, NoticeLoss, ReceiveEnds, ReadPush, RuntimeAlone,
         serverVars, history, Server!Connect, Server!LinkClosed, Server!taskDB, Server!request, Server!handler,
         Runtime!DialSucceeds, Runtime!Registered, Runtime!RegisterFails, Runtime!ConnectionLost,
         Runtime!ReceiveEnds, Runtime!Push, Runtime!DrainNext, Runtime!DrainDone, Runtime!BackoffEnds
<1>k. ASSUME link'[s] = "up" => link[s] = "up" /\ (Carried(s, t) => Carried(s, t)'), UNCHANGED pc
      PROVE  Kept(s, t)'
  BY <1>k, <1>u, KeptStays DEF BeforeCleanup, Held, HeldBy
<1>1. ASSUME NEW x \in Sockets, Dial(x) PROVE Kept(s, t)'
  <2>1. /\ main = "dial" /\ pc[x] = "free" /\ pc' = [pc EXCEPT ![x] = "accepted"]
        /\ link' = [link EXCEPT ![x] = "up"]
    BY <1>1 DEF Dial, Runtime!DialSucceeds, Server!Connect, Server!Goto
  <2>2. s # x
    BY <1>u, <2>1, NamesAssumption DEF EntryInv, Registered
  <2>3. link[s] # "up" /\ link'[s] = link[s]
    BY <1>t, <2>1, <2>2 DEF LinkInv
  <2>4. BeforeCleanup(s) => BeforeCleanup(s)'
    BY <1>t, <2>1, <2>2 DEF BeforeCleanup
  <2>5. Held(t) => Held(t)'
    BY <1>t, <1>u, <2>1 DEF Held, HeldBy
  <2> QED  BY <1>u, <2>3, <2>4, <2>5, KeptStays
<1>2. CASE ReadRegistered
  <2>1. /\ sock \in Sockets /\ toAgent[sock] # <<>> /\ Head(toAgent[sock]) = [kind |-> "registered"]
        /\ toAgent' = Read(sock, toAgent) /\ UNCHANGED <<pc, link, at, task, toServer>>
    BY <1>2 DEF ReadRegistered, Arrived, Runtime!Registered, Runtime!runs, serverVars, TypeInv, TypeOK
  <2>2. Head(toAgent[sock]) # About("push", t)
    BY <2>1 DEF About
  <2>3. Unread(s, t) => Unread(s, t)'
    BY <2>1, <2>2, UnreadStays
  <2>4. Carried(s, t) => Carried(s, t)'
    BY <1>u, <2>1, <2>3, CarriedStays DEF RunAt
  <2> QED  BY <1>k, <2>1, <2>4
\* No connection is live afterwards.
<1>3. CASE RegisterFails
  <2>1. UNCHANGED pc
    BY <1>3 DEF RegisterFails, Server!LinkClosed, Server!handler, serverVars
  <2>2. link'[s] # "up"
    <3>1. CASE ~up \/ link[sock] = "closed"
      BY <1>3, <3>1 DEF LinkInv, RegisterFails, serverVars
    <3>2. CASE up /\ link[sock] # "closed"
      BY <1>t, <1>3, <3>2 DEF LinkInv, RegisterFails, Server!LinkClosed
    <3> QED  BY <3>1, <3>2
  <2> QED  BY <1>k, <2>1, <2>2
<1>4. CASE ReceiveEnds \/ NoticeLoss
  <2>1. UNCHANGED <<pc, link>> /\ link[s] # "up"
    BY <1>4 DEF ReceiveEnds, NoticeLoss, RuntimeAlone, Runtime!ReceiveEnds, serverVars, LinkInv
  <2> QED  BY <1>k, <2>1
<1>5. ASSUME NEW u \in Tasks, ReadPush(u) PROVE Kept(s, t)'
  <2>1. /\ sock \in Sockets /\ toAgent[sock] # <<>> /\ Head(toAgent[sock]) = About("push", u)
        /\ toAgent' = Read(sock, toAgent) /\ UNCHANGED <<pc, link, status, queue, toServer>>
    BY <1>5, <1>u DEF ReadPush, Arrived, serverVars, TypeInv, TypeOK
  <2>2. PICK r \in Runners : /\ at[r] = "free" /\ at' = [at EXCEPT ![r] = "start"]
                             /\ task' = [task EXCEPT ![r] = u]
    BY <1>5 DEF ReadPush, Runtime!Push
  <2>3. \A q \in Runners : q # r => task'[q] = task[q]
    BY <1>t, <2>2
  <2>4. CASE u = t /\ s = sock
    <3>1. RunAt(t, {"start", "queueing", "ack"})'
      BY <1>t, <2>2, <2>4 DEF RunAt
    <3> QED  BY <1>k, <2>1, <3>1 DEF Carried
  <2>5. CASE ~(u = t /\ s = sock)
    <3>1. About("push", u) = About("push", t) => u = t
      BY DEF About
    <3>2. Unread(s, t) => Unread(s, t)'
      BY <2>1, <2>5, <3>1, UnreadStays
    <3>3. RunAt(t, {"start", "queueing", "ack"}) => RunAt(t, {"start", "queueing", "ack"})'
      <4>1. at[r] \notin {"start", "queueing", "ack"}
        BY <2>2
      <4> QED  BY <2>2, <2>3, <4>1, RunStays
    <3>4. RunAt(t, {"call", "failed"}) => RunAt(t, {"call", "failed"})'
      <4>1. at[r] \notin {"call", "failed"}
        BY <2>2
      <4> QED  BY <2>2, <2>3, <4>1, RunStays
    <3>5. Carried(s, t) => Carried(s, t)'
      BY <2>1, <3>2, <3>3, <3>4, CarriedStays
    <3> QED  BY <1>k, <2>1, <3>5
  <2> QED  BY <2>4, <2>5
<1>6. CASE RuntimeAlone(Runtime!DrainNext)
  <2>1. /\ at' = [at EXCEPT ![Drain] = "start"] /\ \A q \in Runners : q # Drain => task'[q] = task[q]
        /\ UNCHANGED <<pc, link, toAgent, toServer>>
    BY <1>6, <1>t DEF RuntimeAlone, Runtime!DrainNext, serverVars, wire
  <2>2. ASSUME NEW stages, RunAt(t, stages) PROVE RunAt(t, stages)'
    BY <2>1, <2>2, RunStays
  <2>3. Carried(s, t) => Carried(s, t)'
    BY <1>u, <2>1, <2>2, CarriedStays DEF Unread
  <2> QED  BY <1>k, <2>1, <2>3
<1>7. CASE RuntimeAlone(Runtime!DrainDone) \/ RuntimeAlone(Runtime!BackoffEnds)
  <2>1. UNCHANGED <<pc, link, at, task, toAgent, toServer>>
    BY <1>7 DEF RuntimeAlone, Runtime!DrainDone, Runtime!BackoffEnds, Runtime!runs, serverVars, wire
  <2>2. Carried(s, t) => Carried(s, t)'
    BY <1>u, <2>1, CarriedStays DEF Unread, RunAt
  <2> QED  BY <1>k, <2>1, <2>2
<1> QED  BY <1>1, <1>2, <1>3, <1>4, <1>5, <1>6, <1>7 DEF LoopStep

LEMMA KeptStep == TypeInv /\ WireInv /\ PushKept /\ [Next]_vars => PushKept'
<1> SUFFICES ASSUME TypeInv, WireInv, PushKept, [Next]_vars,
                    NEW s \in Sockets, NEW t \in Tasks, status'[t] \in Server!InFlight, pushedOn'[t] = s
             PROVE  Kept(s, t)'
  BY DEF PushKept, Kept, Held
<1>i. LinkInv /\ EntryInv
  BY DEF WireInv
<1>1. ASSUME NEW x \in Sockets, ServerStep(x) PROVE Kept(s, t)'
  BY <1>1, <1>i, KeptByHandler
<1>2. CASE Sweep \/ Environment \/ \E u \in Tasks : SubmitStep(u) \/ ServerAlone(Server!SubmitCheck(u))
  BY <1>2, <1>i, KeptByOthers
<1>3. ASSUME NEW r \in Runners \cup {Drain}, RunStep(r) PROVE Kept(s, t)'
  BY <1>3, KeptByRun
<1>4. CASE LoopStep
  BY <1>4, <1>i, KeptByLoop
<1>5. CASE UNCHANGED vars
  <2>1. UNCHANGED <<status, link, pc, rows, sub, pushedOn, queue, task, at, toAgent, toServer>>
    BY <1>5 DEF vars, serverVars, runtimeVars, wire, history
  <2>2. Kept(s, t)
    BY <2>1 DEF PushKept, Kept, Held
  <2> QED
    BY <2>1, <2>2
       DEF Kept, Held, HeldBy, BeforeCleanup, Carried, ResultAfter, Unread, RunAt
<1> QED  BY <1>1, <1>2, <1>3, <1>4, <1>5 DEF Next, Steps, Request

\* A push that went out on a live connection is not forgotten while its task is in flight,
\* however the handlers, the watchdog, the requests, the runs and the loss of connections
\* interleave: it is on its way, at a run or in the queue, its ack and its result are behind
\* each other on the wire, or a cleanup or another push of the task is still to come.
THEOREM PushesKept == Spec => []PushKept
<1>1. Init => WireInv /\ PushKept
  <2> SUFFICES ASSUME Init PROVE WireInv /\ PushKept
    OBVIOUS
  <2>1. LinkInv /\ EntryInv
    BY DEF Init, Server!Init, Runtime!Init, LinkInv, EntryInv
  <2>2. DrainInv
    BY DEF Init, Runtime!Init, Runtime!Runs, DrainInv
  <2>3. UnreadInv
    BY DEF Init, Server!Init, UnreadInv
  <2>4. PushKept
    BY DEF Init, Server!Init, Server!InFlight, PushKept
  <2> QED  BY <2>1, <2>2, <2>3, <2>4 DEF WireInv
<1>2. TypeInv /\ WireInv /\ [Next]_vars => WireInv'
  BY LinkStep, EntryStep, DrainStep, UnreadStep DEF WireInv
<1> QED  BY <1>1, <1>2, KeptStep, TypeInit, TypeStep, PTL DEF Spec
-----------------------------------------------------------------------------
(* The frames that are read are ones Relay's handler is written for.       *)

\* The frames about tasks whose push reached the runtime.
KnownFrames == {f \in Frame : f.kind \in {"register", "registered"} \/ f.task \in known}

\* Nothing on the wire, in the queue or at a run is about any other task.
KnownWire ==
    \A s \in Sockets : toServer[s] \in Seq(KnownFrames) /\ toAgent[s] \in Seq(KnownFrames)
KnownRuns ==
    /\ queue \subseteq known /\ todo \subseteq known
    /\ \A r \in Runners \cup {Drain} : at[r] # "free" => task[r] \in known
KnownInv == KnownWire /\ KnownRuns

\* Beyond the task's status, what Relay's TaskAck and TaskResult ask of a frame is so of every
\* frame that comes: it is on a connection of the agent, about a task it was pushed.
Expected ==
    \A s \in Sockets, t \in Tasks, kind \in {"ack", "complete", "failed"} :
        pc[s] = "serving" /\ Arrived(s, toServer, About(kind, t)) =>
            peer[s] = agent /\ t \in known

LEMMA KnownGrows ==
  ASSUME [Next]_vars
  PROVE  known \subseteq known'
<1> USE DEF Server!net, serverVars, ServerAlone
<1>1. ASSUME NEW s \in Sockets, ServerStep(s) PROVE known \subseteq known'
  BY <1>1
     DEF ServerStep, ReadRegister, SendRegistered, PushPending, Hangup, ReadAck, ReadResult,
         Server!RegisterLookup, Server!RegisterAck, Server!DrainPush, Server!Push, Server!Hangup,
         Server!TaskAck, Server!TaskResult, Server!RegisterConnect, Server!RegisterStatus,
         Server!DrainClaim, Server!DrainDone, Server!CleanupSelect, Server!CleanupRequeue,
         Server!CleanupDisconnect, Server!CleanupStatus
<1>2. ASSUME NEW t \in Tasks, SubmitStep(t) \/ ServerAlone(Server!SubmitCheck(t))
      PROVE  known \subseteq known'
  BY <1>2
     DEF SubmitStep, PushSubmitted, Server!SubmitCheck, Server!SubmitInsert, Server!SubmitClaim,
         Server!SubmitSend, Server!Push, Server!SubmitRevert
<1>3. CASE Sweep \/ Environment
  BY <1>3 DEF Sweep, Environment, Server!TimeoutSweep, Server!PeerLost, Server!LinkClosed, Server!TaskOverdue
<1>4. ASSUME NEW r \in Runners \cup {Drain}, RunStep(r) PROVE known \subseteq known'
  BY <1>4 DEF RunStep, SendAck, SendAnswer, Err, SendFailure, SendFailureAs, RuntimeAlone
<1>5. CASE LoopStep
  BY <1>5
     DEF LoopStep, Dial, ReadRegistered, RegisterFails, NoticeLoss, ReceiveEnds, ReadPush, RuntimeAlone,
         Server!Connect, Server!LinkClosed
<1>6. CASE UNCHANGED vars
  BY <1>6 DEF vars
<1> QED  BY <1>1, <1>2, <1>3, <1>4, <1>5, <1>6 DEF Next, Steps, Request

LEMMA MoreKnown ==
  ASSUME known \subseteq known'
  PROVE  KnownFrames \subseteq KnownFrames' /\ Seq(KnownFrames) \subseteq Seq(KnownFrames')
<1>1. KnownFrames \subseteq KnownFrames'
  BY DEF KnownFrames
<1>2. ASSUME NEW q \in Seq(KnownFrames) PROVE q \in Seq(KnownFrames')
  BY <1>1
<1> QED  BY <1>1, <1>2

\* What is pushed, is known.
LEMMA PushIsKnown ==
  ASSUME TypeInv, NEW t \in Tasks, SendPush(t), Server!Push(agent, t), known \subseteq known',
         NEW s \in Sockets, toAgent[s] \in Seq(KnownFrames)
  PROVE  toAgent'[s] \in Seq(KnownFrames')
<1>t. toAgent \in [Sockets -> Seq(Frame)] /\ conns[agent] \in Sockets \cup {None}
  BY DEF TypeInv, TypeOK, Server!TypeOK
<1>q. toAgent[s] \in Seq(KnownFrames')
  BY MoreKnown
<1>1. CASE toAgent'[s] = toAgent[s]
  BY <1>1, <1>q
<1>2. CASE toAgent'[s] # toAgent[s]
  <2>1. /\ conns[agent] = s /\ link[s] = "up" /\ s # None
        /\ toAgent'[s] = Append(toAgent[s], About("push", t))
    BY <1>2, <1>t, NamesAssumption DEF SendPush
  <2>2. t \in known'
    BY <2>1 DEF Server!Push
  <2>3. About("push", t) \in KnownFrames'
    BY <2>2, Frames DEF KnownFrames, About
  <2> QED  BY <1>q, <2>1, <2>3
<1> QED  BY <1>1, <1>2

LEMMA KnownWireKept ==
  ASSUME TypeInv, LinkInv, KnownInv, [Next]_vars
  PROVE  KnownWire'
<1>t. toServer \in [Sockets -> Seq(Frame)] /\ toAgent \in [Sockets -> Seq(Frame)]
  BY DEF TypeInv, TypeOK
<1>m. known \subseteq known'
  BY KnownGrows
<1>h. \A s \in Sockets : toServer[s] \in Seq(KnownFrames') /\ toAgent[s] \in Seq(KnownFrames')
  BY <1>m, MoreKnown DEF KnownInv, KnownWire
<1>k. ASSUME \A s \in Sockets : toServer'[s] \in Seq(KnownFrames') \/ toServer'[s] = toServer[s],
             \A s \in Sockets : toAgent'[s] \in Seq(KnownFrames') \/ toAgent'[s] = toAgent[s]
      PROVE  KnownWire'
  BY <1>h, <1>k DEF KnownWire
<1>u. ASSUME UNCHANGED wire PROVE KnownWire'
  BY <1>k, <1>u DEF wire
<1>d. ASSUME NEW x \in Sockets, NEW chan \in [Sockets -> Seq(Frame)], NEW chan1, chan[x] # <<>>,
             \A s \in Sockets : chan[s] \in Seq(KnownFrames'), chan1 = Read(x, chan)
      PROVE  \A s \in Sockets : chan1[s] \in Seq(KnownFrames')
  <2>1. Tail(chan[x]) \in Seq(KnownFrames')
    BY <1>d
  <2> QED  BY <1>d, <2>1 DEF Read
<1>e. <<>> \in Seq(KnownFrames')
  OBVIOUS
<1>p. ASSUME NEW t \in Tasks, SendPush(t), Server!Push(agent, t), UNCHANGED toServer PROVE KnownWire'
  BY <1>h, <1>m, <1>p, PushIsKnown DEF KnownWire, KnownInv
<1>1. ASSUME NEW x \in Sockets, ServerStep(x) PROVE KnownWire'
  <2>1. ASSUME toServer[x] # <<>>, toServer' = Read(x, toServer), UNCHANGED toAgent PROVE KnownWire'
    BY <1>d, <1>h, <1>k, <1>t, <2>1
  <2>2. CASE SendRegistered(x)
    <3>1. [kind |-> "registered"] \in KnownFrames'
      BY Frames DEF KnownFrames
    <3>2. Append(toAgent[x], [kind |-> "registered"]) \in Seq(KnownFrames')
      BY <1>h, <3>1
    <3>3. \A s \in Sockets : toAgent'[s] \in Seq(KnownFrames') \/ toAgent'[s] = toAgent[s]
      BY <1>t, <2>2, <3>2 DEF SendRegistered
    <3> QED  BY <1>k, <2>2, <3>3 DEF SendRegistered
  <2>3. CASE PushPending(x)
    <3>1. PICK r \in rows[x] : Server!DrainPush(x) /\ rows'[x] = rows[x] \ {r} /\ SendPush(r.task)
                               /\ UNCHANGED toServer
      BY <2>3 DEF PushPending
    <3>2. r.task \in Tasks
      BY DEF TypeInv, TypeOK, Server!TypeOK, Server!Row
    <3>3. Server!Push(agent, r.task)
      <4>1. peer[x] = agent
        BY <3>1 DEF LinkInv, Server!DrainPush
      <4>2. PICK q \in rows[x] : Server!Push(peer[x], q.task) /\ rows' = [rows EXCEPT ![x] = @ \ {q}]
        BY <3>1 DEF Server!DrainPush
      <4>3. rows'[x] = rows[x] \ {q}
        BY <4>2 DEF TypeInv, TypeOK, Server!TypeOK
      <4>4. q = r
        BY <3>1, <4>3
      <4> QED  BY <4>1, <4>2, <4>4
    <3> QED  BY <1>p, <3>1, <3>2, <3>3
  <2>4. CASE Hangup(x)
    BY <1>e, <1>k, <1>t, <2>4 DEF Hangup
  <2> QED
    BY <1>1, <1>u, <2>1, <2>2, <2>3, <2>4
       DEF ServerStep, ReadRegister, ReadAck, ReadResult, Arrived, ServerAlone
<1>2. ASSUME NEW t \in Tasks, SubmitStep(t) \/ ServerAlone(Server!SubmitCheck(t)) PROVE KnownWire'
  <2>1. CASE PushSubmitted(t)
    BY <1>p, <2>1 DEF PushSubmitted, Server!SubmitSend
  <2> QED  BY <1>2, <1>u, <2>1 DEF SubmitStep, ServerAlone
<1>3. CASE Sweep \/ Environment
  BY <1>3, <1>u DEF Sweep, Environment, ServerAlone
<1>4. ASSUME NEW r \in Runners \cup {Drain}, RunStep(r) PROVE KnownWire'
  <2>1. ASSUME NEW kind \in {"ack", "complete", "failed"}, at[r] # "free", Send(About(kind, task[r])),
               UNCHANGED toAgent
        PROVE  KnownWire'
    <3>1. task[r] \in Tasks /\ task[r] \in known'
      BY <1>m, <2>1 DEF TypeInv, RunsAssigned, Runtime!Runs, KnownInv, KnownRuns
    <3>2. About(kind, task[r]) \in KnownFrames'
      BY <3>1, Frames DEF KnownFrames, About
    <3>3. \A s \in Sockets : Append(toServer[s], About(kind, task[r])) \in Seq(KnownFrames')
      BY <1>h, <3>2
    <3>4. \A s \in Sockets : toServer'[s] \in Seq(KnownFrames') \/ toServer'[s] = toServer[s]
      BY <1>t, <2>1, <3>3 DEF Send
    <3> QED  BY <1>k, <2>1, <3>4
  <2> QED
    BY <1>4, <1>u, <2>1
       DEF RunStep, SendAck, SendAnswer, Err, SendFailure, SendFailureAs, RuntimeAlone,
           Runtime!Ack, Runtime!CallSucceeds, Runtime!Requeue
<1>5. CASE LoopStep
  <2>1. ASSUME NEW s \in Sockets, Dial(s) PROVE KnownWire'
    <3>1. [kind |-> "register"] \in KnownFrames'
      BY Frames DEF KnownFrames
    <3>2. <<[kind |-> "register"]>> \in Seq(KnownFrames')
      BY <3>1
    <3>3. \A z \in Sockets : toServer'[z] \in Seq(KnownFrames') \/ toServer'[z] = toServer[z]
      BY <1>t, <2>1, <3>2 DEF Dial
    <3> QED  BY <1>k, <2>1, <3>3 DEF Dial
  <2>2. CASE ReadRegistered \/ \E t \in Tasks : ReadPush(t)
    <3>1. /\ sock \in Sockets /\ toAgent[sock] # <<>> /\ toAgent' = Read(sock, toAgent)
          /\ UNCHANGED toServer
      BY <2>2 DEF ReadRegistered, ReadPush, Arrived, TypeInv, TypeOK
    <3> QED  BY <1>d, <1>h, <1>k, <1>t, <3>1
  <2>3. CASE RegisterFails \/ ReceiveEnds
    BY <1>e, <1>k, <1>t, <2>3 DEF RegisterFails, ReceiveEnds
  <2> QED  BY <1>5, <1>u, <2>1, <2>2, <2>3 DEF LoopStep, NoticeLoss, RuntimeAlone
<1>6. CASE UNCHANGED vars
  BY <1>6, <1>u DEF vars
<1> QED  BY <1>1, <1>2, <1>3, <1>4, <1>5, <1>6 DEF Next, Steps, Request

LEMMA KnownRunsKept ==
  ASSUME TypeInv, KnownInv, [Next]_vars
  PROVE  KnownRuns'
<1>t. /\ at \in [Runners \cup {Drain} -> Runtime!Stages]
      /\ task \in [Runners \cup {Drain} -> Tasks \cup {None}]
  BY DEF TypeInv, TypeOK, Runtime!TypeOK, Runtime!Runs
<1>m. known \subseteq known'
  BY KnownGrows
<1>h. /\ queue \subseteq known' /\ todo \subseteq known'
      /\ \A r \in Runners \cup {Drain} : at[r] # "free" => task[r] \in known'
  BY <1>m DEF KnownInv, KnownRuns
<1>k. ASSUME queue' \subseteq known', todo' \subseteq known',
             \/ UNCHANGED <<task, at>>
             \/ \E r \in Runners \cup {Drain}, t \in known' :
                  /\ task' = [task EXCEPT ![r] = t] /\ \E stage : at' = [at EXCEPT ![r] = stage]
             \/ \E r \in Runners \cup {Drain} :
                  /\ at[r] # "free"
                  /\ \E stage : at' = [at EXCEPT ![r] = stage] /\ (task' = task \/ stage = "free")
                  /\ \A q \in Runners \cup {Drain} : q # r => task'[q] = task[q]
      PROVE  KnownRuns'
  BY <1>h, <1>k, <1>t DEF KnownRuns
<1>1. CASE UNCHANGED runtimeVars
  BY <1>1, <1>h, <1>k DEF runtimeVars
<1>2. ASSUME NEW r \in Runners \cup {Drain}, RunStep(r) PROVE KnownRuns'
  <2>1. at[r] # "free" /\ todo' = todo
    BY <1>2
       DEF RunStep, SendAck, SendAnswer, Err, SendFailure, SendFailureAs, RuntimeAlone, Runtime!Check,
           Runtime!Shelve, Runtime!Ack, Runtime!CallSucceeds, Runtime!CallFails, Runtime!Requeue,
           Runtime!RecordSuccess, Runtime!MarkComplete, Runtime!loop
  <2>2. task[r] \in known'
    BY <1>h, <2>1
  <2>3. queue' \subseteq queue \cup {task[r]}
    BY <1>2
       DEF RunStep, SendAck, SendAnswer, Err, SendFailure, SendFailureAs, RuntimeAlone, Runtime!Check,
           Runtime!Shelve, Runtime!Ack, Runtime!CallSucceeds, Runtime!CallFails, Runtime!Requeue,
           Runtime!RecordSuccess, Runtime!MarkComplete, Runtime!Enqueue
  <2>4. Runtime!End(r) \/ \E stage : Runtime!Go(r, stage)
    BY <1>2
       DEF RunStep, SendAck, SendAnswer, Err, SendFailure, SendFailureAs, RuntimeAlone, Runtime!Check,
           Runtime!Shelve, Runtime!Ack, Runtime!CallSucceeds, Runtime!CallFails, Runtime!Requeue,
           Runtime!RecordSuccess, Runtime!MarkComplete
  <2>5. \E stage : at' = [at EXCEPT ![r] = stage] /\ (task' = task \/ stage = "free")
    BY <2>4 DEF Runtime!End, Runtime!Go
  <2>6. \A q \in Runners \cup {Drain} : q # r => task'[q] = task[q]
    BY <1>t, <2>4 DEF Runtime!End, Runtime!Go
  <2> QED  BY <1>h, <1>k, <2>1, <2>2, <2>3, <2>5, <2>6
<1>3. CASE LoopStep
  <2>1. ASSUME NEW t \in Tasks, ReadPush(t) PROVE KnownRuns'
    <3>1. /\ sock \in Sockets /\ toAgent[sock] # <<>> /\ Head(toAgent[sock]) = About("push", t)
          /\ UNCHANGED <<queue, todo>>
      BY <2>1 DEF ReadPush, Arrived, Runtime!Push, Runtime!loop, TypeInv, TypeOK
    <3>2. About("push", t) \in KnownFrames
      BY <3>1 DEF KnownInv, KnownWire
    <3>3. t \in known'
      BY <1>m, <3>2 DEF KnownFrames, About
    <3>4. \E r \in Runners : task' = [task EXCEPT ![r] = t] /\ at' = [at EXCEPT ![r] = "start"]
      BY <2>1 DEF ReadPush, Runtime!Push
    <3> QED  BY <1>h, <1>k, <3>1, <3>3, <3>4
  <2>2. CASE RuntimeAlone(Runtime!DrainNext)
    <3>1. \E t \in todo : /\ task' = [task EXCEPT ![Drain] = t] /\ at' = [at EXCEPT ![Drain] = "start"]
                          /\ todo' \subseteq todo /\ UNCHANGED queue
      BY <2>2 DEF RuntimeAlone, Runtime!DrainNext
    <3> QED  BY <1>h, <1>k, <3>1
  <2>3. CASE \/ \E s \in Sockets : Dial(s)
             \/ ReadRegistered \/ RegisterFails \/ ReceiveEnds \/ NoticeLoss
             \/ RuntimeAlone(Runtime!DrainDone) \/ RuntimeAlone(Runtime!BackoffEnds)
    <3>1. UNCHANGED <<task, at, queue>> /\ todo' \in {todo, queue}
      BY <2>3
         DEF Dial, ReadRegistered, RegisterFails, ReceiveEnds, NoticeLoss, RuntimeAlone, Runtime!runs,
             Runtime!DialSucceeds, Runtime!Registered, Runtime!RegisterFails, Runtime!ReceiveEnds,
             Runtime!ConnectionLost, Runtime!DrainDone, Runtime!BackoffEnds
    <3> QED  BY <1>h, <1>k, <3>1
  <2> QED  BY <1>3, <2>1, <2>2, <2>3 DEF LoopStep
<1>4. CASE UNCHANGED vars
  BY <1>1, <1>4 DEF vars
<1> QED
  BY <1>1, <1>2, <1>3, <1>4
     DEF Next, Steps, Request, Environment, Sweep, ServerStep, SubmitStep, ServerAlone, ReadRegister,
         SendRegistered, PushPending, PushSubmitted, ReadAck, ReadResult, Hangup

\* No frame of the runtime is one that Relay's handler would have to wait for ever to read.
THEOREM FramesExpected == Spec => []Expected
<1>1. Init => LinkInv /\ KnownInv
  <2> SUFFICES ASSUME Init PROVE LinkInv /\ KnownInv
    OBVIOUS
  <2>1. <<>> \in Seq(KnownFrames)
    OBVIOUS
  <2>2. KnownWire
    BY <2>1 DEF Init, KnownWire
  <2>3. KnownRuns
    BY DEF Init, Runtime!Init, Runtime!Runs, KnownRuns
  <2>4. LinkInv
    BY DEF Init, Server!Init, Runtime!Init, LinkInv
  <2> QED  BY <2>2, <2>3, <2>4 DEF KnownInv
<1>2. TypeInv /\ LinkInv /\ KnownInv /\ [Next]_vars => KnownInv'
  BY KnownWireKept, KnownRunsKept DEF KnownInv
<1>3. TypeInv /\ LinkInv /\ KnownInv => Expected
  <2> SUFFICES ASSUME LinkInv, KnownInv, NEW s \in Sockets, NEW t \in Tasks,
                      NEW kind \in {"ack", "complete", "failed"},
                      pc[s] = "serving", Arrived(s, toServer, About(kind, t))
               PROVE  peer[s] = agent /\ t \in known
    BY DEF Expected
  <2>1. Head(toServer[s]) \in KnownFrames /\ Head(toServer[s]) = About(kind, t)
    BY DEF KnownInv, KnownWire, Arrived
  <2> QED  BY <2>1 DEF LinkInv, KnownFrames, About
<1> QED  BY <1>1, <1>2, <1>3, LinkStep, TypeInit, TypeStep, PTL DEF Spec

-----------------------------------------------------------------------------
(* The composition is one of its parts.                                    *)

\* System's constants are ones the two modules are written for: this is what they assume.
LEMMA PartsAssumed ==
  /\ [t \in Tasks |-> agent] \in [Tasks -> {agent}]
  /\ MaxRetries \in Nat \ {0} /\ Threshold \in Nat \ {0}
  /\ None \notin Sockets /\ None \notin {agent}
  /\ Drain \notin Runners /\ None \notin Runners /\ None \notin Tasks
BY NamesAssumption, LimitsAssumption

\* Every step of the composition is one the orchestrator can make by itself ...
LEMMA ServerRefined == TypeInv /\ LinkInv /\ [Next]_vars => [Server!Next]_(Server!vars)
<1> SUFFICES ASSUME TypeInv, LinkInv, [Next]_vars PROVE [Server!Next]_(Server!vars)
  OBVIOUS
<1>u. ASSUME UNCHANGED serverVars PROVE [Server!Next]_(Server!vars)
  BY <1>u
     DEF serverVars, Server!vars, Server!taskDB, Server!agentDB, Server!table, Server!net,
         Server!handler, Server!request, Server!beats, Server!bounds
<1>1. ASSUME NEW s \in Sockets, ServerStep(s) PROVE [Server!Next]_(Server!vars)
  <2>1. \/ Server!Registering(s) \/ Server!Draining(s) \/ Server!Receiving(s) \/ Server!Closing(s)
        \/ UNCHANGED serverVars
    BY <1>1
       DEF ServerStep, ReadRegister, SendRegistered, PushPending, Hangup, ReadAck, ReadResult, ServerAlone,
           Server!Registering, Server!Draining, Server!Receiving, Server!Closing
  <2> QED  BY <1>u, <2>1 DEF Server!Next
<1>2. ASSUME NEW t \in Tasks, SubmitStep(t) \/ ServerAlone(Server!SubmitCheck(t))
      PROVE  [Server!Next]_(Server!vars)
  BY <1>2 DEF SubmitStep, PushSubmitted, ServerAlone, Server!Submitting, Server!Next
<1>3. CASE Sweep
  BY <1>3 DEF Sweep, ServerAlone, Server!Watching, Server!Next
<1>4. CASE Environment
  BY <1>4 DEF Environment, ServerAlone, Server!Environment, Server!Next
<1>5. ASSUME NEW r \in Runners \cup {Drain}, RunStep(r) PROVE [Server!Next]_(Server!vars)
  BY <1>5, <1>u DEF RunStep, SendAck, SendAnswer, Err, SendFailure, SendFailureAs, RuntimeAlone
<1>6. CASE LoopStep
  <2>1. ASSUME NEW s \in Sockets, Dial(s) PROVE [Server!Next]_(Server!vars)
    BY <2>1 DEF Dial, Server!Environment, Server!Next
  <2>2. CASE RegisterFails
    <3>1. UNCHANGED serverVars \/ (sock \in Sockets /\ Server!LinkClosed(sock))
      BY <2>2 DEF RegisterFails, LinkInv
    <3> QED  BY <1>u, <3>1 DEF Server!Environment, Server!Next
  <2> QED
    BY <1>6, <1>u, <2>1, <2>2
       DEF LoopStep, ReadRegistered, NoticeLoss, ReceiveEnds, ReadPush, RuntimeAlone
<1>7. CASE UNCHANGED vars
  BY <1>7, <1>u DEF vars
<1> QED  BY <1>1, <1>2, <1>3, <1>4, <1>5, <1>6, <1>7 DEF Next, Steps, Request

\* ... and one the runtime can.
LEMMA RuntimeRefined == [Next]_vars => [Runtime!Next]_(Runtime!vars)
<1> SUFFICES ASSUME [Next]_vars PROVE [Runtime!Next]_(Runtime!vars)
  OBVIOUS
<1>u. ASSUME UNCHANGED runtimeVars PROVE [Runtime!Next]_(Runtime!vars)
  BY <1>u DEF runtimeVars, Runtime!vars, Runtime!loop, Runtime!runs, Runtime!breaker
<1>1. ASSUME NEW s \in Sockets, ServerStep(s) PROVE [Runtime!Next]_(Runtime!vars)
  BY <1>1, <1>u
     DEF ServerStep, ReadRegister, SendRegistered, PushPending, Hangup, ReadAck, ReadResult, ServerAlone
<1>2. ASSUME NEW t \in Tasks, SubmitStep(t) \/ ServerAlone(Server!SubmitCheck(t))
      PROVE  [Runtime!Next]_(Runtime!vars)
  BY <1>2, <1>u DEF SubmitStep, PushSubmitted, ServerAlone
<1>3. CASE Sweep \/ Environment
  BY <1>3, <1>u DEF Sweep, Environment, ServerAlone
<1>4. ASSUME NEW r \in Runners \cup {Drain}, RunStep(r) PROVE [Runtime!Next]_(Runtime!vars)
  BY <1>4
     DEF RunStep, SendAck, SendAnswer, Err, SendFailure, SendFailureAs, RuntimeAlone,
         Runtime!Running, Runtime!Runs, Runtime!Next
<1>5. CASE LoopStep
  BY <1>5
     DEF LoopStep, Dial, ReadRegistered, RegisterFails, NoticeLoss, ReceiveEnds, ReadPush, RuntimeAlone,
         Runtime!Looping, Runtime!Next
<1>6. CASE UNCHANGED vars
  BY <1>6, <1>u DEF vars
<1> QED  BY <1>1, <1>2, <1>3, <1>4, <1>5, <1>6 DEF Next, Steps, Request

\* What the orchestrator does with a real runtime behind the wire, it also does with the
\* peers of Relay: no frame is read that its environment could not have sent, so that
\* whatever Relay's theorems say of every run holds of the composition's.
THEOREM OrchestratorRefined == Spec => Server!Spec
<1>1. Init => Server!Init /\ LinkInv
  BY DEF Init, Server!Init, Runtime!Init, LinkInv
<1> QED
  BY <1>1, LinkStep, ServerRefined, TypeInit, TypeStep, PTL DEF Spec, Server!Spec

\* The same of the runtime with a real orchestrator.
THEOREM RuntimeIsRefined == Spec => Runtime!Spec
<1>1. Init => Runtime!Init
  BY DEF Init
<1> QED  BY <1>1, RuntimeRefined, PTL DEF Spec, Runtime!Spec
=============================================================================
