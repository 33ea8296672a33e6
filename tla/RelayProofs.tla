---------------------------- MODULE RelayProofs -----------------------------
(***************************************************************************)
(* Theorems about Relay, for every set of agents, tasks and sockets, every *)
(* MaxRetries and any number of restarts and SQL faults.                   *)
(***************************************************************************)
EXTENDS Relay, TLAPS

\* Every action leaves the variables in their types.
LEMMA TypeStep == TypeOK /\ [Next]_vars => TypeOK'
<1> SUFFICES ASSUME TypeOK, [Next]_vars PROVE TypeOK'
  OBVIOUS
<1> USE AssignedToAssumption, RetriesAssumption, BoundsAssumption, NoneAssumption
<1> USE DEF TypeOK, Statuses, InFlight, Terminal, HandlerPCs, Row,
            taskDB, agentDB, table, net, handler, request, beats, bounds
<1>1. ASSUME NEW s \in Sockets, Registering(s) PROVE TypeOK'
  <2>1. CASE RegisterLookup(s)  BY <2>1 DEF RegisterLookup, Goto
  <2>2. CASE RegisterConnect(s) BY <2>2 DEF RegisterConnect, Goto, Enter
  <2>3. CASE RegisterStatus(s)  BY <2>3 DEF RegisterStatus, Goto, SetStatus
  <2>4. CASE RegisterAck(s)     BY <2>4 DEF RegisterAck, Goto
  <2> QED BY <1>1, <2>1, <2>2, <2>3, <2>4 DEF Registering
<1>2. ASSUME NEW s \in Sockets, Draining(s) PROVE TypeOK'
  <2>1. CASE DrainClaim(s) BY <2>1 DEF DrainClaim, Goto, Claim, RowsOf, Of
  <2>2. CASE DrainPush(s)  BY <2>2 DEF DrainPush, Push, Remove, Enter
  <2>3. CASE DrainDone(s)  BY <2>3 DEF DrainDone, Goto
  <2> QED BY <1>2, <2>1, <2>2, <2>3 DEF Draining
<1>3. ASSUME NEW s \in Sockets, Receiving(s) PROVE TypeOK'
  <2>1. CASE Heartbeat(s)    BY <2>1 DEF Heartbeat
  <2>2. CASE StatusUpdate(s)
    <3>1. agent_status' = [agent_status EXCEPT ![peer[s]] = "online"]
      BY <2>2 DEF StatusUpdate, SetStatus, SelfReportable
    <3> QED BY <2>2, <3>1 DEF StatusUpdate
  <2>3. ASSUME NEW t \in Tasks, TaskAck(s, t) PROVE TypeOK'
    BY <2>3 DEF TaskAck, Settle
  <2>4. ASSUME NEW t \in Tasks, NEW final \in {"complete", "failed"}, TaskResult(s, t, final)
        PROVE TypeOK'
    BY <2>4 DEF TaskResult, Settle
  <2> QED BY <1>3, <2>1, <2>2, <2>3, <2>4 DEF Receiving
<1>4. ASSUME NEW s \in Sockets, Closing(s) PROVE TypeOK'
  <2>1. CASE Hangup(s)            BY <2>1 DEF Hangup, Goto
  <2>2. CASE CleanupSelect(s)     BY <2>2 DEF CleanupSelect, Goto, RowsOf, Of
  <2>3. CASE CleanupRequeue(s)    BY <2>3 DEF CleanupRequeue, Settle, BackToPending
  <2>4. CASE CleanupDisconnect(s) BY <2>4 DEF CleanupDisconnect, Goto, Remove, Enter
  <2>5. CASE CleanupStatus(s)     BY <2>5 DEF CleanupStatus, Goto, SetStatus
  <2> QED BY <1>4, <2>1, <2>2, <2>3, <2>4, <2>5 DEF Closing
<1>5. ASSUME NEW t \in Tasks, Submitting(t) PROVE TypeOK'
  <2>1. CASE SubmitCheck(t)  BY <2>1 DEF SubmitCheck
  <2>2. CASE SubmitInsert(t) BY <2>2 DEF SubmitInsert
  <2>3. CASE SubmitClaim(t)  BY <2>3 DEF SubmitClaim, Claim
  <2>4. CASE SubmitSend(t)   BY <2>4 DEF SubmitSend, Push, Remove, Enter
  <2>5. CASE SubmitRevert(t) BY <2>5 DEF SubmitRevert, BackToPending
  <2> QED BY <1>5, <2>1, <2>2, <2>3, <2>4, <2>5 DEF Submitting
<1>6. ASSUME NEW a \in Agents, Removing(a) PROVE TypeOK'
  <2>1. CASE RemoveLookup(a) BY <2>1 DEF RemoveLookup
  <2>2. CASE RemoveMark(a)   BY <2>2 DEF RemoveMark, SetStatus
  <2>3. CASE RemoveFail(a)   BY <2>3 DEF RemoveFail, Settle
  <2>4. CASE RemoveClose(a)  BY <2>4 DEF RemoveClose, Remove, Enter
  <2> QED BY <1>6, <2>1, <2>2, <2>3, <2>4 DEF Removing
<1>7. CASE Deleting
  <2>1. ASSUME NEW t \in Tasks, DeleteCheck(t) PROVE TypeOK'
    BY <2>1 DEF DeleteCheck
  <2>2. ASSUME NEW t \in Tasks, DeleteCommit(t) PROVE TypeOK'
    BY <2>2 DEF DeleteCommit, DeleteRows
  <2>3. ASSUME NEW sc \in Scopes, BulkDelete(sc) PROVE TypeOK'
    BY <2>3 DEF BulkDelete, DeleteRows
  <2> QED BY <1>7, <2>1, <2>2, <2>3 DEF Deleting
<1>8. CASE Watching
  <2>1. CASE TimeoutSweep BY <2>1 DEF TimeoutSweep, Settle
  <2>2. CASE HbScan       BY <2>2 DEF HbScan, Remove, Enter
  <2>3. CASE HbMark       BY <2>3 DEF HbMark, SetStatus
  <2>4. CASE HbNext       BY <2>4 DEF HbNext, Remove, Enter
  <2> QED BY <1>8, <2>1, <2>2, <2>3, <2>4 DEF Watching
<1>9. CASE Environment
  <2>1. ASSUME NEW s \in Sockets, NEW a \in Agents, Connect(s, a) PROVE TypeOK'
    BY <2>1 DEF Connect, Goto
  <2>2. ASSUME NEW s \in Sockets, PeerLost(s) PROVE TypeOK'
    BY <2>2 DEF PeerLost
  <2>3. ASSUME NEW s \in Sockets, LinkClosed(s) PROVE TypeOK'
    BY <2>3 DEF LinkClosed
  <2>4. ASSUME NEW t \in Tasks, TaskOverdue(t) PROVE TypeOK'
    BY <2>4 DEF TaskOverdue
  <2>5. ASSUME NEW a \in Agents, HeartbeatLate(a) PROVE TypeOK'
    BY <2>5 DEF HeartbeatLate
  <2> QED BY <1>9, <2>1, <2>2, <2>3, <2>4, <2>5 DEF Environment
<1>10. CASE Failing
  <2>1. CASE Restart        BY <2>1 DEF Restart, SweepStatuses
  <2>2. CASE TimeoutFault   BY <2>2 DEF TimeoutFault, Fault
  <2>3. CASE HeartbeatFault BY <2>3 DEF HeartbeatFault, Fault
  <2>4. ASSUME NEW s \in Sockets, HandlerFault(s) PROVE TypeOK'
    BY <2>4 DEF HandlerFault, Fault, Goto
  <2>5. ASSUME NEW t \in Tasks, SubmitFault(t) PROVE TypeOK'
    BY <2>5 DEF SubmitFault, Fault
  <2>6. ASSUME NEW a \in Agents, RemoveFault(a) PROVE TypeOK'
    BY <2>6 DEF RemoveFault, Fault
  <2> QED BY <1>10, <2>1, <2>2, <2>3, <2>4, <2>5, <2>6 DEF Failing
<1>11. CASE UNCHANGED vars BY <1>11 DEF vars
<1> QED
  BY <1>1, <1>2, <1>3, <1>4, <1>5, <1>6, <1>7, <1>8, <1>9, <1>10, <1>11 DEF Next

\* Type correctness of the orchestrator's model.
THEOREM TypeCorrect == Spec => []TypeOK
<1>1. Init => TypeOK
  BY BoundsAssumption DEF Init, TypeOK, Statuses, HandlerPCs
<1> QED BY <1>1, TypeStep, PTL DEF Spec

-----------------------------------------------------------------------------
(* The tasks table.                                                        *)

\* A task whose INSERT has not run has no row.
Fresh == \A t \in Tasks : sub[t] \in {"idle", "checked"} => status[t] = "absent" /\ retry[t] = 0

\* Inductive: an INSERT needs Fresh to start from a NULL dispatched_at, and a
\* requeue needs the bound on the counts the cleanups hold in rows.
TaskInv == Fresh /\ InFlightIsTimed /\ RetryBounded

\* Registration, frames other than acks and results, removal requests and the
\* environment's steps do not touch the tasks table or what coroutines hold of it.
LEMMA OffTable ==
    /\ \A s \in Sockets :
          \/ Registering(s) \/ DrainDone(s) \/ Heartbeat(s) \/ StatusUpdate(s)
          \/ Hangup(s) \/ CleanupDisconnect(s) \/ CleanupStatus(s)
          \/ PeerLost(s) \/ LinkClosed(s) \/ \E a \in Agents : Connect(s, a)
          => UNCHANGED <<taskDB, rows, sub>>
    /\ \A a \in Agents :
          \/ RemoveLookup(a) \/ RemoveMark(a) \/ RemoveClose(a)
          \/ HeartbeatLate(a) \/ RemoveFault(a)
          => UNCHANGED <<taskDB, rows, sub>>
    /\ HbScan \/ HbMark \/ HbNext \/ TimeoutFault \/ HeartbeatFault
          => UNCHANGED <<taskDB, rows, sub>>
<1> USE DEF taskDB, handler, request
<1>1. ASSUME NEW s \in Sockets PROVE Registering(s) => UNCHANGED <<taskDB, rows, sub>>
  BY DEF Registering, RegisterLookup, RegisterConnect, RegisterStatus, RegisterAck
<1>2. ASSUME NEW s \in Sockets
      PROVE  DrainDone(s) \/ Heartbeat(s) \/ StatusUpdate(s) => UNCHANGED <<taskDB, rows, sub>>
  BY DEF DrainDone, Heartbeat, StatusUpdate
<1>3. ASSUME NEW s \in Sockets
      PROVE  Hangup(s) \/ CleanupDisconnect(s) \/ CleanupStatus(s)
                => UNCHANGED <<taskDB, rows, sub>>
  BY DEF Hangup, CleanupDisconnect, CleanupStatus
<1>4. ASSUME NEW s \in Sockets
      PROVE  PeerLost(s) \/ LinkClosed(s) \/ (\E a \in Agents : Connect(s, a))
                => UNCHANGED <<taskDB, rows, sub>>
  BY DEF PeerLost, LinkClosed, Connect
<1>5. ASSUME NEW a \in Agents
      PROVE  RemoveLookup(a) \/ RemoveMark(a) \/ RemoveClose(a) => UNCHANGED <<taskDB, rows, sub>>
  BY DEF RemoveLookup, RemoveMark, RemoveClose
<1>6. ASSUME NEW a \in Agents
      PROVE  HeartbeatLate(a) \/ RemoveFault(a) => UNCHANGED <<taskDB, rows, sub>>
  BY DEF HeartbeatLate, RemoveFault
<1>7. HbScan \/ HbMark \/ HbNext \/ TimeoutFault \/ HeartbeatFault
        => UNCHANGED <<taskDB, rows, sub>>
  BY DEF HbScan, HbMark, HbNext, TimeoutFault, HeartbeatFault
<1> QED BY ONLY <1>1, <1>2, <1>3, <1>4, <1>5, <1>6, <1>7

LEMMA TaskStep == TypeOK /\ TaskInv /\ [Next]_vars => TaskInv'
<1> SUFFICES ASSUME TypeOK, TaskInv, [Next]_vars PROVE TaskInv'
  OBVIOUS
<1> USE AssignedToAssumption, RetriesAssumption
<1> USE DEF TaskInv, Fresh, InFlightIsTimed, RetryBounded, TypeOK, Row, Statuses, InFlight,
            Terminal, taskDB, handler, request
<1>0. UNCHANGED <<taskDB, rows, sub>> => TaskInv'
  OBVIOUS
<1>1. ASSUME NEW s \in Sockets, Registering(s) PROVE TaskInv'
  BY <1>0, <1>1, OffTable
<1>2. ASSUME NEW s \in Sockets, Draining(s) PROVE TaskInv'
  <2>1. CASE DrainClaim(s) BY <2>1 DEF DrainClaim, Claim, RowsOf, Of
  <2>2. CASE DrainPush(s)  BY <2>2 DEF DrainPush
  <2>3. CASE DrainDone(s)  BY <1>0, <2>3, OffTable
  <2> QED BY <1>2, <2>1, <2>2, <2>3 DEF Draining
<1>3. ASSUME NEW s \in Sockets, Receiving(s) PROVE TaskInv'
  <2>1. CASE Heartbeat(s) \/ StatusUpdate(s) BY <1>0, <2>1, OffTable
  <2>2. ASSUME NEW t \in Tasks, TaskAck(s, t) PROVE TaskInv'
    BY <2>2 DEF TaskAck, Settle
  <2>3. ASSUME NEW t \in Tasks, NEW final \in {"complete", "failed"}, TaskResult(s, t, final)
        PROVE TaskInv'
    BY <2>3 DEF TaskResult, Settle, Acceptable
  <2> QED BY <1>3, <2>1, <2>2, <2>3 DEF Receiving
<1>4. ASSUME NEW s \in Sockets, Closing(s) PROVE TaskInv'
  <2>1. CASE Hangup(s) \/ CleanupDisconnect(s) \/ CleanupStatus(s)
    BY <1>0, <2>1, OffTable
  <2>2. CASE CleanupSelect(s)  BY <2>2 DEF CleanupSelect, RowsOf, Of
  <2>3. CASE CleanupRequeue(s)
    BY <2>3 DEF CleanupRequeue, Settle, BackToPending, OutOfRetries
  <2> QED BY <1>4, <2>1, <2>2, <2>3 DEF Closing
<1>5. ASSUME NEW t \in Tasks, Submitting(t) PROVE TaskInv'
  <2>1. CASE SubmitCheck(t)  BY <2>1 DEF SubmitCheck
  <2>2. CASE SubmitInsert(t) BY <2>2 DEF SubmitInsert
  <2>3. CASE SubmitClaim(t)  BY <2>3 DEF SubmitClaim, Claim
  <2>4. CASE SubmitSend(t)   BY <2>4 DEF SubmitSend
  <2>5. CASE SubmitRevert(t) BY <2>5 DEF SubmitRevert, BackToPending
  <2> QED BY <1>5, <2>1, <2>2, <2>3, <2>4, <2>5 DEF Submitting
<1>6. ASSUME NEW a \in Agents, Removing(a) PROVE TaskInv'
  <2>1. CASE RemoveLookup(a) \/ RemoveMark(a) \/ RemoveClose(a)
    BY <1>0, <2>1, OffTable
  <2>2. CASE RemoveFail(a) BY <2>2 DEF RemoveFail, Settle, Outstanding, Of
  <2> QED BY <1>6, <2>1, <2>2 DEF Removing
<1>7. CASE Deleting
  <2>1. ASSUME NEW t \in Tasks, DeleteCheck(t) PROVE TaskInv'
    BY <2>1 DEF DeleteCheck
  <2>2. ASSUME NEW t \in Tasks, DeleteCommit(t) PROVE TaskInv'
    BY <2>2 DEF DeleteCommit, DeleteRows
  <2>3. ASSUME NEW sc \in Scopes, BulkDelete(sc) PROVE TaskInv'
    BY <2>3 DEF BulkDelete, DeleteRows
  <2> QED BY <1>7, <2>1, <2>2, <2>3 DEF Deleting
<1>8. CASE Watching
  <2>1. CASE TimeoutSweep BY <2>1 DEF TimeoutSweep, Settle, Overdue
  <2>2. CASE HbScan \/ HbMark \/ HbNext BY <1>0, <2>2, OffTable
  <2> QED BY <1>8, <2>1, <2>2 DEF Watching
<1>9. CASE Environment
  <2>1. ASSUME NEW s \in Sockets,
               PeerLost(s) \/ LinkClosed(s) \/ \E a \in Agents : Connect(s, a)
        PROVE TaskInv'
    BY <1>0, <2>1, OffTable
  <2>2. ASSUME NEW a \in Agents, HeartbeatLate(a) PROVE TaskInv'
    BY <1>0, <2>2, OffTable
  <2>3. ASSUME NEW t \in Tasks, TaskOverdue(t) PROVE TaskInv'
    BY <2>3 DEF TaskOverdue
  <2> QED BY <1>9, <2>1, <2>2, <2>3 DEF Environment
<1>10. CASE Failing
  <2>1. CASE Restart BY <2>1 DEF Restart
  <2>2. ASSUME NEW a \in Agents, RemoveFault(a) PROVE TaskInv'
    BY <1>0, <2>2, OffTable
  <2>3. ASSUME NEW s \in Sockets, HandlerFault(s) PROVE TaskInv'
    BY <2>3 DEF HandlerFault
  <2>4. ASSUME NEW t \in Tasks, SubmitFault(t) PROVE TaskInv'
    BY <2>4 DEF SubmitFault
  <2>5. CASE TimeoutFault \/ HeartbeatFault BY <1>0, <2>5, OffTable
  <2> QED BY <1>10, <2>1, <2>2, <2>3, <2>4, <2>5 DEF Failing
<1>11. CASE UNCHANGED vars BY <1>0, <1>11 DEF vars
<1> QED
  BY <1>1, <1>2, <1>3, <1>4, <1>5, <1>6, <1>7, <1>8, <1>9, <1>10, <1>11 DEF Next

\* TaskInv is an invariant of the orchestrator.
LEMMA TaskInvariant == Spec => []TaskInv
<1>1. Init => TaskInv
  BY RetriesAssumption DEF Init, TaskInv, Fresh, InFlightIsTimed, RetryBounded, InFlight
<1> QED BY <1>1, TypeCorrect, TaskStep, PTL DEF Spec

\* However cleanups, claims and reverts overlap, no task is requeued more than its
\* retries allow.
THEOREM RetriesBounded == Spec => []RetryBounded
BY TaskInvariant, PTL DEF TaskInv

\* The timeout watchdog's WHERE clause can see every task in flight.
THEOREM InFlightTimed == Spec => []InFlightIsTimed
BY TaskInvariant, PTL DEF TaskInv

-----------------------------------------------------------------------------
(* The connection table and the agents' rows.                              *)

\* Steps that leave the agents' rows, the table's sockets and the handlers alone.
LEMMA OffFleet ==
    /\ \A s \in Sockets :
          \/ Heartbeat(s) \/ PeerLost(s) \/ LinkClosed(s) \/ CleanupRequeue(s)
          \/ (\E t \in Tasks : TaskAck(s, t) \/ \E f \in {"complete", "failed"} : TaskResult(s, t, f))
          => UNCHANGED <<agent_status, conns, peer, pc>>
    /\ \A t \in Tasks :
          \/ SubmitCheck(t) \/ SubmitInsert(t) \/ SubmitClaim(t) \/ SubmitRevert(t)
          \/ TaskOverdue(t) \/ SubmitFault(t)
          => UNCHANGED <<agent_status, conns, peer, pc>>
    /\ \A a \in Agents :
          RemoveLookup(a) \/ RemoveFail(a) \/ HeartbeatLate(a) \/ RemoveFault(a)
          => UNCHANGED <<agent_status, conns, peer, pc>>
    /\ Deleting \/ TimeoutSweep \/ TimeoutFault \/ HeartbeatFault
          => UNCHANGED <<agent_status, conns, peer, pc>>
<1> USE DEF agentDB, table, net, handler
<1>1. ASSUME NEW s \in Sockets
      PROVE  Heartbeat(s) \/ PeerLost(s) \/ LinkClosed(s) \/ CleanupRequeue(s)
                => UNCHANGED <<agent_status, conns, peer, pc>>
  BY DEF Heartbeat, PeerLost, LinkClosed, CleanupRequeue
<1>2. ASSUME NEW s \in Sockets, NEW t \in Tasks
      PROVE  TaskAck(s, t) \/ (\E f \in {"complete", "failed"} : TaskResult(s, t, f))
                => UNCHANGED <<agent_status, conns, peer, pc>>
  BY DEF TaskAck, TaskResult
<1>3. ASSUME NEW t \in Tasks
      PROVE  \/ SubmitCheck(t) \/ SubmitInsert(t) \/ SubmitClaim(t) \/ SubmitRevert(t)
             \/ TaskOverdue(t) \/ SubmitFault(t)
             => UNCHANGED <<agent_status, conns, peer, pc>>
  BY DEF SubmitCheck, SubmitInsert, SubmitClaim, SubmitRevert, TaskOverdue, SubmitFault
<1>4. ASSUME NEW a \in Agents
      PROVE  RemoveLookup(a) \/ RemoveFail(a) \/ HeartbeatLate(a) \/ RemoveFault(a)
                => UNCHANGED <<agent_status, conns, peer, pc>>
  BY DEF RemoveLookup, RemoveFail, HeartbeatLate, RemoveFault
<1>5. Deleting \/ TimeoutSweep \/ TimeoutFault \/ HeartbeatFault
        => UNCHANGED <<agent_status, conns, peer, pc>>
  BY DEF Deleting, DeleteCheck, DeleteCommit, BulkDelete, TimeoutSweep, TimeoutFault, HeartbeatFault
<1> QED BY ONLY <1>1, <1>2, <1>3, <1>4, <1>5

\* Every entry has its handler, and every row that reads online has one too.
FleetInv == EntryServed /\ OnlineServed

LEMMA FleetStep == TypeOK /\ FleetInv /\ [Next]_vars => FleetInv'
<1> SUFFICES ASSUME TypeOK, FleetInv, [Next]_vars PROVE FleetInv'
  OBVIOUS
<1> USE NoneAssumption
<1> USE DEF FleetInv, EntryServed, OnlineServed, TypeOK, HandlerPCs, agentDB, table, net, handler
<1>0. UNCHANGED <<agent_status, conns, peer, pc>> => FleetInv'
  OBVIOUS
<1>1. ASSUME NEW s \in Sockets, Registering(s) PROVE FleetInv'
  <2>1. CASE RegisterLookup(s)  BY <2>1 DEF RegisterLookup, Goto
  <2>2. CASE RegisterConnect(s) BY <2>2 DEF RegisterConnect, Goto, Enter
  <2>3. CASE RegisterStatus(s)  BY <2>3 DEF RegisterStatus, Goto, SetStatus
  <2>4. CASE RegisterAck(s)     BY <2>4 DEF RegisterAck, Goto
  <2> QED BY <1>1, <2>1, <2>2, <2>3, <2>4 DEF Registering
<1>2. ASSUME NEW s \in Sockets, Draining(s) PROVE FleetInv'
  <2>1. CASE DrainClaim(s) BY <2>1 DEF DrainClaim, Goto
  <2>2. CASE DrainPush(s)  BY <2>2 DEF DrainPush, Push, Remove, Enter
  <2>3. CASE DrainDone(s)  BY <2>3 DEF DrainDone, Goto
  <2> QED BY <1>2, <2>1, <2>2, <2>3 DEF Draining
<1>3. ASSUME NEW s \in Sockets, Receiving(s) PROVE FleetInv'
  <2>1. CASE StatusUpdate(s)
    <3>1. agent_status' = [agent_status EXCEPT ![peer[s]] = "online"]
      BY <2>1 DEF StatusUpdate, SetStatus, SelfReportable
    <3> QED BY <2>1, <3>1 DEF StatusUpdate
  <2>2. CASE ~StatusUpdate(s) BY <1>0, <1>3, <2>2, OffFleet DEF Receiving
  <2> QED BY <2>1, <2>2
<1>4. ASSUME NEW s \in Sockets, Closing(s) PROVE FleetInv'
  <2>1. CASE Hangup(s)            BY <2>1 DEF Hangup, Goto
  <2>2. CASE CleanupSelect(s)     BY <2>2 DEF CleanupSelect, Goto
  <2>3. CASE CleanupRequeue(s)    BY <1>0, <2>3, OffFleet
  <2>4. CASE CleanupDisconnect(s) BY <2>4 DEF CleanupDisconnect, Goto, Remove, Enter
  <2>5. CASE CleanupStatus(s)     BY <2>5 DEF CleanupStatus, Goto, SetStatus
  <2> QED BY <1>4, <2>1, <2>2, <2>3, <2>4, <2>5 DEF Closing
<1>5. ASSUME NEW t \in Tasks, Submitting(t) PROVE FleetInv'
  <2>1. CASE SubmitSend(t)  BY <2>1 DEF SubmitSend, Push, Remove, Enter
  <2>2. CASE ~SubmitSend(t) BY <1>0, <1>5, <2>2, OffFleet DEF Submitting
  <2> QED BY <2>1, <2>2
<1>6. ASSUME NEW a \in Agents, Removing(a) PROVE FleetInv'
  <2>1. CASE RemoveMark(a)  BY <2>1 DEF RemoveMark, SetStatus
  <2>2. CASE RemoveClose(a) BY <2>2 DEF RemoveClose, Remove, Enter
  <2>3. CASE RemoveLookup(a) \/ RemoveFail(a) BY <1>0, <2>3, OffFleet
  <2> QED BY <1>6, <2>1, <2>2, <2>3 DEF Removing
<1>7. CASE Deleting BY <1>0, <1>7, OffFleet
<1>8. CASE Watching
  <2>1. CASE TimeoutSweep BY <1>0, <2>1, OffFleet
  <2>2. CASE HbScan       BY <2>2 DEF HbScan, Remove, Enter
  <2>3. CASE HbMark       BY <2>3 DEF HbMark, SetStatus
  <2>4. CASE HbNext       BY <2>4 DEF HbNext, Remove, Enter
  <2> QED BY <1>8, <2>1, <2>2, <2>3, <2>4 DEF Watching
<1>9. CASE Environment
  <2>1. ASSUME NEW s \in Sockets, NEW a \in Agents, Connect(s, a) PROVE FleetInv'
    BY <2>1 DEF Connect, Goto
  <2>2. ASSUME NEW s \in Sockets, PeerLost(s) \/ LinkClosed(s) PROVE FleetInv'
    BY <1>0, <2>2, OffFleet
  <2>3. ASSUME NEW t \in Tasks, TaskOverdue(t) PROVE FleetInv'
    BY <1>0, <2>3, OffFleet
  <2>4. ASSUME NEW a \in Agents, HeartbeatLate(a) PROVE FleetInv'
    BY <1>0, <2>4, OffFleet
  <2> QED BY <1>9, <2>1, <2>2, <2>3, <2>4 DEF Environment
<1>10. CASE Failing
  <2>1. CASE Restart BY <2>1 DEF Restart, SweepStatuses
  <2>2. CASE TimeoutFault \/ HeartbeatFault BY <1>0, <2>2, OffFleet
  <2>3. ASSUME NEW s \in Sockets, HandlerFault(s) PROVE FleetInv'
    BY <2>3 DEF HandlerFault, Goto
  <2>4. ASSUME NEW t \in Tasks, SubmitFault(t) PROVE FleetInv'
    BY <1>0, <2>4, OffFleet
  <2>5. ASSUME NEW a \in Agents, RemoveFault(a) PROVE FleetInv'
    BY <1>0, <2>5, OffFleet
  <2> QED BY <1>10, <2>1, <2>2, <2>3, <2>4, <2>5 DEF Failing
<1>11. CASE UNCHANGED vars BY <1>0, <1>11 DEF vars
<1> QED
  BY <1>1, <1>2, <1>3, <1>4, <1>5, <1>6, <1>7, <1>8, <1>9, <1>10, <1>11 DEF Next

LEMMA FleetInvariant == Spec => []FleetInv
<1>1. Init => FleetInv
  BY DEF Init, FleetInv, EntryServed, OnlineServed
<1> QED BY <1>1, TypeCorrect, FleetStep, PTL DEF Spec

\* No entry of the connection table outlives the handler that owes it a cleanup,
\* but for a handler ended by a SQL error.
THEOREM EntriesServed == Spec => []EntryServed
BY FleetInvariant, PTL DEF FleetInv

\* No agent's row reads online without a handler still to mark it offline, through
\* any interleaving of connections, removals and restarts: the startup sweep and
\* the cleanups leave no ghost, but for a handler ended by a SQL error.
THEOREM OnlineRowsServed == Spec => []OnlineServed
BY FleetInvariant, PTL DEF FleetInv

\* A removed agent stays out: its lookup is refused, and only a handler past its
\* lookup can enter it.
THEOREM RemovedAgentsStayOut == Spec => RemovedStaysOut
<1>1. ASSUME TypeOK, [Next]_vars, NEW a \in Agents, KeptOut(a)
      PROVE  KeptOut(a)'
  <2> USE <1>1, NoneAssumption DEF KeptOut, TypeOK, agentDB, table, net, handler
  <2>1. ASSUME NEW s \in Sockets, Registering(s) PROVE KeptOut(a)'
    <3>1. CASE RegisterLookup(s)  BY <3>1 DEF RegisterLookup, Goto
    <3>2. CASE RegisterConnect(s) BY <3>2 DEF RegisterConnect, Goto, Enter
    <3>3. CASE RegisterStatus(s)  BY <3>3 DEF RegisterStatus, Goto
    <3>4. CASE RegisterAck(s)     BY <3>4 DEF RegisterAck, Goto
    <3> QED BY <2>1, <3>1, <3>2, <3>3, <3>4 DEF Registering
  <2>2. ASSUME NEW s \in Sockets, Draining(s) PROVE KeptOut(a)'
    <3>1. CASE DrainClaim(s) BY <3>1 DEF DrainClaim, Goto
    <3>2. CASE DrainPush(s)  BY <3>2 DEF DrainPush, Push, Remove, Enter
    <3>3. CASE DrainDone(s)  BY <3>3 DEF DrainDone, Goto
    <3> QED BY <2>2, <3>1, <3>2, <3>3 DEF Draining
  <2>3. ASSUME NEW s \in Sockets, Receiving(s) PROVE KeptOut(a)'
    BY <2>3 DEF Receiving, Heartbeat, StatusUpdate, TaskAck, TaskResult
  <2>4. ASSUME NEW s \in Sockets, Closing(s) PROVE KeptOut(a)'
    <3>1. CASE Hangup(s)            BY <3>1 DEF Hangup, Goto
    <3>2. CASE CleanupSelect(s)     BY <3>2 DEF CleanupSelect, Goto
    <3>3. CASE CleanupRequeue(s)    BY <3>3 DEF CleanupRequeue
    <3>4. CASE CleanupDisconnect(s) BY <3>4 DEF CleanupDisconnect, Goto, Remove, Enter
    <3>5. CASE CleanupStatus(s)     BY <3>5 DEF CleanupStatus, Goto
    <3> QED BY <2>4, <3>1, <3>2, <3>3, <3>4, <3>5 DEF Closing
  <2>5. ASSUME NEW t \in Tasks, Submitting(t) PROVE KeptOut(a)'
    BY <2>5 DEF Submitting, SubmitCheck, SubmitInsert, SubmitClaim, SubmitSend, SubmitRevert,
                Push, Remove, Enter
  <2>6. ASSUME NEW b \in Agents, Removing(b) PROVE KeptOut(a)'
    BY <2>6 DEF Removing, RemoveLookup, RemoveMark, RemoveFail, RemoveClose, Remove, Enter
  <2>7. CASE Deleting
    BY <2>7 DEF Deleting, DeleteCheck, DeleteCommit, BulkDelete
  <2>8. CASE Watching
    BY <2>8 DEF Watching, TimeoutSweep, HbScan, HbMark, HbNext, Remove, Enter
  <2>9. CASE Environment
    <3>1. ASSUME NEW s \in Sockets, NEW b \in Agents, Connect(s, b) PROVE KeptOut(a)'
      BY <3>1 DEF Connect, Goto
    <3>2. ASSUME NEW s \in Sockets, PeerLost(s) \/ LinkClosed(s) PROVE KeptOut(a)'
      BY <3>2 DEF PeerLost, LinkClosed
    <3>3. ASSUME NEW t \in Tasks, TaskOverdue(t) PROVE KeptOut(a)'
      BY <3>3 DEF TaskOverdue
    <3>4. ASSUME NEW b \in Agents, HeartbeatLate(b) PROVE KeptOut(a)'
      BY <3>4 DEF HeartbeatLate
    <3> QED BY <2>9, <3>1, <3>2, <3>3, <3>4 DEF Environment
  <2>10. CASE Failing
    <3>1. CASE Restart BY <3>1 DEF Restart
    <3>2. CASE TimeoutFault \/ HeartbeatFault BY <3>2 DEF TimeoutFault, HeartbeatFault
    <3>3. ASSUME NEW s \in Sockets, HandlerFault(s) PROVE KeptOut(a)'
      BY <3>3 DEF HandlerFault, Goto
    <3>4. ASSUME NEW t \in Tasks, SubmitFault(t) PROVE KeptOut(a)'
      BY <3>4 DEF SubmitFault
    <3>5. ASSUME NEW b \in Agents, RemoveFault(b) PROVE KeptOut(a)'
      BY <3>5 DEF RemoveFault
    <3> QED BY <2>10, <3>1, <3>2, <3>3, <3>4, <3>5 DEF Failing
  <2>11. CASE UNCHANGED vars BY <2>11 DEF vars
  <2> QED
    BY <2>1, <2>2, <2>3, <2>4, <2>5, <2>6, <2>7, <2>8, <2>9, <2>10, <2>11 DEF Next
<1>2. TypeOK /\ [Next]_vars => [\A a \in Agents : KeptOut(a) => KeptOut(a)']_vars
  BY <1>1
<1> QED BY <1>2, TypeCorrect, PTL DEF Spec, RemovedStaysOut

-----------------------------------------------------------------------------
(* The orchestrator implements the ledger.                                 *)

LEMMA LedgerStep == TypeOK /\ TaskInv /\ [Next]_vars => [Ledger!Next]_(Ledger!ledger)
<1> SUFFICES ASSUME TypeOK, TaskInv, [Next]_vars PROVE [Ledger!Next]_(Ledger!ledger)
  OBVIOUS
<1> USE AssignedToAssumption, RetriesAssumption
<1> USE DEF TypeOK, taskDB, request, Ledger!ledger
<1>0. UNCHANGED <<taskDB, rows, sub>> => UNCHANGED Ledger!ledger
  OBVIOUS
<1>1. ASSUME NEW s \in Sockets, Registering(s) PROVE UNCHANGED Ledger!ledger
  BY <1>0, <1>1, OffTable
<1>2. ASSUME NEW s \in Sockets, Draining(s) PROVE [Ledger!Next]_(Ledger!ledger)
  <2>1. CASE DrainClaim(s)
    <3> DEFINE T == {t \in Of(peer[s]) : status[t] = "pending"}
    <3>1. T \in SUBSET Tasks BY DEF Of
    <3>2. Ledger!Dispatch(T)
      BY <2>1 DEF DrainClaim, Claim, Ledger!Dispatch, Ledger!Move
    <3> QED BY <3>1, <3>2 DEF Ledger!Next
  <2>2. CASE DrainPush(s) BY <2>2 DEF DrainPush
  <2>3. CASE DrainDone(s) BY <1>0, <2>3, OffTable
  <2> QED BY <1>2, <2>1, <2>2, <2>3 DEF Draining
<1>3. ASSUME NEW s \in Sockets, Receiving(s) PROVE [Ledger!Next]_(Ledger!ledger)
  <2>1. CASE Heartbeat(s) \/ StatusUpdate(s) BY <1>0, <2>1, OffTable
  <2>2. ASSUME NEW t \in Tasks, TaskAck(s, t) PROVE Ledger!Ack(t)
    BY <2>2 DEF TaskAck, Settle, Ledger!Ack, Ledger!Move
  <2>3. ASSUME NEW t \in Tasks, NEW final \in {"complete", "failed"}, TaskResult(s, t, final)
        PROVE Ledger!Finish(t)
    BY <2>3 DEF TaskResult, Settle, Acceptable, Ledger!Finish, Ledger!Move
  <2> QED BY <1>3, <2>1, <2>2, <2>3 DEF Receiving, Ledger!Next
<1>4. ASSUME NEW s \in Sockets, Closing(s) PROVE [Ledger!Next]_(Ledger!ledger)
  <2>1. CASE Hangup(s) \/ CleanupDisconnect(s) \/ CleanupStatus(s)
    BY <1>0, <2>1, OffTable
  <2>2. CASE CleanupSelect(s) BY <2>2 DEF CleanupSelect
  <2>3. CASE CleanupRequeue(s)
    <3>1. PICK r \in rows[s] :
             IF OutOfRetries(r.retry + 1)
               THEN Settle({r.task} \ {t \in Tasks : status[t] = "absent"}, "dead_letter")
               ELSE BackToPending(r.task, r.retry + 1)
      BY <2>3 DEF CleanupRequeue
    <3>2. r.task \in Tasks /\ r.retry \in Nat BY DEF Row
    <3>3. UNCHANGED sub BY <2>3 DEF CleanupRequeue
    <3>4. CASE status[r.task] = "absent"
      BY <3>1, <3>2, <3>3, <3>4 DEF Settle, BackToPending
    <3>5. CASE status[r.task] # "absent" /\ OutOfRetries(r.retry + 1)
      <4>1. Ledger!DeadLetter(r.task)
        BY <3>1, <3>2, <3>3, <3>5 DEF Settle, Ledger!DeadLetter
      <4> QED BY <3>2, <4>1 DEF Ledger!Next
    <3>6. CASE status[r.task] # "absent" /\ ~OutOfRetries(r.retry + 1)
      <4>1. r.retry + 1 \in 0..(MaxRetries - 1) BY <3>2, <3>6 DEF OutOfRetries
      <4>2. Ledger!Requeue(r.task)
        BY <3>1, <3>2, <3>3, <3>6, <4>1 DEF BackToPending, Ledger!Requeue
      <4> QED BY <3>2, <4>2 DEF Ledger!Next
    <3> QED BY <3>4, <3>5, <3>6
  <2> QED BY <1>4, <2>1, <2>2, <2>3 DEF Closing
<1>5. ASSUME NEW t \in Tasks, Submitting(t) PROVE [Ledger!Next]_(Ledger!ledger)
  <2>1. CASE SubmitCheck(t) BY <2>1 DEF SubmitCheck
  <2>2. CASE SubmitInsert(t)
    <3>1. status[t] = "absent" BY <2>2 DEF SubmitInsert, TaskInv, Fresh
    <3>2. Ledger!Submit(t) BY <2>2, <3>1 DEF SubmitInsert, Ledger!Submit
    <3> QED BY <3>2 DEF Ledger!Next
  <2>3. CASE SubmitClaim(t)
    <3>1. CASE status[t] # "pending" BY <2>3, <3>1 DEF SubmitClaim
    <3>2. CASE status[t] = "pending"
      <4>1. Ledger!Dispatch({t})
        BY <2>3, <3>2 DEF SubmitClaim, Claim, Ledger!Dispatch, Ledger!Move
      <4> QED BY <4>1 DEF Ledger!Next
    <3> QED BY <3>1, <3>2
  <2>4. CASE SubmitSend(t) BY <2>4 DEF SubmitSend
  <2>5. CASE SubmitRevert(t)
    <3>1. {x \in Tasks : sub'[x] \notin {"idle", "checked"}}
            = {x \in Tasks : sub[x] \notin {"idle", "checked"}}
      BY <2>5 DEF SubmitRevert
    <3>2. CASE status[t] = "absent" BY <2>5, <3>1, <3>2 DEF SubmitRevert, BackToPending
    <3>3. CASE status[t] # "absent"
      <4>1. retry[t] \in 0..(MaxRetries - 1) BY DEF TaskInv, RetryBounded
      <4>2. Ledger!Requeue(t)
        BY <2>5, <3>1, <3>3, <4>1 DEF SubmitRevert, BackToPending, Ledger!Requeue
      <4> QED BY <4>2 DEF Ledger!Next
    <3> QED BY <3>2, <3>3
  <2> QED BY <1>5, <2>1, <2>2, <2>3, <2>4, <2>5 DEF Submitting
<1>6. ASSUME NEW a \in Agents, Removing(a) PROVE [Ledger!Next]_(Ledger!ledger)
  <2>1. CASE RemoveLookup(a) \/ RemoveMark(a) \/ RemoveClose(a) BY <1>0, <2>1, OffTable
  <2>2. CASE RemoveFail(a)
    <3>1. Outstanding(a) \in SUBSET Tasks BY DEF Outstanding, Of
    <3>2. Ledger!Withdraw(Outstanding(a))
      BY <2>2, <3>1 DEF RemoveFail, Settle, Outstanding, InFlight,
                        Ledger!Withdraw, Ledger!Move, Ledger!Active
    <3> QED BY <3>1, <3>2 DEF Ledger!Next
  <2> QED BY <1>6, <2>1, <2>2 DEF Removing
<1>7. CASE Deleting
  <2>1. ASSUME NEW t \in Tasks, DeleteCheck(t) PROVE UNCHANGED Ledger!ledger
    BY <2>1 DEF DeleteCheck
  <2>2. ASSUME NEW t \in Tasks, DeleteCommit(t) PROVE Ledger!Delete(Erasable({t}))
    BY <2>2 DEF DeleteCommit, DeleteRows, Erasable, Deletable, Terminal,
                Ledger!Delete, Ledger!Active
  <2>3. ASSUME NEW sc \in Scopes, BulkDelete(sc)
        PROVE Ledger!Delete({t \in Tasks : status[t] \in sc})
    BY <2>3 DEF BulkDelete, DeleteRows, Scopes, Deletable, Terminal, Ledger!Delete, Ledger!Active
  <2>4. \A t \in Tasks : Erasable({t}) \in SUBSET Tasks BY DEF Erasable
  <2> QED BY <1>7, <2>1, <2>2, <2>3, <2>4 DEF Deleting, Ledger!Next
<1>8. CASE Watching
  <2>1. CASE TimeoutSweep
    <3>1. Overdue \in SUBSET Tasks BY DEF Overdue
    <3>2. Ledger!TimeOut(Overdue)
      BY <2>1, <3>1 DEF TimeoutSweep, Settle, Overdue, InFlight,
                        Ledger!TimeOut, Ledger!Move, Ledger!Active
    <3> QED BY <3>1, <3>2 DEF Ledger!Next
  <2>2. CASE HbScan \/ HbMark \/ HbNext BY <1>0, <2>2, OffTable
  <2> QED BY <1>8, <2>1, <2>2 DEF Watching
<1>9. CASE Environment
  <2>1. ASSUME NEW s \in Sockets, PeerLost(s) \/ LinkClosed(s) \/ \E a \in Agents : Connect(s, a)
        PROVE UNCHANGED Ledger!ledger
    BY <1>0, <2>1, OffTable
  <2>2. ASSUME NEW a \in Agents, HeartbeatLate(a) PROVE UNCHANGED Ledger!ledger
    BY <1>0, <2>2, OffTable
  <2>3. ASSUME NEW t \in Tasks, TaskOverdue(t) PROVE UNCHANGED Ledger!ledger
    BY <2>3 DEF TaskOverdue
  <2> QED BY <1>9, <2>1, <2>2, <2>3 DEF Environment
<1>10. CASE Failing
  <2>1. CASE Restart
    <3>1. PICK L \in SUBSET Tasks : L = {t \in Tasks : sub[t] = "checked"}
      OBVIOUS
    <3>2. Ledger!Refuse(L) BY <2>1, <3>1 DEF Restart, Ledger!Refuse
    <3> QED BY <3>2 DEF Ledger!Next
  <2>2. CASE TimeoutFault \/ HeartbeatFault BY <1>0, <2>2, OffTable
  <2>3. ASSUME NEW s \in Sockets, HandlerFault(s) PROVE UNCHANGED Ledger!ledger
    BY <2>3 DEF HandlerFault
  <2>4. ASSUME NEW t \in Tasks, SubmitFault(t) PROVE Ledger!Refuse({t})
    BY <2>4 DEF SubmitFault, Ledger!Refuse
  <2>5. ASSUME NEW a \in Agents, RemoveFault(a) PROVE UNCHANGED Ledger!ledger
    BY <1>0, <2>5, OffTable
  <2> QED BY <1>10, <2>1, <2>2, <2>3, <2>4, <2>5 DEF Failing, Ledger!Next
<1>11. CASE UNCHANGED vars BY <1>0, <1>11 DEF vars, handler
<1> QED
  BY <1>1, <1>2, <1>3, <1>4, <1>5, <1>6, <1>7, <1>8, <1>9, <1>10, <1>11 DEF Next

\* Every behaviour of the orchestrator is a behaviour of the ledger a submitter
\* reads: results only for running tasks, no deletion in flight, no id used twice.
THEOREM RelayImplementsLedger == Spec => ImplementsLedger
<1>1. Init => Ledger!Init
  BY DEF Init, Ledger!Init
<1> QED BY <1>1, LedgerStep, TypeCorrect, TaskInvariant, PTL DEF Spec, ImplementsLedger, Ledger!Spec

\* No interleaving of delete_task, delete_tasks and a dispatch deletes a row in flight.
THEOREM InFlightRowsSurvive == Spec => NoLostInFlight
<1>1. ASSUME TypeOK, [Ledger!Next]_(Ledger!ledger), NEW t \in Tasks, status[t] \in InFlight
      PROVE  status'[t] # "absent"
  <2> USE <1>1 DEF TypeOK, InFlight, Ledger!Active, Ledger!Move
  <2>1. ASSUME NEW x \in Tasks, Ledger!Submit(x) \/ Ledger!DeadLetter(x) \/ Ledger!Requeue(x)
        PROVE  status'[t] # "absent"
    BY <2>1 DEF Ledger!Submit, Ledger!DeadLetter, Ledger!Requeue
  <2>2. ASSUME NEW x \in Tasks, Ledger!Ack(x) \/ Ledger!Finish(x)
        PROVE  status'[t] # "absent"
    BY <2>2 DEF Ledger!Ack, Ledger!Finish
  <2>3. ASSUME NEW S \in SUBSET Tasks,
               Ledger!Dispatch(S) \/ Ledger!TimeOut(S) \/ Ledger!Withdraw(S)
        PROVE  status'[t] # "absent"
    BY <2>3 DEF Ledger!Dispatch, Ledger!TimeOut, Ledger!Withdraw
  <2>4. ASSUME NEW S \in SUBSET Tasks, Ledger!Refuse(S) \/ Ledger!Delete(S)
        PROVE  status'[t] # "absent"
    BY <2>4 DEF Ledger!Refuse, Ledger!Delete
  <2>5. CASE UNCHANGED Ledger!ledger BY <2>5 DEF Ledger!ledger
  <2> QED BY <2>1, <2>2, <2>3, <2>4, <2>5 DEF Ledger!Next
<1>2. TypeOK /\ TaskInv /\ [Next]_vars =>
        [\A t \in Tasks : status[t] \in InFlight => status'[t] # "absent"]_vars
  BY <1>1, LedgerStep
<1> QED BY <1>2, TypeCorrect, TaskInvariant, PTL DEF Spec, NoLostInFlight
=============================================================================
