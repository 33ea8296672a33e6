----------------------------- MODULE TaskLedger -----------------------------
(***************************************************************************)
(* What a submitter is promised about a task, with no sockets, coroutines  *)
(* or statements: the lifecycle of its row.  Work goes forward only from   *)
(* the status before it; a row in flight is never deleted; a deleted id    *)
(* never comes back; a row goes back to pending only with a retry left.    *)
(* A row may go back from ANY status: the disconnect cleanup updates by id *)
(* (dispatcher.requeue_or_deadletter), and the ledger says no more than    *)
(* the code keeps.                                                         *)
(***************************************************************************)
EXTENDS Naturals

CONSTANTS Tasks, MaxRetries

VARIABLES
    issued,   \* the ids a submit has used up
    status,   \* the row's status, "absent" without a row
    retry     \* the row's retry_count

ledger == <<issued, status, retry>>

Active == {"dispatched", "running"}

Init ==
    /\ issued = {}
    /\ status = [t \in Tasks |-> "absent"]
    /\ retry = [t \in Tasks |-> 0]

\* The rows S, all in a status of from, move to the status to.
Move(S, from, to) ==
    /\ \A t \in S : status[t] \in from
    /\ status' = [t \in Tasks |-> IF t \in S THEN to ELSE status[t]]
    /\ UNCHANGED <<issued, retry>>

Submit(t) ==
    /\ t \notin issued /\ status[t] = "absent"
    /\ issued' = issued \cup {t}
    /\ status' = [status EXCEPT ![t] = "pending"]
    /\ UNCHANGED retry

\* Requests that end before the row is written: their ids are never used.
Refuse(S) == issued' = issued \cup S /\ UNCHANGED <<status, retry>>

Dispatch(S) == Move(S, {"pending"}, "dispatched")
Ack(t)      == Move({t}, {"dispatched"}, "running")
Finish(t)   == \E final \in {"complete", "failed"} : Move({t}, {"running"}, final)
TimeOut(S)  == Move(S, Active, "timed_out")
Withdraw(S) == Move(S, Active \cup {"pending"}, "failed")   \* the agent was removed

DeadLetter(t) ==
    /\ status[t] # "absent"
    /\ status' = [status EXCEPT ![t] = "dead_letter"]
    /\ UNCHANGED <<issued, retry>>

Requeue(t) ==
    /\ status[t] # "absent"
    /\ status' = [status EXCEPT ![t] = "pending"]
    /\ \E n \in 0..(MaxRetries - 1) : retry' = [retry EXCEPT ![t] = n]
    /\ UNCHANGED issued

Delete(S) ==
    /\ \A t \in S : status[t] \notin Active
    /\ status' = [t \in Tasks |-> IF t \in S THEN "absent" ELSE status[t]]
    /\ retry' = [t \in Tasks |-> IF t \in S THEN 0 ELSE retry[t]]
    /\ UNCHANGED issued

Next ==
    \/ \E t \in Tasks : Submit(t) \/ Ack(t) \/ Finish(t) \/ DeadLetter(t) \/ Requeue(t)
    \/ \E S \in SUBSET Tasks :
          Refuse(S) \/ Dispatch(S) \/ TimeOut(S) \/ Withdraw(S) \/ Delete(S)

Spec == Init /\ [][Next]_ledger
=============================================================================
