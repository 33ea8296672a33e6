----------------------------- MODULE RoundTable -----------------------------
(***************************************************************************)
(* The console's Round Table (src/console/src/lib/stores/roundtable.ts): a *)
(* discussion in which the agents at the table answer one after the other, *)
(* while the user may send, continue, stop and start over.                 *)
(*                                                                         *)
(* A round is one runAgents call.  Its turns are tasks it submits and polls *)
(* over REST, and it keeps the index of its turn across awaits.  An action *)
(* is the code between two awaits; the user and the answers of the         *)
(* orchestrator are the environment.                                       *)
(***************************************************************************)
EXTENDS Naturals, Sequences

CONSTANTS
    Rounds,    \* bound: runAgents calls at the same time
    MaxSeats,  \* bound: participants of a round
    MaxTurns   \* bound: the user adds nothing to a transcript this long

ASSUME TableAssumption == MaxSeats \in Nat /\ MaxTurns \in Nat

VARIABLES
    transcript,    \* store.transcript, of each turn only how far it is
    running,       \* store.running
    stopRequested, \* set by stop()
    pc,            \* the await a round is at
    todo,          \* how many participants of the round have not had their turn
    idx            \* the index of the round's turn in the transcript

vars == <<transcript, running, stopRequested, pc, todo, idx>>

\* A turn is live while it is shown as thinking or streaming, and settled once it is
\* done or failed; a hole is an index of the array that nobody assigned.
Turns == {"live", "settled", "hole"}

InTurn(r) == pc[r] \in {"submitting", "asking", "cancelling", "sleeping"}

TypeOK ==
    /\ transcript \in Seq(Turns)
    /\ running \in BOOLEAN /\ stopRequested \in BOOLEAN
    /\ pc \in [Rounds -> {"free", "preflight", "submitting", "asking", "cancelling", "sleeping"}]
    /\ todo \in [Rounds -> Nat]
    /\ idx \in [Rounds -> Nat]

Init ==
    /\ transcript = <<>> /\ running = FALSE /\ stopRequested = FALSE
    /\ pc = [r \in Rounds |-> "free"] /\ todo = [r \in Rounds |-> 0]
    /\ idx = [r \in Rounds |-> 0]

-----------------------------------------------------------------------------
(* The transcript and the loop over the participants.                      *)

\* patchTurn: an array that has become shorter than the index grows again.
Patch(i, status) ==
    [j \in 1..(IF i > Len(transcript) THEN i ELSE Len(transcript)) |->
        IF j = i THEN status ELSE IF j <= Len(transcript) THEN transcript[j] ELSE "hole"]

HasHole(tr) == \E i \in 1..Len(tr) : tr[i] = "hole"

\* Mutant: a round that has run out of turns leaves running to a stop.
LeaveRunning(r) ==
    /\ running' = (running /\ ~stopRequested)
    /\ pc' = [pc EXCEPT ![r] = "free"]
    /\ todo' = [todo EXCEPT ![r] = 0] /\ idx' = [idx EXCEPT ![r] = 0]

\* The finally clause.
Leave(r) ==
    /\ running' = FALSE
    /\ pc' = [pc EXCEPT ![r] = "free"]
    /\ todo' = [todo EXCEPT ![r] = 0] /\ idx' = [idx EXCEPT ![r] = 0]

\* Mutant: the loop goes one past the last participant.
TakeTurnsPastEnd(r, tr, n, on) ==
    \/ stopRequested' /\ transcript' = tr /\ Leave(r)
    \/ /\ ~stopRequested'
       /\ transcript' = Append(tr, "live")
       /\ running' = on
       /\ pc' = [pc EXCEPT ![r] = "submitting"]
       /\ todo' = [todo EXCEPT ![r] = n - 1]
       /\ idx' = [idx EXCEPT ![r] = Len(tr) + 1]

\* The loop of runAgents goes on with the transcript tr and n participants: it ends,
\* or it appends the next turn and submits it.  buildPrompt raises on a hole, at this
\* turn and at every one after it, with no await before the round is over.
TakeTurns(r, tr, n, on) ==
    \/ /\ stopRequested' \/ n = 0
       /\ transcript' = tr /\ Leave(r)
    \/ /\ ~stopRequested' /\ n > 0 /\ HasHole(tr)
       /\ transcript' = tr \o [k \in 1..n |-> "settled"]
       /\ Leave(r)
    \/ /\ ~stopRequested' /\ n > 0 /\ ~HasHole(tr)
       /\ transcript' = Append(tr, "live")
       /\ running' = on
       /\ pc' = [pc EXCEPT ![r] = "submitting"]
       /\ todo' = [todo EXCEPT ![r] = n - 1]
       /\ idx' = [idx EXCEPT ![r] = Len(tr) + 1]

\* The fleet has been fetched, or could not be, and nobody at the table is online.
NobodySeated(r) ==
    /\ pc[r] = "preflight" /\ pc' = [pc EXCEPT ![r] = "free"]
    /\ UNCHANGED <<transcript, running, stopRequested, todo, idx>>

Seat(r) ==
    /\ pc[r] = "preflight" /\ stopRequested' = FALSE
    /\ \E n \in 1..MaxSeats : TakeTurns(r, transcript, n, TRUE)

\* runTurn has patched its turn for the last time and returns to the loop.
Settle(r) ==
    /\ UNCHANGED stopRequested
    /\ TakeTurns(r, Patch(idx[r], "settled"), todo[r], running)

-----------------------------------------------------------------------------
(* runTurn: submit the task, then poll it until it ends.                   *)

\* submitTask or getTask raises.
CallFails(r) == pc[r] \in {"submitting", "asking"} /\ Settle(r)

\* Mutant: a turn that was stopped is left as it is.
StoppedUnpatched(r) ==
    /\ pc[r] \in {"submitting", "sleeping"} /\ stopRequested
    /\ UNCHANGED stopRequested /\ TakeTurns(r, transcript, todo[r], running)

\* The top of the poll loop, stopped: the turn is done if there is some of the answer,
\* and failed if not.
Stopped(r) ==
    /\ pc[r] \in {"submitting", "sleeping"} /\ stopRequested
    /\ Settle(r)

\* The top of the poll loop: show what has been streamed, ask for the task.
Ask(r) ==
    /\ pc[r] \in {"submitting", "sleeping"} /\ ~stopRequested
    /\ pc' = [pc EXCEPT ![r] = "asking"]
    /\ transcript' \in {transcript, Patch(idx[r], "live")}
    /\ UNCHANGED <<running, stopRequested, todo, idx>>

\* The task has ended, with an answer or without.
Ended(r) == pc[r] = "asking" /\ Settle(r)

\* The task goes on, or has been pending for so long that it is cancelled.
NotEnded(r) ==
    /\ pc[r] = "asking"
    /\ \E next \in {"sleeping", "cancelling"} : pc' = [pc EXCEPT ![r] = next]
    /\ UNCHANGED <<transcript, running, stopRequested, todo, idx>>

Cancelled(r) == pc[r] = "cancelling" /\ Settle(r)

\* Mutant: a turn past its deadline is asked for again.
DeadlineMissed(r) ==
    /\ pc[r] = "sleeping"
    /\ pc' = [pc EXCEPT ![r] = "asking"]
    /\ UNCHANGED <<transcript, running, stopRequested, todo, idx>>

\* while (Date.now() < deadline) is over.
Deadline(r) == pc[r] = "sleeping" /\ Settle(r)

-----------------------------------------------------------------------------
(* The user.                                                               *)

\* runAgents: the fleet is fetched before anyone is seated; running is still false.
Begin(r) ==
    /\ pc[r] = "free" /\ pc' = [pc EXCEPT ![r] = "preflight"]
    /\ UNCHANGED <<running, stopRequested, todo, idx>>

Send ==
    /\ Len(transcript) < MaxTurns
    /\ transcript' = Append(transcript, "settled")
    /\ IF running THEN UNCHANGED <<running, stopRequested, pc, todo, idx>>
       ELSE \E r \in Rounds : Begin(r)

Continue ==
    /\ ~running /\ transcript # <<>> /\ Len(transcript) < MaxTurns
    /\ UNCHANGED transcript
    /\ \E r \in Rounds : Begin(r)

Stop ==
    /\ running /\ stopRequested' = TRUE
    /\ UNCHANGED <<transcript, running, pc, todo, idx>>

Reset ==
    /\ ~running /\ transcript' = <<>>
    /\ UNCHANGED <<running, stopRequested, pc, todo, idx>>

-----------------------------------------------------------------------------
RoundStep(r) ==
    \/ NobodySeated(r) \/ Seat(r) \/ CallFails(r) \/ Stopped(r) \/ Ask(r) \/ Ended(r) \/ NotEnded(r)
    \/ Cancelled(r) \/ Deadline(r)

Next == Send \/ Continue \/ Stop \/ Reset \/ \E r \in Rounds : RoundStep(r)

Spec == Init /\ [][Next]_vars

\* REST calls return and timers fire; the clock passes the deadline of a turn that is
\* polled again and again.  The user does nothing in particular.
FairSpec == Spec /\ \A r \in Rounds : WF_vars(RoundStep(r)) /\ SF_vars(Deadline(r))

-----------------------------------------------------------------------------
(* Properties that hold.                                                   *)

\* A turn that is shown as thinking or streaming has a round that will settle it, also
\* when rounds overlap and a reset takes the turns from under their indices.
TurnsSettle ==
    \A i \in 1..Len(transcript) :
        transcript[i] = "live" => \E r \in Rounds : InTurn(r) /\ idx[r] = i

\* The discussion reads as running only while a round is in it: otherwise the user
\* could neither start one nor start over.
RunningServed == running => \E r \in Rounds : InTurn(r)

\* Every round ends, whatever the agents do and however often it is interrupted.
RoundsEnd == \A r \in Rounds : pc[r] # "free" ~> pc[r] = "free"
=============================================================================
