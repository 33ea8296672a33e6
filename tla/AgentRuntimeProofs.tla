------------------------- MODULE AgentRuntimeProofs -------------------------
(***************************************************************************)
(* Theorems about AgentRuntime for all tasks, runs, thresholds and numbers *)
(* of restarts.  One inductive invariant carries them.  NothingForgotten   *)
(* needs to know where the drain is: its run is the only one that does not *)
(* put its task back, so the task must still have its row, and the only    *)
(* one that deletes a row, so its task must be owed no more by then.       *)
(***************************************************************************)
EXTENDS AgentRuntime, TLAPS

\* A run that is under way has a task.
RunsAssigned == \A r \in Runs : at[r] # "free" => task[r] \in Tasks

\* The drain's run belongs to a loop that is draining; its task has its row, is
\* no more to do, and is owed no more once the model has answered.
DrainInPlace ==
    /\ todo \subseteq queue
    /\ at[Drain] # "free" =>
          main = "draining" /\ task[Drain] \in queue /\ task[Drain] \notin todo
    /\ at[Drain] \in {"answered", "marking"} => task[Drain] \notin owed

\* Runs are cancelled by a runtime that is shutting down.
CancelledLast == cancelled # {} => main = "gathering"

RuntimeInv ==
    TypeOK /\ RunsAssigned /\ DrainInPlace /\ CancelledLast /\ NothingForgotten /\ BreakerCounts

-----------------------------------------------------------------------------
LEMMA RuntimeInit == Init => RuntimeInv
<1> SUFFICES ASSUME Init PROVE RuntimeInv
  OBVIOUS
<1> USE ThresholdAssumption, RestartsAssumption, RunsAssumption DEF Init
<1>1. TypeOK
  <2>1. /\ task \in [Runs -> Tasks \cup {None}] /\ at \in [Runs -> Stages]
        /\ tracked \in [Tasks -> Runners \cup {None}]
    BY DEF Stages
  <2>2. running \in BOOLEAN /\ up \in BOOLEAN /\ open \in BOOLEAN
    OBVIOUS
  <2>3. restarts \in 0..MaxRestarts /\ failures \in Nat
    OBVIOUS
  <2> QED BY <2>1, <2>2, <2>3 DEF TypeOK
<1>2. RunsAssigned /\ DrainInPlace /\ CancelledLast
  BY DEF RunsAssigned, DrainInPlace, CancelledLast, Runs
<1>3. NothingForgotten BY DEF NothingForgotten
<1>4. BreakerCounts
  <2>1. ~(0 >= Threshold) OBVIOUS
  <2> QED BY <2>1 DEF BreakerCounts
<1> QED BY <1>1, <1>2, <1>3, <1>4 DEF RuntimeInv

\* The steps of the connection loop.
LEMMA LoopStep == RuntimeInv /\ Looping => RuntimeInv'
<1> SUFFICES ASSUME RuntimeInv, Looping PROVE RuntimeInv'
  OBVIOUS
<1> USE ThresholdAssumption, RestartsAssumption, RunsAssumption
<1> USE DEF RuntimeInv, TypeOK, Stages, Runs, Active, RunsAssigned, DrainInPlace, CancelledLast,
            NothingForgotten, Unanswered, BreakerCounts, runs, breaker, loop
<1>1. CASE DialSucceeds   BY <1>1 DEF DialSucceeds
<1>2. CASE DialFails      BY <1>2 DEF DialFails, Leave
<1>3. CASE BackoffEnds    BY <1>3 DEF BackoffEnds, Leave
<1>4. CASE Registered     BY <1>4 DEF Registered
<1>5. CASE Rejected       BY <1>5 DEF Rejected
<1>6. CASE RegisterFails  BY <1>6 DEF RegisterFails, Leave
<1>7. CASE DrainNext      BY <1>7 DEF DrainNext
<1>8. CASE DrainDone      BY <1>8 DEF DrainDone
<1>9. CASE ConnectionLost BY <1>9 DEF ConnectionLost
<1>10. CASE ReceiveEnds   BY <1>10 DEF ReceiveEnds, Leave
<1>11. ASSUME NEW t \in Tasks, Push(t) PROVE RuntimeInv'
  BY <1>11 DEF Push
<1> QED
  BY <1>1, <1>2, <1>3, <1>4, <1>5, <1>6, <1>7, <1>8, <1>9, <1>10, <1>11 DEF Looping

\* The steps of a run.
LEMMA RunStep == ASSUME NEW r \in Runs, RuntimeInv, Running(r) PROVE RuntimeInv'
<1> USE ThresholdAssumption, RestartsAssumption, RunsAssumption
<1> USE DEF RuntimeInv, TypeOK, Stages, Runs, Active, RunsAssigned, DrainInPlace, CancelledLast,
            NothingForgotten, Unanswered, BreakerCounts, runs, breaker, loop
<1>1. CASE Check(r)         BY <1>1 DEF Check, Go, End
<1>2. CASE Shelve(r)        BY <1>2 DEF Shelve, Enqueue, End
<1>3. CASE Ack(r)           BY <1>3 DEF Ack, Go
<1>4. CASE CallSucceeds(r)  BY <1>4 DEF CallSucceeds, Go
<1>5. CASE RecordSuccess(r)
  <2>1. TypeOK' BY <1>5 DEF RecordSuccess, Go, End
  <2>2. RunsAssigned' BY <1>5 DEF RecordSuccess, Go, End
  <2>3. DrainInPlace' BY <1>5 DEF RecordSuccess, Go, End
  <2>4. CancelledLast' BY <1>5 DEF RecordSuccess, Go, End
  <2>5. NothingForgotten'
    <3>1. CASE r = Drain \/ open BY <1>5, <3>1 DEF RecordSuccess, Go
    <3>2. CASE ~(r = Drain \/ open) BY <1>5, <3>2 DEF RecordSuccess, End
    <3> QED BY <3>1, <3>2
  <2>6. BreakerCounts' BY <1>5 DEF RecordSuccess, Go, End
  <2> QED BY <2>1, <2>2, <2>3, <2>4, <2>5, <2>6
<1>6. CASE MarkComplete(r)
  <2>1. TypeOK' BY <1>6 DEF MarkComplete, End
  <2>2. RunsAssigned' BY <1>6 DEF MarkComplete, End
  <2>3. DrainInPlace' BY <1>6 DEF MarkComplete, End
  <2>4. CancelledLast' BY <1>6 DEF MarkComplete, End
  <2>5. NothingForgotten'
    <3>1. CASE r = Drain BY <1>6, <3>1 DEF MarkComplete, End
    <3>2. CASE r # Drain BY <1>6, <3>2 DEF MarkComplete, End
    <3> QED BY <3>1, <3>2
  <2>6. BreakerCounts' BY <1>6 DEF MarkComplete, End
  <2> QED BY <2>1, <2>2, <2>3, <2>4, <2>5, <2>6
<1>7. CASE CallFails(r)
  <2>1. TypeOK' BY <1>7 DEF CallFails, Go
  <2>2. RunsAssigned' BY <1>7 DEF CallFails, Go
  <2>3. DrainInPlace' BY <1>7 DEF CallFails, Go
  <2>4. CancelledLast' BY <1>7 DEF CallFails, Go
  <2>5. NothingForgotten' BY <1>7 DEF CallFails, Go
  <2>6. BreakerCounts'
    <3>1. failures >= Threshold => failures + 1 >= Threshold OBVIOUS
    <3>2. open' <=> open \/ failures + 1 >= Threshold BY <1>7 DEF CallFails
    <3>3. failures' = failures + 1 BY <1>7 DEF CallFails
    <3>4. open <=> failures >= Threshold OBVIOUS
    <3> HIDE DEF RuntimeInv, TypeOK, RunsAssigned, DrainInPlace, CancelledLast, NothingForgotten,
             Unanswered
    <3> QED BY <3>1, <3>2, <3>3, <3>4
  <2> QED BY <2>1, <2>2, <2>3, <2>4, <2>5, <2>6
<1>8. CASE Requeue(r)       BY <1>8 DEF Requeue, Enqueue, End
<1> QED BY <1>1, <1>2, <1>3, <1>4, <1>5, <1>6, <1>7, <1>8 DEF Running

\* The steps of a shutdown, and the new process.
LEMMA ShutdownStep == RuntimeInv /\ ShuttingDown => RuntimeInv'
<1> SUFFICES ASSUME RuntimeInv, ShuttingDown PROVE RuntimeInv'
  OBVIOUS
<1> USE ThresholdAssumption, RestartsAssumption, RunsAssumption
<1> USE DEF RuntimeInv, TypeOK, Stages, Runs, Active, RunsAssigned, DrainInPlace, CancelledLast,
            NothingForgotten, Unanswered, BreakerCounts, runs, breaker, loop
<1>1. CASE Stop       BY <1>1 DEF Stop
<1>2. CASE Interrupt  BY <1>2 DEF Interrupt
<1>3. CASE Checkpoint BY <1>3 DEF Checkpoint
<1>4. ASSUME NEW r \in Runners, Unwind(r) PROVE RuntimeInv'
  BY <1>4 DEF Unwind, Enqueue, End
<1>5. CASE Exit       BY <1>5 DEF Exit
<1>6. CASE Restart
  <2>1. TypeOK'
    <3>1. /\ task' \in [Runs -> Tasks \cup {None}] /\ at' \in [Runs -> Stages]
          /\ tracked' \in [Tasks -> Runners \cup {None}]
      BY <1>6 DEF Restart
    <3>2. running' \in BOOLEAN /\ up' \in BOOLEAN /\ open' \in BOOLEAN
      BY <1>6 DEF Restart
    <3>3. restarts' \in 0..MaxRestarts /\ failures' \in Nat
      BY <1>6 DEF Restart
    <3> QED BY <1>6, <3>1, <3>2, <3>3 DEF Restart
  <2>2. RunsAssigned' BY <1>6 DEF Restart
  <2>3. DrainInPlace' BY <1>6 DEF Restart
  <2>4. CancelledLast' BY <1>6 DEF Restart
  <2>5. NothingForgotten' BY <1>6 DEF Restart
  <2>6. BreakerCounts' BY <1>6 DEF Restart
  <2> QED BY <2>1, <2>2, <2>3, <2>4, <2>5, <2>6
<1> QED BY <1>1, <1>2, <1>3, <1>4, <1>5, <1>6 DEF ShuttingDown

LEMMA RuntimeInvariant == Spec => []RuntimeInv
<1>1. RuntimeInv /\ [Next]_vars => RuntimeInv'
  <2> SUFFICES ASSUME RuntimeInv, [Next]_vars PROVE RuntimeInv'
    OBVIOUS
  <2>1. CASE Looping BY <2>1, LoopStep
  <2>2. ASSUME NEW r \in Runs, Running(r) PROVE RuntimeInv'
    BY <2>2, RunStep
  <2>3. CASE ShuttingDown BY <2>3, ShutdownStep
  <2>4. CASE UNCHANGED vars
    BY <2>4 DEF vars, loop, runs, breaker, RuntimeInv, TypeOK, Runs, Active, RunsAssigned,
                DrainInPlace, CancelledLast, NothingForgotten, Unanswered, BreakerCounts
  <2> QED BY <2>1, <2>2, <2>3, <2>4 DEF Next
<1> QED BY RuntimeInit, <1>1, PTL DEF Spec

-----------------------------------------------------------------------------
\* Every variable of the runtime keeps its type.
THEOREM RuntimeTypeCorrect == Spec => []TypeOK
BY RuntimeInvariant, PTL DEF RuntimeInv

\* While the runtime is alive, a pushed task that the model has not answered is
\* being run or has its row in the queue, over any overlap of runs.
THEOREM PushedTasksKept == Spec => []NothingForgotten
BY RuntimeInvariant, PTL DEF RuntimeInv

\* The breaker is open exactly when Threshold calls in a row have failed.
THEOREM BreakerCorrect == Spec => []BreakerCounts
BY RuntimeInvariant, PTL DEF RuntimeInv

-----------------------------------------------------------------------------
(* What a shutdown waits for.  StopEnds is TLC's; that nothing but a run    *)
(* which can still be unwound holds it up is proved.                        *)

\* An entry of _in_flight is a run under way of its own task, whichever runs of the
\* same task have popped it.
TrackedInPlace ==
    \A t \in Tasks : tracked[t] # None => at[tracked[t]] # "free" /\ task[tracked[t]] = t

AwaitedRuns == TrackedInPlace /\ cancelled \subseteq Active

\* The end of a run takes its entry and its cancellation with it.
LEMMA EndAwaited ==
  ASSUME RuntimeInv, AwaitedRuns, NEW r \in Runs, at[r] # "free", End(r)
  PROVE  AwaitedRuns'
BY RunsAssumption
   DEF RuntimeInv, TypeOK, RunsAssigned, AwaitedRuns, TrackedInPlace, Active, Runs, End

\* A run that goes on keeps them.
LEMMA GoAwaited ==
  ASSUME RuntimeInv, AwaitedRuns, NEW r \in Runs, NEW stage \in Stages \ {"free"}, Go(r, stage)
  PROVE  AwaitedRuns'
BY RunsAssumption DEF RuntimeInv, TypeOK, AwaitedRuns, TrackedInPlace, Active, Runs, Go

\* Every step of a run, cancelled or not, ends it or lets it go on.
LEMMA RunAwaited ==
  ASSUME RuntimeInv, AwaitedRuns, NEW r \in Runs, Running(r) \/ Unwind(r)
  PROVE  AwaitedRuns'
<1>1. at[r] # "free" /\ (End(r) \/ \E stage \in Stages \ {"free"} : Go(r, stage))
  <2>1. {"ack", "queueing", "call", "answered", "marking", "failed"} \subseteq Stages \ {"free"}
    BY DEF Stages
  <2>2. CASE Unwind(r)
    BY <2>2 DEF Unwind
  <2>3. CASE Check(r)
    BY <2>1, <2>3 DEF Check
  <2>4. CASE Shelve(r) \/ MarkComplete(r) \/ Requeue(r)
    BY <2>4 DEF Shelve, MarkComplete, Requeue
  <2>5. CASE Ack(r) \/ CallSucceeds(r) \/ CallFails(r)
    BY <2>1, <2>5 DEF Ack, CallSucceeds, CallFails
  <2>6. CASE RecordSuccess(r)
    BY <2>1, <2>6 DEF RecordSuccess
  <2> QED  BY <2>2, <2>3, <2>4, <2>5, <2>6 DEF Running
<1> QED  BY <1>1, EndAwaited, GoAwaited

\* Every step keeps what _in_flight and the cancelled runs promise.
LEMMA AwaitedStep == RuntimeInv /\ AwaitedRuns /\ [Next]_vars => AwaitedRuns'
<1> SUFFICES ASSUME RuntimeInv, AwaitedRuns, [Next]_vars PROVE AwaitedRuns'
  OBVIOUS
<1> USE DEF AwaitedRuns, TrackedInPlace, Active
<1>t. /\ tracked \in [Tasks -> Runners \cup {None}] /\ at \in [Runs -> Stages]
      /\ task \in [Runs -> Tasks \cup {None}] /\ cancelled \in SUBSET Runners
  BY DEF RuntimeInv, TypeOK
<1>1. ASSUME NEW t \in Tasks, Push(t) PROVE AwaitedRuns'
  BY <1>1, <1>t, RunsAssumption DEF Push, Runs
<1>2. CASE DrainNext
  BY <1>2, <1>t, RunsAssumption DEF DrainNext, Runs
<1>3. CASE UNCHANGED runs
  BY <1>3 DEF runs
<1>4. CASE Looping
  BY <1>1, <1>2, <1>3, <1>4 DEF Looping, DialSucceeds, DialFails, BackoffEnds, Registered, Rejected,
                                RegisterFails, DrainDone, ConnectionLost, ReceiveEnds
<1>5. ASSUME NEW r \in Runs, Running(r) \/ Unwind(r) PROVE AwaitedRuns'
  BY <1>5, RunAwaited
<1>6. CASE Interrupt
  <2>1. tracked' = tracked /\ \A r \in Runners : at'[r] = at[r] /\ task'[r] = task[r]
    BY <1>6, <1>t, RunsAssumption DEF Interrupt, Runs
  <2>2. cancelled' \subseteq {r \in Runners : at[r] # "free"}
    BY <1>6, <1>t DEF Interrupt, Runs
  <2> QED  BY <2>1, <2>2, <1>t, RunsAssumption DEF Runs
<1>7. CASE Checkpoint
  BY <1>7, <1>t, RunsAssumption DEF Checkpoint, Runs
<1>8. CASE Exit \/ Restart
  BY <1>8, <1>t, RunsAssumption DEF Exit, Restart, Runs
<1>9. CASE ShuttingDown
  BY <1>3, <1>5, <1>6, <1>7, <1>8, <1>9 DEF ShuttingDown, Stop, Runs
<1>10. CASE UNCHANGED vars
  BY <1>3, <1>10 DEF vars
<1> QED  BY <1>4, <1>5, <1>9, <1>10 DEF Next

\* _checkpoint_in_flight awaits only runs that are still under way: no entry of
\* _in_flight outlives its run, so a runtime that is told to end never waits for
\* a run that is over, and every run it waits for can be unwound where it is.
THEOREM ShutdownAwaitsRuns == Spec => [](AwaitedRuns /\ CancelledLast)
<1>1. Init => AwaitedRuns
  BY DEF Init, AwaitedRuns, TrackedInPlace
<1>2. RuntimeInv => CancelledLast
  BY DEF RuntimeInv
<1> QED  BY <1>1, <1>2, AwaitedStep, RuntimeInvariant, PTL DEF Spec
=============================================================================
