----------------------------- MODULE SqliteTier -----------------------------
(***************************************************************************)
(* The handlers of Handlers over SQLiteDatabase (db/sqlite.py): one        *)
(* connection for the whole process, an asyncio.Lock around every          *)
(* statement, and in it execute, the closing of the cursor and commit as   *)
(* three awaits.  Nothing is ever rolled back: what an interrupted call    *)
(* leaves in the open transaction is committed by whoever commits next.    *)
(* The tier implements Records.                                            *)
(***************************************************************************)
EXTENDS Handlers, Sequences

CONSTANTS
    Mixes,               \* what the calls may ask for
    MaxFaults, MaxKills  \* bounds: interrupted calls, kills of the process
ASSUME MixesAssumption == Mixes \subseteq [Calls -> Kinds]
ASSUME BoundsAssumption == MaxFaults \in Nat /\ MaxKills \in Nat

VARIABLES
    kind, pc, id,  \* of each call, as in Records
    phase,         \* where a call is inside its statement
    queue,         \* the lock: its holder and those that wait for it, in order
    disk,          \* what is committed
    left,          \* what interrupted calls wrote in the open transaction
    own, result,   \* of a statement that has executed: its writes there, its result
    faults, kills

call == <<kind, pc, id>>
conn == <<queue, disk, left>>
locals == <<own, result>>
bounds == <<faults, kills>>
vars == <<call, phase, conn, locals, bounds>>

Outcomes == (Statements \cup Answers) \X (Calls \cup {None})

TypeOK ==
    /\ kind \in [Calls -> Kinds]
    /\ pc \in [Calls -> Statements \cup Answers \cup {"new"}]
    /\ id \in [Calls -> Calls \cup {None}]
    /\ \A r \in Calls : pc[r] = "ok" /\ kind[r] # "clear" => id[r] \in Calls
    /\ phase \in [Calls -> {"idle", "waiting", "open", "closed"}]
    /\ queue \in Seq(Calls)
    /\ disk \in Databases /\ left \in SUBSET AllWrites
    /\ own \in [Calls -> SUBSET AllWrites] /\ result \in [Calls -> Outcomes]
    /\ faults \in 0..MaxFaults /\ kills \in 0..MaxKills

Init ==
    /\ kind \in Mixes
    /\ pc = [r \in Calls |-> "new"] /\ id = [r \in Calls |-> None]
    /\ phase = [r \in Calls |-> "idle"] /\ queue = <<>>
    /\ disk = [rows |-> {}, audit |-> {}] /\ left = {}
    /\ own = [r \in Calls |-> {}] /\ result = [r \in Calls |-> <<"error", None>>]
    /\ faults = 0 /\ kills = 0

-----------------------------------------------------------------------------
\* A request arrives.
Begin(r) ==
    /\ pc[r] = "new" /\ pc' = [pc EXCEPT ![r] = First(kind, r)]
    /\ UNCHANGED <<kind, id, phase, conn, locals, bounds>>

\* async with self._lock: asyncio.Lock serves its waiters in order.
Enqueue(r) ==
    /\ pc[r] \in Statements /\ phase[r] = "idle"
    /\ phase' = [phase EXCEPT ![r] = "waiting"] /\ queue' = Append(queue, r)
    /\ UNCHANGED <<call, disk, left, locals, bounds>>

HoldsNothing(r) == phase[r] # "idle"     \* mutant: no lock
Holds(r) == queue # <<>> /\ Head(queue) = r

\* A statement on the connection sees what its open transaction holds: what interrupted
\* calls left there, and what a call that has executed and not committed wrote.
Unfinished == UNION {own[r] : r \in Calls}
Working    == After(After(disk, left), Unfinished)

\* self._conn.execute and the fetch: the cursor is open.
Execute(r) ==
    LET writes == Writes(pc[r], kind, r, id[r], Working)
    IN  /\ phase[r] = "waiting" /\ Holds(r) /\ ~Refuses(pc[r], kind, r, Working)
        /\ phase' = [phase EXCEPT ![r] = "open"]
        /\ own' = [own EXCEPT ![r] = writes]
        /\ result' = [result EXCEPT ![r] = Result(pc[r], kind, r, id[r], Working)]
        /\ UNCHANGED <<call, conn, bounds>>

CloseCursor(r) ==
    /\ phase[r] = "open" /\ phase' = [phase EXCEPT ![r] = "closed"]
    /\ UNCHANGED <<call, conn, locals, bounds>>

\* The lock is released, whatever ended the statement.
KeepLock(r) == phase' = [phase EXCEPT ![r] = "idle"] /\ own' = [own EXCEPT ![r] = {}] /\ UNCHANGED queue
Release(r) ==
    /\ phase' = [phase EXCEPT ![r] = "idle"] /\ own' = [own EXCEPT ![r] = {}]
    /\ queue' = Tail(queue)

\* The open transaction reaches the disk.
CommitNothing == UNCHANGED <<disk, left>>     \* mutant: no commit
Commit == disk' = Working /\ left' = {}

\* self._conn.commit, and the handler goes on with the result.
Finish(r) ==
    /\ phase[r] = "closed" /\ Commit /\ Release(r)
    /\ pc' = [pc EXCEPT ![r] = result[r][1]] /\ id' = [id EXCEPT ![r] = result[r][2]]
    /\ UNCHANGED <<kind, result, bounds>>

Fails(r) == pc' = [pc EXCEPT ![r] = "error"] /\ id' = [id EXCEPT ![r] = None]

\* The INSERT raises on the UNIQUE constraint, with nothing written.
Refused(r) ==
    /\ phase[r] = "waiting" /\ Holds(r) /\ Refuses(pc[r], kind, r, Working)
    /\ Fails(r) /\ Release(r)
    /\ UNCHANGED <<kind, disk, left, result, bounds>>

\* A call is cancelled, or its statement or its commit raises: the lock is released
\* and there is no rollback.  A commit that was already handed to aiosqlite's thread
\* happens nevertheless.
Interrupted(r) ==
    /\ faults < MaxFaults /\ faults' = faults + 1
    /\ phase[r] # "idle" /\ Holds(r)
    /\ \/ left' = left \cup own[r] /\ UNCHANGED disk
       \/ phase[r] = "closed" /\ Commit
    /\ Fails(r) /\ Release(r)
    /\ UNCHANGED <<kind, result, kills>>

\* The process is killed and started again: the disk is what it was, and what was not
\* committed is gone.
Kill ==
    /\ kills < MaxKills /\ kills' = kills + 1
    /\ pc' = [r \in Calls |-> IF pc[r] \in Statements THEN "lost" ELSE pc[r]]
    /\ id' = [r \in Calls |-> IF pc[r] \in Statements THEN None ELSE id[r]]
    /\ phase' = [r \in Calls |-> "idle"] /\ own' = [r \in Calls |-> {}]
    /\ queue' = <<>> /\ left' = {}
    /\ UNCHANGED <<kind, disk, result, faults>>

-----------------------------------------------------------------------------
Step(r) == Enqueue(r) \/ Execute(r) \/ CloseCursor(r) \/ Finish(r) \/ Refused(r)
Next == (\E r \in Calls : Begin(r) \/ Step(r) \/ Interrupted(r)) \/ Kill
Spec == Init /\ [][Next]_vars

\* The event loop runs what can continue and the connection's thread answers; nobody
\* has to call, and nothing has to fail.
FairSpec == Spec /\ \A r \in Calls : WF_vars(Step(r))

-----------------------------------------------------------------------------
(* Properties that hold.                                                   *)

\* Calls that are answered with an id for the same key name the same record, unless
\* one of the records was cleared: two that looked at the same time and found
\* nothing do not both create it (UNIQUE in the migrations, submit_task's
\* "idempotent by correlation_id", get_token's find-or-create).
SameRecord ==
    \A r, q \in Calls :
        pc[r] = "ok" /\ pc[q] = "ok" /\ kind[r] = kind[q] /\ kind[r] # "clear"
          /\ {id[r], id[q]} \subseteq disk.rows
            => id[r] = id[q]

\* What a client was told exists is on disk, whatever is interrupted or killed
\* afterwards, until a clear is asked for.
Clearing(r) == \E c \in Calls : kind[c] = "clear" /\ kind[r] = "submit" /\ pc[c] \notin {"new", "clear"}
Stored ==
    \A r \in Calls :
        pc[r] = "ok" /\ kind[r] # "clear" /\ ~Clearing(r) => id[r] \in disk.rows

\* A record whose creation was answered has its audit event; one without was left
\* by a call that ended between the INSERT and append_event, or is still on its way.
Audited ==
    \A r \in disk.rows \ disk.audit : pc[r] \in {"insert", "event", "error", "lost"}

\* No commit falls between another statement's execute and the closing of its cursor:
\* "makes each public method atomic with respect to every other call" (sqlite.py).
NoCommitInProgress ==
    [][\A r, q \in Calls :
          r # q /\ phase[r] = "open" /\ phase[q] = "closed" => phase'[q] = "closed"]_vars

\* Every call is answered or its process is killed: a call that fails does not keep
\* the lock from the others.
Answered == \A r \in Calls : pc[r] # "new" ~> pc[r] \in Answers

\* The tier behaves as if every statement were one atomic step.
R == INSTANCE Records WITH db <- disk, limbo <- left
ImplementsRecords == R!Spec
=============================================================================
