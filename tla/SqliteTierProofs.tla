-------------------------- MODULE SqliteTierProofs --------------------------
(***************************************************************************)
(* Theorems about SqliteTier, for any number of calls of any kinds, and    *)
(* any number of interruptions and kills.                                  *)
(***************************************************************************)
EXTENDS SqliteTier, TLAPS

(* What the handlers do with one statement. *)

\* A call's record has the key the call asked for.
Fits(r, s, i) ==
    kind[r] # "clear" /\ s \in {"event", "reread", "refetch", "ok"}
        => i \in Calls /\ Table(kind[i]) = Table(kind[r])

\* No two records have the same key.
Unique(rows) == \A x, y \in rows : Table(kind[x]) = Table(kind[y]) => x = y

\* What a lookup finds is a record with that key.
LEMMA HolderFound ==
  ASSUME NEW r \in Calls, NEW db \in Databases, Known(kind, r, db)
  PROVE  /\ Holder(kind, r, db) \in db.rows
         /\ Holder(kind, r, db) \in Calls
         /\ Table(kind[Holder(kind, r, db)]) = Table(kind[r])
<1>1. PICK x : x \in Rows(kind, r, db)
  BY DEF Known
<1>2. Holder(kind, r, db) \in Rows(kind, r, db)
  BY <1>1 DEF Holder
<1> QED  BY <1>2 DEF Rows, Databases

\* The effect of writes on a database is a database.
LEMMA AfterType ==
  ASSUME NEW db \in Databases, NEW writes
  PROVE  After(db, writes) \in Databases
BY DEF After, Databases

\* A statement leads to a statement or an answer and writes rows and events.
LEMMA HandlerType ==
  ASSUME TypeOK, NEW r \in Calls, NEW s \in Statements, NEW i \in Calls \cup {None},
         NEW db \in Databases
  PROVE  /\ Result(s, kind, r, i, db) \in Outcomes
         /\ Writes(s, kind, r, i, db) \in SUBSET AllWrites
<1> DEFINE next == Result(s, kind, r, i, db)
<1>7. Writes(s, kind, r, i, db) \in SUBSET AllWrites
  BY DEF Writes, AllWrites, Rows, Databases
<1> SUFFICES next \in Outcomes
  BY <1>7
<1>1. Known(kind, r, db) => Holder(kind, r, db) \in Calls
  BY HolderFound
<1>o. \A t \in Statements \cup Answers, j \in Calls \cup {None} : <<t, j>> \in Outcomes
  BY DEF Outcomes
<1>p. /\ {"find", "reread", "insert", "event", "refetch", "clear"} \subseteq Statements
      /\ {"ok", "conflict", "error"} \subseteq Answers
  BY DEF Statements, Answers
<1>2. CASE kind[r] = "token"
  <2>1. next = Token(s, kind, r, i, db)
    BY <1>2 DEF Result
  <2>2. CASE s = "find" /\ Known(kind, r, db)
    BY <1>1, <1>o, <1>p, <2>1, <2>2 DEF Token
  <2>3. CASE s = "find" /\ ~Known(kind, r, db)
    BY <1>o, <1>p, <2>1, <2>3 DEF Token
  <2>4. CASE s # "find"
    BY <1>o, <1>p, <2>1, <2>4 DEF Token
  <2> QED  BY <2>2, <2>3, <2>4
<1>3. CASE kind[r] = "register"
  <2>1. next = Register(s, kind, r, i, db)
    BY <1>3 DEF Result
  <2>2. CASE s = "find"
    BY <1>o, <1>p, <2>1, <2>2 DEF Register
  <2>3. CASE s # "find"
    BY <1>o, <1>p, <2>1, <2>3 DEF Register
  <2> QED  BY <2>2, <2>3
<1>4. CASE kind[r] = "submit"
  <2>1. next = Submit(s, kind, r, i, db)
    BY <1>4 DEF Result
  <2>2. CASE s = "find" /\ Known(kind, r, db)
    BY <1>1, <1>o, <1>p, <2>1, <2>2 DEF Submit
  <2>3. CASE s = "find" /\ ~Known(kind, r, db)
    BY <1>o, <1>p, <2>1, <2>3 DEF Submit
  <2>4. CASE s \in {"reread", "refetch"} /\ i \in db.rows
    BY <1>o, <1>p, <2>1, <2>4 DEF Submit
  <2>5. CASE s # "find" /\ ~(s \in {"reread", "refetch"} /\ i \in db.rows)
    BY <1>o, <1>p, <2>1, <2>5 DEF Submit
  <2> QED  BY <2>2, <2>3, <2>4, <2>5
<1>5. CASE kind[r] = "clear"
  <2>1. next = Clear(s, kind, r, db)
    BY <1>5 DEF Result
  <2>2. next = <<"event", None>> \/ next = <<"ok", None>>
    BY <2>1 DEF Clear
  <2> QED  BY <1>o, <1>p, <2>2
<1>6. kind[r] \in Kinds
  BY DEF TypeOK
<1> QED  BY <1>2, <1>3, <1>4, <1>5, <1>6 DEF Kinds

\* A record a statement leads to fits the call.
LEMMA HandlerFits ==
  ASSUME TypeOK, NEW r \in Calls, NEW s \in Statements, NEW i \in Calls \cup {None},
         NEW db \in Databases, Fits(r, s, i)
  PROVE  Fits(r, Result(s, kind, r, i, db)[1], Result(s, kind, r, i, db)[2])
<1>1. Known(kind, r, db) =>
        Holder(kind, r, db) \in Calls /\ Table(kind[Holder(kind, r, db)]) = Table(kind[r])
  BY HolderFound
<1>2. CASE kind[r] = "token"
  BY <1>1, <1>2 DEF Result, Token, Fits, Statements
<1>3. CASE kind[r] = "register"
  BY <1>1, <1>3 DEF Result, Register, Fits, Statements
<1>4. CASE kind[r] = "submit"
  BY <1>1, <1>4 DEF Result, Submit, Fits, Statements
<1>5. kind[r] \in Kinds
  BY DEF TypeOK
<1> QED  BY <1>2, <1>3, <1>4, <1>5 DEF Kinds, Fits

\* A statement that is not refused keeps the keys unique.
LEMMA InsertUnique ==
  ASSUME TypeOK, NEW r \in Calls, NEW s \in Statements, NEW i, NEW db \in Databases,
         Unique(db.rows), ~Refuses(s, kind, r, db)
  PROVE  Unique(After(db, Writes(s, kind, r, i, db)).rows)
<1> DEFINE after == After(db, Writes(s, kind, r, i, db)).rows
<1>1. CASE s = "insert"
  <2>1. after \subseteq db.rows \cup {r}
    BY <1>1 DEF After, Writes
  <2>2. \A x \in db.rows : Table(kind[x]) # Table(kind[r])
    BY <1>1 DEF Refuses, Known, Rows
  <2> QED  BY <2>1, <2>2 DEF Unique
<1>2. CASE s # "insert"
  <2>1. after \subseteq db.rows
    BY <1>2 DEF After, Writes
  <2> QED  BY <2>1 DEF Unique
<1> QED  BY <1>1, <1>2

-----------------------------------------------------------------------------
(* The inductive invariant.                                                *)

Running(r) == phase[r] \in {"open", "closed"}

\* Only the call at the head of the lock's queue has a statement in progress.
LockInv == \A r \in Calls : Running(r) => queue # <<>> /\ Head(queue) = r

\* A statement in progress is one of its call, and what it wrote and found is what it
\* would on what is on disk and left there; nothing has changed since.
OwnInv ==
    \A r \in Calls :
        /\ phase[r] # "idle" => pc[r] \in Statements
        /\ ~Running(r) => own[r] = {}
        /\ Running(r) =>
             LET seen == After(disk, left)
             IN  /\ own[r] = Writes(pc[r], kind, r, id[r], seen)
                 /\ result[r] = Result(pc[r], kind, r, id[r], seen)
                 /\ ~Refuses(pc[r], kind, r, seen)

IdInv == \A r \in Calls : Fits(r, pc[r], id[r])

UniqueInv == Unique(disk.rows) /\ Unique(After(disk, left).rows)

TierInv == TypeOK /\ LockInv /\ OwnInv /\ IdInv /\ UniqueInv

\* The invariant holds initially.
LEMMA TierInit == Init => TierInv
<1> SUFFICES ASSUME Init PROVE TierInv
  OBVIOUS
<1>1. TypeOK
  BY MixesAssumption, BoundsAssumption
     DEF Init, TypeOK, Databases, Outcomes, Statements, Answers
<1>2. UniqueInv
  BY DEF Init, UniqueInv, Unique, After
<1> QED  BY <1>1, <1>2 DEF Init, TierInv, LockInv, OwnInv, IdInv, Fits, Running

\* While nobody else has a statement in progress, the connection shows what is on disk
\* and what was left; with one it shows the writes of that one too.
LEMMA WorkingSeen ==
  ASSUME TierInv
  PROVE  /\ (\A r \in Calls : ~Running(r)) => Working = After(disk, left)
         /\ \A r \in Calls : Running(r) => Working = After(After(disk, left), own[r])
<1>1. ASSUME \A r \in Calls : ~Running(r) PROVE Working = After(disk, left)
  <2>1. Unfinished = {}
    BY <1>1 DEF TierInv, OwnInv, Unfinished
  <2>2. After(disk, left) \in Databases
    BY AfterType DEF TierInv, TypeOK
  <2>3. ASSUME NEW db \in Databases PROVE After(db, {}) = db
    BY DEF After, Databases
  <2> QED  BY <2>1, <2>2, <2>3 DEF Working
<1>2. ASSUME NEW r \in Calls, Running(r) PROVE Working = After(After(disk, left), own[r])
  <2>1. \A q \in Calls \ {r} : own[q] = {}
    BY <1>2 DEF TierInv, LockInv, OwnInv
  <2>2. Unfinished = own[r]
    BY <2>1 DEF Unfinished
  <2> QED  BY <2>2 DEF Working
<1> QED  BY <1>1, <1>2

\* The head of the queue runs alone: when it is not running, nobody is.
LEMMA HeadAlone ==
  ASSUME TierInv, NEW r \in Calls, Holds(r)
  PROVE  \A q \in Calls : Running(q) => q = r
BY DEF TierInv, LockInv, Holds

\* The end of a statement of the holder, however it ends, leaves the lock to the next
\* and no statement in progress.
LEMMA ReleaseInv ==
  ASSUME TierInv, NEW r \in Calls, Holds(r), Release(r)
  PROVE  /\ phase' \in [Calls -> {"idle", "waiting", "open", "closed"}]
         /\ queue' \in Seq(Calls) /\ own' \in [Calls -> SUBSET AllWrites]
         /\ \A q \in Calls : ~Running(q)' /\ own'[q] = {}
         /\ phase'[r] = "idle" /\ \A q \in Calls \ {r} : phase'[q] = phase[q]
<1>1. \A q \in Calls : Running(q) => q = r
  BY HeadAlone
<1>2. TypeOK /\ OwnInv
  BY DEF TierInv
<1>3. queue' \in Seq(Calls)
  BY <1>2 DEF Release, Holds, TypeOK
<1> QED  BY <1>1, <1>2, <1>3 DEF Release, TypeOK, Running, OwnInv

\* A call goes to a result that fits; of the others nothing changes.
LEMMA EndInv ==
  ASSUME TierInv, NEW r \in Calls, NEW s \in Statements \cup Answers, NEW i \in Calls \cup {None},
         Fits(r, s, i), Holds(r), Release(r), UNCHANGED <<kind, result>>,
         pc' = [pc EXCEPT ![r] = s], id' = [id EXCEPT ![r] = i],
         disk' \in Databases, left' \in SUBSET AllWrites,
         Unique(disk'.rows), Unique(After(disk', left').rows),
         faults' \in 0..MaxFaults, kills' = kills
  PROVE  TierInv'
<1>1. TypeOK /\ LockInv /\ OwnInv /\ IdInv
  BY DEF TierInv
<1>2. /\ phase' \in [Calls -> {"idle", "waiting", "open", "closed"}]
      /\ queue' \in Seq(Calls) /\ own' \in [Calls -> SUBSET AllWrites]
      /\ \A q \in Calls : ~Running(q)' /\ own'[q] = {}
      /\ phase'[r] = "idle" /\ \A q \in Calls \ {r} : phase'[q] = phase[q]
  BY ReleaseInv
<1>3. IdInv'
  BY <1>1 DEF IdInv, Fits, TypeOK
<1>4. TypeOK'
  <2>1. \A q \in Calls : pc'[q] = "ok" /\ kind'[q] # "clear" => id'[q] \in Calls
    BY <1>3 DEF IdInv, Fits
  <2> QED  BY <1>1, <1>2, <2>1 DEF TypeOK
<1>5. LockInv' /\ UniqueInv'
  BY <1>2 DEF LockInv, UniqueInv, Unique
<1>6. OwnInv'
  BY <1>1, <1>2 DEF OwnInv, TypeOK
<1> QED  BY <1>3, <1>4, <1>5, <1>6 DEF TierInv

\* Every step keeps the invariant.
LEMMA TierStep == TierInv /\ [Next]_vars => TierInv'
<1> SUFFICES ASSUME TierInv, [Next]_vars PROVE TierInv'
  OBVIOUS
<1>t. TypeOK /\ LockInv /\ OwnInv /\ IdInv /\ UniqueInv
  BY DEF TierInv
<1>s. After(disk, left) \in Databases
  BY <1>t, AfterType DEF TypeOK
<1>1. ASSUME NEW r \in Calls, Begin(r) PROVE TierInv'
  <2>1. pc' \in [Calls -> Statements \cup Answers \cup {"new"}]
        /\ pc'[r] \in {"find", "clear"} /\ (\A q \in Calls \ {r} : pc'[q] = pc[q])
    BY <1>1, <1>t DEF Begin, First, TypeOK, Statements
  <2>2. TypeOK' /\ IdInv'
    BY <1>1, <2>1, <1>t DEF Begin, TypeOK, IdInv, Fits, conn, locals, bounds
  <2>3. phase[r] = "idle"
    BY <1>1, <1>t DEF Begin, OwnInv, TypeOK, Statements
  <2>4. OwnInv' /\ LockInv' /\ UniqueInv'
    BY <1>1, <2>1, <2>3, <1>t DEF Begin, OwnInv, LockInv, UniqueInv, Unique, Running, conn, locals
  <2> QED  BY <2>2, <2>4 DEF TierInv
<1>2. ASSUME NEW r \in Calls, Enqueue(r) PROVE TierInv'
  <2>1. /\ queue' = Append(queue, r) /\ UNCHANGED <<call, disk, left, locals, bounds>>
        /\ phase' = [phase EXCEPT ![r] = "waiting"] /\ phase[r] = "idle" /\ pc[r] \in Statements
    BY <1>2 DEF Enqueue
  <2>2. TypeOK'
    BY <2>1, <1>t DEF TypeOK, call, locals, bounds
  <2>3. \A q \in Calls : Running(q)' = Running(q)
    BY <2>1, <1>t DEF Running, TypeOK
  <2>4. queue # <<>> => queue' # <<>> /\ Head(queue') = Head(queue)
    BY <2>1, <1>t DEF TypeOK
  <2>5. LockInv'
    BY <2>3, <2>4, <1>t DEF LockInv
  <2>6. OwnInv' /\ IdInv' /\ UniqueInv'
    BY <2>1, <2>3, <1>t DEF OwnInv, IdInv, UniqueInv, Unique, Fits, call, locals, TypeOK
  <2> QED  BY <2>2, <2>5, <2>6 DEF TierInv
<1>3. ASSUME NEW r \in Calls, Execute(r) PROVE TierInv'
  <2> DEFINE seen == After(disk, left)
  <2>1. \A q \in Calls : ~Running(q)
    BY <1>3, HeadAlone DEF Execute, Running
  <2>2. Working = seen
    BY <2>1, WorkingSeen
  <2>3. pc[r] \in Statements /\ id[r] \in Calls \cup {None}
    BY <1>3, <1>t DEF Execute, OwnInv, TypeOK
  <2>4. /\ Result(pc[r], kind, r, id[r], seen) \in Outcomes
        /\ Writes(pc[r], kind, r, id[r], seen) \in SUBSET AllWrites
    BY <2>3, <1>t, <1>s, HandlerType
  <2>5. /\ phase' = [phase EXCEPT ![r] = "open"] /\ Holds(r)
        /\ own' = [own EXCEPT ![r] = Writes(pc[r], kind, r, id[r], seen)]
        /\ result' = [result EXCEPT ![r] = Result(pc[r], kind, r, id[r], seen)]
        /\ ~Refuses(pc[r], kind, r, seen) /\ UNCHANGED <<call, conn, bounds>>
    BY <1>3, <2>2 DEF Execute
  <2>6. TypeOK'
    BY <2>4, <2>5, <1>t DEF TypeOK, call, conn, bounds
  <2>7. LockInv'
    BY <2>1, <2>5, <1>t DEF LockInv, Running, Holds, TypeOK, conn
  <2>8. OwnInv'
    BY <2>1, <2>3, <2>5, <1>t DEF OwnInv, Running, TypeOK, call, conn
  <2>9. IdInv' /\ UniqueInv'
    BY <2>5, <1>t DEF IdInv, UniqueInv, Unique, Fits, call, conn
  <2> QED  BY <2>6, <2>7, <2>8, <2>9 DEF TierInv
<1>4. ASSUME NEW r \in Calls, CloseCursor(r) PROVE TierInv'
  <2>1. /\ phase[r] = "open" /\ phase' = [phase EXCEPT ![r] = "closed"]
        /\ UNCHANGED <<call, conn, locals, bounds>>
    BY <1>4 DEF CloseCursor
  <2>2. \A q \in Calls : Running(q)' = Running(q)
    BY <2>1, <1>t DEF Running, TypeOK
  <2>3. TypeOK'
    BY <2>1, <1>t DEF TypeOK, call, conn, locals, bounds
  <2>4. LockInv' /\ OwnInv' /\ IdInv' /\ UniqueInv'
    BY <2>1, <2>2, <1>t DEF LockInv, OwnInv, IdInv, UniqueInv, Unique, Fits, call, conn, locals, TypeOK
  <2> QED  BY <2>3, <2>4 DEF TierInv
<1>5. ASSUME NEW r \in Calls, phase[r] = "closed" PROVE
        /\ Holds(r) /\ pc[r] \in Statements /\ Fits(r, result[r][1], result[r][2])
        /\ result[r][1] \in Statements \cup Answers /\ result[r][2] \in Calls \cup {None}
        /\ Working \in Databases /\ Unique(Working.rows)
  <2> DEFINE seen == After(disk, left)
  <2>1. Running(r) /\ Holds(r) /\ pc[r] \in Statements /\ id[r] \in Calls \cup {None}
    BY <1>5, <1>t DEF Running, LockInv, Holds, OwnInv, TypeOK
  <2>2. /\ own[r] = Writes(pc[r], kind, r, id[r], seen) /\ ~Refuses(pc[r], kind, r, seen)
        /\ result[r] = Result(pc[r], kind, r, id[r], seen)
    BY <2>1, <1>t DEF OwnInv
  <2>3. Working = After(seen, own[r])
    BY <2>1, WorkingSeen
  <2>4. Working \in Databases /\ Unique(Working.rows)
    BY <2>1, <2>2, <2>3, <1>t, <1>s, InsertUnique, AfterType DEF UniqueInv
  <2>5. Fits(r, result[r][1], result[r][2])
    BY <2>1, <2>2, <1>t, <1>s, HandlerFits DEF IdInv
  <2>6. result[r] \in Outcomes
    BY <1>t DEF TypeOK
  <2> QED  BY <2>1, <2>4, <2>5, <2>6 DEF Outcomes
<1>6. ASSUME NEW db \in Databases PROVE After(db, {}) = db
  BY DEF After, Databases
<1>7. ASSUME NEW r \in Calls, Finish(r) PROVE TierInv'
  <2>1. disk' = Working /\ left' = {} /\ After(disk', left') = Working
    BY <1>5, <1>6, <1>7 DEF Finish, Commit
  <2>2. faults' \in 0..MaxFaults /\ kills' = kills
    BY <1>7, <1>t DEF Finish, bounds, TypeOK
  <2> QED  BY <1>5, <1>7, <2>1, <2>2, EndInv DEF Finish
<1>8. ASSUME NEW r \in Calls, Refused(r) PROVE TierInv'
  <2>1. faults' \in 0..MaxFaults /\ kills' = kills /\ disk' \in Databases /\ left' \in SUBSET AllWrites
    BY <1>8, <1>t DEF Refused, bounds, TypeOK
  <2>2. Unique(disk'.rows) /\ Unique(After(disk', left').rows)
    BY <1>8, <1>t DEF Refused, UniqueInv
  <2>3. Fits(r, "error", None) /\ "error" \in Answers
    BY DEF Fits, Answers
  <2> QED  BY <1>8, <2>1, <2>2, <2>3, EndInv DEF Refused, Fails
<1>9. ASSUME NEW r \in Calls, Interrupted(r) PROVE TierInv'
  <2>1. faults' \in 0..MaxFaults /\ kills' = kills
    BY <1>9, <1>t, BoundsAssumption DEF Interrupted, TypeOK
  <2>2. Fits(r, "error", None) /\ "error" \in Answers
    BY DEF Fits, Answers
  <2>3. CASE phase[r] = "closed" /\ Commit
    <3>1. disk' = Working /\ left' = {} /\ After(disk', left') = Working
      BY <1>5, <1>6, <2>3 DEF Commit
    <3> QED  BY <1>5, <1>9, <2>1, <2>2, <2>3, <3>1, EndInv DEF Interrupted, Fails
  <2>4. CASE left' = left \cup own[r] /\ disk' = disk
    <3>1. disk' \in Databases /\ left' \in SUBSET AllWrites
      BY <2>4, <1>t DEF TypeOK
    <3>2. After(disk', left').rows \subseteq After(After(disk, left), own[r]).rows
      BY <2>4, <1>t DEF After, TypeOK, Databases
    <3>3. Unique(After(After(disk, left), own[r]).rows)
      <4>1. CASE Running(r)
        <5>1. pc[r] \in Statements
          BY <4>1, <1>t DEF OwnInv, Running
        <5>2. /\ own[r] = Writes(pc[r], kind, r, id[r], After(disk, left))
              /\ ~Refuses(pc[r], kind, r, After(disk, left))
          BY <4>1, <1>t DEF OwnInv
        <5> QED  BY <5>1, <5>2, <1>t, <1>s, InsertUnique DEF UniqueInv
      <4>2. CASE ~Running(r)
        <5>1. own[r] = {} /\ After(After(disk, left), own[r]) = After(disk, left)
          BY <4>2, <1>6, <1>t, <1>s DEF OwnInv
        <5> QED  BY <5>1, <1>t DEF UniqueInv
      <4> QED  BY <4>1, <4>2
    <3>4. Unique(disk'.rows) /\ Unique(After(disk', left').rows)
      BY <2>4, <3>2, <3>3, <1>t DEF UniqueInv, Unique
    <3> QED  BY <1>9, <2>1, <2>2, <3>1, <3>4, EndInv DEF Interrupted, Fails
  <2> QED  BY <1>9, <2>3, <2>4 DEF Interrupted
<1>10. CASE Kill
  <2>1. TypeOK'
    BY <1>10, <1>t, BoundsAssumption DEF Kill, TypeOK, Statements, Answers
  <2>2. \A q \in Calls : ~Running(q)' /\ phase'[q] = "idle" /\ own'[q] = {}
    BY <1>10 DEF Kill, Running
  <2>3. IdInv'
    BY <1>10, <1>t DEF Kill, IdInv, Fits, TypeOK
  <2>4. UniqueInv'
    BY <1>10, <1>6, <1>t DEF Kill, UniqueInv, Unique, TypeOK
  <2> QED  BY <2>1, <2>2, <2>3, <2>4 DEF TierInv, LockInv, OwnInv
<1>11. CASE UNCHANGED vars
  BY <1>11, <1>t DEF vars, call, conn, locals, bounds, TierInv, TypeOK, LockInv, OwnInv, IdInv, UniqueInv,
                     Unique, Fits, Running
<1> QED
  BY <1>1, <1>2, <1>3, <1>4, <1>7, <1>8, <1>9, <1>10, <1>11 DEF Next, Step

LEMMA TierAlways == Spec => []TierInv
BY TierInit, TierStep, PTL DEF Spec

-----------------------------------------------------------------------------
\* Every variable keeps its type, and a call that is answered "ok" has a record.
THEOREM TierTypeCorrect == Spec => []TypeOK
BY TierAlways, PTL DEF TierInv

\* Calls answered for the same key name the same record of the table: two that both
\* looked and found nothing do not both create it.
THEOREM OneRecord == Spec => []SameRecord
<1>1. TierInv => SameRecord
  <2> SUFFICES ASSUME TierInv, NEW r \in Calls, NEW q \in Calls, pc[r] = "ok", pc[q] = "ok",
                      kind[r] = kind[q], kind[r] # "clear", {id[r], id[q]} \subseteq disk.rows
               PROVE  id[r] = id[q]
    BY DEF SameRecord
  <2> QED  BY DEF TierInv, UniqueInv, Unique, IdInv, Fits
<1> QED  BY <1>1, TierAlways, PTL

\* The lock: no commit falls into another statement.
THEOREM StatementsAtomic == Spec => NoCommitInProgress
<1>1. TierInv /\ [Next]_vars =>
        [\A r, q \in Calls : r # q /\ phase[r] = "open" /\ phase[q] = "closed" => phase'[q] = "closed"]_vars
  BY DEF TierInv, LockInv, Running
<1> QED  BY <1>1, TierAlways, PTL DEF Spec, NoCommitInProgress
-----------------------------------------------------------------------------
(* What was answered is kept.  Stored alone is not inductive: the record of  *)
(* a call must be there from the statement that found or made it, and what   *)
(* is left in the transaction may delete only what a clear asked for.        *)

Has == {"event", "reread", "refetch", "ok"}

\* The statements a call is at are those of what it asks for.
KindInv ==
    \A r \in Calls :
        /\ pc[r] = "clear" => kind[r] = "clear"
        /\ kind[r] = "clear" => pc[r] \in {"new", "clear", "event", "ok", "error", "lost"}

\* A deletion left in the transaction is of a task, and its clear has ended.
DeletionInv ==
    \A x \in Calls : <<"delete", x>> \in left =>
        /\ Table(kind[x]) = "submit"
        /\ \E c \in Calls : kind[c] = "clear" /\ pc[c] \notin {"new", "clear"}

\* A call that has a record has it on disk.
KeptOf(r) == pc[r] \in Has /\ kind[r] # "clear" /\ ~Clearing(r) => id[r] \in disk.rows
KeptInv == \A r \in Calls : KeptOf(r)

\* A call whose record is on disk is about to audit it, has done so, or was ended; one
\* whose INSERT was left in the transaction was ended.
AuditOf(r) ==
    /\ r \in disk.rows => \/ pc[r] = "event" /\ id[r] = r
                          \/ pc[r] \in {"error", "lost"}
                          \/ pc[r] \in {"refetch", "ok"} /\ r \in disk.audit
    /\ <<"insert", r>> \in left => pc[r] = "error"
AuditInv == \A r \in Calls : AuditOf(r)

HistoryInv == KindInv /\ DeletionInv /\ KeptInv /\ AuditInv

\* What a statement in progress wrote.
LEMMA OwnWrites ==
  ASSUME TierInv, KindInv, NEW r \in Calls
  PROVE  /\ \A x \in Calls : <<"delete", x>> \in own[r] =>
               pc[r] = "clear" /\ kind[r] = "clear" /\ Table(kind[x]) = "submit"
         /\ \A x \in Calls : <<"insert", x>> \in own[r] => x = r /\ pc[r] = "insert"
         /\ Running(r) /\ pc[r] = "insert" => <<"insert", r>> \in own[r]
         /\ Running(r) /\ pc[r] = "event" /\ id[r] = r => <<"event", r>> \in own[r]
<1>1. CASE ~Running(r)
  BY <1>1 DEF TierInv, OwnInv
<1>2. CASE Running(r)
  <2>1. own[r] = Writes(pc[r], kind, r, id[r], After(disk, left))
    BY <1>2 DEF TierInv, OwnInv
  <2> QED  BY <1>2, <2>1 DEF Writes, Rows, KindInv, Table
<1> QED  BY <1>1, <1>2

\* A clear that has ended stays ended.
LEMMA ClearingStays ==
  ASSUME NEW r \in Calls, NEW s, s \notin {"new", "clear"}, pc \in [Calls -> Statements \cup Answers \cup {"new"}],
         pc' = [pc EXCEPT ![r] = s], kind' = kind
  PROVE  /\ \A q \in Calls : Clearing(q) => Clearing(q)'
         /\ DeletionInv /\ left' \subseteq left => DeletionInv'
BY DEF Clearing, DeletionInv

\* A commit keeps the record of a call, unless it was a task and is cleared.
LEMMA CommitKeeps ==
  ASSUME TierInv, HistoryInv, NEW r \in Calls, Running(r), Commit, NEW s, s \notin {"new", "clear"},
         pc' = [pc EXCEPT ![r] = s], kind' = kind,
         NEW q \in Calls, pc[q] \in Has, kind[q] # "clear", ~Clearing(q)'
  PROVE  id[q] \in disk'.rows
<1>1. TypeOK /\ IdInv /\ KindInv /\ KeptInv /\ DeletionInv
  BY DEF TierInv, HistoryInv
<1>2. ~Clearing(q)
  BY <1>1, ClearingStays DEF TypeOK
<1>3. id[q] \in disk.rows /\ id[q] \in Calls /\ Table(kind[id[q]]) = Table(kind[q])
  BY <1>1, <1>2 DEF KeptInv, KeptOf, IdInv, Fits, Has
<1>4. Table(kind[q]) = "submit" => kind[q] = "submit"
  BY DEF Table
<1>5. <<"delete", id[q]>> \notin left
  BY <1>1, <1>2, <1>3, <1>4 DEF DeletionInv, Clearing
<1>6. <<"delete", id[q]>> \notin own[r]
  <2>1. ASSUME <<"delete", id[q]>> \in own[r] PROVE FALSE
    <3>1. kind[r] = "clear" /\ kind[q] = "submit"
      BY <1>1, <1>3, <1>4, <2>1, OwnWrites
    <3>2. kind'[r] = "clear" /\ pc'[r] \notin {"new", "clear"} /\ kind'[q] = "submit"
      BY <1>1, <3>1 DEF TypeOK
    <3> QED  BY <3>2 DEF Clearing
  <2> QED  BY <2>1
<1>7. disk' = After(After(disk, left), own[r])
  BY WorkingSeen DEF Commit
<1> QED  BY <1>3, <1>5, <1>6, <1>7 DEF After

\* A commit by another call keeps what is said of a call, and one by the call itself
\* keeps what ended it.
LEMMA CommitAudit ==
  ASSUME TierInv, HistoryInv, NEW r \in Calls, Running(r), Commit
  PROVE  /\ disk.audit \subseteq disk'.audit
         /\ \A x \in Calls : x \in disk'.rows =>
               x \in disk.rows \/ pc[x] = "error" \/ (x = r /\ pc[r] = "insert")
         /\ pc[r] = "event" /\ id[r] = r => r \in disk'.audit
<1>1. disk' = After(After(disk, left), own[r])
  BY WorkingSeen DEF Commit
<1>2. KindInv /\ AuditInv
  BY DEF HistoryInv
<1>3. /\ \A x \in Calls : <<"insert", x>> \in own[r] => x = r /\ pc[r] = "insert"
      /\ pc[r] = "event" /\ id[r] = r => <<"event", r>> \in own[r]
  BY <1>2, OwnWrites
<1> QED  BY <1>1, <1>2, <1>3 DEF After, AuditInv, AuditOf

\* The result of a statement: a record that the call found, made or had.
LEMMA ResultKept ==
  ASSUME TierInv, HistoryInv, NEW r \in Calls, Running(r), kind[r] # "clear",
         result[r][1] \in Has
  PROVE  \/ pc[r] = "find" /\ result[r][2] \in After(disk, left).rows /\ own[r] = {}
         \/ pc[r] = "insert" /\ result[r][2] = r /\ result[r][1] = "event"
         \/ pc[r] \in Has /\ result[r][2] = id[r] /\ result[r][1] \in {"refetch", "ok"}
<1> DEFINE seen == After(disk, left)
<1>1. /\ result[r] = Result(pc[r], kind, r, id[r], seen) /\ pc[r] \in Statements
      /\ own[r] = Writes(pc[r], kind, r, id[r], seen)
  BY DEF TierInv, OwnInv, Running
<1>2. seen \in Databases
  BY AfterType DEF TierInv, TypeOK
<1>3. pc[r] = "find" => own[r] = {}
  BY <1>1 DEF Writes
<1>4. Known(kind, r, seen) => Holder(kind, r, seen) \in seen.rows
  BY <1>2, HolderFound
<1>5. CASE kind[r] = "token"
  BY <1>1, <1>3, <1>4, <1>5 DEF Result, Token, Has
<1>6. CASE kind[r] = "register"
  BY <1>1, <1>3, <1>6 DEF Result, Register, Has
<1>7. CASE kind[r] = "submit"
  BY <1>1, <1>3, <1>4, <1>7 DEF Result, Submit, Has
<1>8. kind[r] \in Kinds
  BY DEF TierInv, TypeOK
<1> QED  BY <1>5, <1>6, <1>7, <1>8 DEF Kinds

\* A statement leads on, to what the call asks for.
LEMMA ResultKind ==
  ASSUME TierInv, NEW r \in Calls, Running(r)
  PROVE  /\ result[r][1] \notin {"new", "clear"}
         /\ kind[r] = "clear" => result[r][1] \in {"event", "ok"}
<1>1. result[r] = Result(pc[r], kind, r, id[r], After(disk, left)) /\ kind[r] \in Kinds
  BY DEF TierInv, OwnInv, TypeOK, Running
<1>2. CASE kind[r] = "token"
  BY <1>1, <1>2 DEF Result, Token
<1>3. CASE kind[r] = "register"
  BY <1>1, <1>3 DEF Result, Register
<1>4. CASE kind[r] = "submit"
  BY <1>1, <1>4 DEF Result, Submit
<1>5. CASE kind[r] = "clear"
  BY <1>1, <1>5 DEF Result, Clear
<1> QED  BY <1>1, <1>2, <1>3, <1>4, <1>5 DEF Kinds

\* After an INSERT comes its audit event, and after that the answer or the last read.
LEMMA ResultNext ==
  ASSUME TierInv, KindInv, NEW r \in Calls, Running(r)
  PROVE  /\ pc[r] = "insert" => result[r][1] = "event" /\ result[r][2] = r
         /\ pc[r] \in {"event", "refetch"} => result[r][1] \in {"ok", "refetch", "error"}
<1>1. result[r] = Result(pc[r], kind, r, id[r], After(disk, left)) /\ kind[r] \in Kinds
  BY DEF TierInv, OwnInv, TypeOK, Running
<1>2. CASE kind[r] = "token"
  BY <1>1, <1>2 DEF Result, Token
<1>3. CASE kind[r] = "register"
  BY <1>1, <1>3 DEF Result, Register
<1>4. CASE kind[r] = "submit"
  BY <1>1, <1>4 DEF Result, Submit
<1>5. CASE kind[r] = "clear"
  BY <1>1, <1>5 DEF Result, Clear, KindInv
<1> QED  BY <1>1, <1>2, <1>3, <1>4, <1>5 DEF Kinds

\* The call that is committed goes on with a record that is there.
LEMMA FinishHistory ==
  ASSUME TierInv, HistoryInv, NEW r \in Calls, Finish(r)
  PROVE  HistoryInv'
<1> DEFINE s == result[r][1]
<1>t. TypeOK /\ OwnInv /\ KindInv /\ AuditInv
  BY DEF TierInv, HistoryInv
<1>1. /\ Running(r) /\ Commit /\ left' = {} /\ kind' = kind
      /\ pc' = [pc EXCEPT ![r] = s] /\ id' = [id EXCEPT ![r] = result[r][2]]
  BY DEF Finish, Commit, Running
<1>2. s \notin {"new", "clear"} /\ (kind[r] = "clear" => s \in {"event", "ok"})
  BY <1>1, ResultKind
<1>3. KindInv' /\ DeletionInv'
  BY <1>1, <1>2, <1>t DEF KindInv, DeletionInv, TypeOK
<1>4. disk' = After(After(disk, left), own[r])
  BY <1>1, WorkingSeen DEF Commit
<1>5. ASSUME NEW q \in Calls PROVE KeptOf(q)'
  <2> SUFFICES ASSUME pc'[q] \in Has, kind[q] # "clear", ~Clearing(q)' PROVE id'[q] \in disk'.rows
    BY <1>1 DEF KeptOf
  <2>1. CASE q # r
    BY <1>1, <1>2, <1>t, <2>1, CommitKeeps DEF TypeOK
  <2>2. CASE q = r
    <3>1. s \in Has /\ id'[r] = result[r][2]
      BY <1>1, <1>t, <2>2 DEF TypeOK
    <3>2. CASE pc[r] = "find" /\ result[r][2] \in After(disk, left).rows /\ own[r] = {}
      BY <1>4, <3>1, <3>2, <2>2 DEF After
    <3>3. CASE pc[r] = "insert" /\ result[r][2] = r /\ s = "event"
      <4>1. <<"insert", r>> \in own[r] /\ <<"delete", r>> \notin own[r]
        BY <1>1, <1>t, <3>3, OwnWrites
      <4> QED  BY <1>4, <3>1, <3>3, <4>1, <2>2 DEF After
    <3>4. CASE pc[r] \in Has /\ result[r][2] = id[r] /\ s \in {"refetch", "ok"}
      BY <1>1, <1>2, <3>1, <3>4, <2>2, CommitKeeps
    <3> QED  BY <1>1, <2>2, <3>1, <3>2, <3>3, <3>4, ResultKept
  <2> QED  BY <2>1, <2>2
<1>6. ASSUME NEW q \in Calls PROVE AuditOf(q)'
  <2> SUFFICES ASSUME q \in disk'.rows
               PROVE  \/ pc'[q] = "event" /\ id'[q] = q
                      \/ pc'[q] \in {"error", "lost"}
                      \/ pc'[q] \in {"refetch", "ok"} /\ q \in disk'.audit
    BY <1>1 DEF AuditOf
  <2>1. q \in disk.rows \/ pc[q] = "error" \/ (q = r /\ pc[r] = "insert")
    BY <1>1, CommitAudit
  <2>2. CASE q # r
    <3>1. pc'[q] = pc[q] /\ id'[q] = id[q] /\ AuditOf(q)
      BY <1>1, <1>t, <2>2 DEF AuditInv, TypeOK
    <3>2. disk.audit \subseteq disk'.audit
      BY <1>1, CommitAudit
    <3> QED  BY <2>1, <2>2, <3>1, <3>2 DEF AuditOf
  <2>3. CASE q = r
    <3>1. pc[r] \in Statements /\ pc'[r] = s /\ id'[r] = result[r][2]
      BY <1>1, <1>t DEF OwnInv, Running, TypeOK
    <3>2. CASE pc[r] = "insert"
      BY <1>1, <1>t, <2>3, <3>1, <3>2, ResultNext
    <3>3. CASE pc[r] # "insert"
      <4>1. \/ pc[r] = "event" /\ id[r] = r
            \/ pc[r] = "refetch" /\ r \in disk.audit
        BY <2>1, <2>3, <3>1, <3>3, <1>t DEF AuditInv, AuditOf, Statements
      <4>2. r \in disk'.audit
        BY <1>1, <4>1, CommitAudit
      <4>3. s \in {"ok", "refetch", "error"}
        BY <1>1, <1>t, <4>1, ResultNext
      <4> QED  BY <2>3, <3>1, <4>2, <4>3
    <3> QED  BY <3>2, <3>3
  <2> QED  BY <2>2, <2>3
<1> QED  BY <1>3, <1>5, <1>6 DEF HistoryInv, KeptInv, AuditInv

\* A call that ends without its commit, or in the middle of it, leaves what it wrote
\* for others to commit.
LEMMA InterruptedHistory ==
  ASSUME TierInv, HistoryInv, NEW r \in Calls, Interrupted(r)
  PROVE  HistoryInv'
<1>t. TypeOK /\ KindInv /\ DeletionInv /\ KeptInv /\ AuditInv
  BY DEF TierInv, HistoryInv
<1>1. /\ pc' = [pc EXCEPT ![r] = "error"] /\ id' = [id EXCEPT ![r] = None] /\ kind' = kind
      /\ \/ left' = left \cup own[r] /\ disk' = disk
         \/ Running(r) /\ Commit /\ left' = {}
  BY DEF Interrupted, Fails, Commit, Running
<1>2. KindInv'
  BY <1>1, <1>t DEF KindInv, TypeOK
<1>3. CASE left' = left \cup own[r] /\ disk' = disk
  <2>1. DeletionInv'
    <3> SUFFICES ASSUME NEW x \in Calls, <<"delete", x>> \in left'
                 PROVE  /\ Table(kind[x]) = "submit"
                        /\ \E c \in Calls : kind[c] = "clear" /\ pc'[c] \notin {"new", "clear"}
      BY <1>1 DEF DeletionInv
    <3>1. CASE <<"delete", x>> \in left
      BY <1>1, <1>t, <3>1 DEF DeletionInv, TypeOK
    <3>2. CASE <<"delete", x>> \in own[r]
      BY <1>1, <1>t, <3>2, OwnWrites DEF TypeOK
    <3> QED  BY <1>3, <3>1, <3>2
  <2>2. ASSUME NEW q \in Calls PROVE KeptOf(q)'
    <3>1. Clearing(q) => Clearing(q)'
      BY <1>1, <1>t, ClearingStays DEF TypeOK
    <3> QED  BY <1>1, <1>3, <1>t, <3>1 DEF KeptInv, KeptOf, TypeOK, Has
  <2>3. ASSUME NEW q \in Calls PROVE AuditOf(q)'
    <3>1. <<"insert", q>> \in own[r] => q = r
      BY <1>t, OwnWrites
    <3> QED  BY <1>1, <1>3, <1>t, <3>1 DEF AuditInv, AuditOf, TypeOK
  <2> QED  BY <1>2, <2>1, <2>2, <2>3 DEF HistoryInv, KeptInv, AuditInv
<1>4. CASE Running(r) /\ Commit /\ left' = {}
  <2>1. DeletionInv'
    BY <1>4 DEF DeletionInv
  <2>2. ASSUME NEW q \in Calls PROVE KeptOf(q)'
    <3> SUFFICES ASSUME pc'[q] \in Has, kind[q] # "clear", ~Clearing(q)' PROVE id'[q] \in disk'.rows
      BY <1>1 DEF KeptOf
    <3>1. q # r /\ pc'[q] = pc[q] /\ id'[q] = id[q]
      BY <1>1, <1>t DEF Has, TypeOK
    <3> QED  BY <1>1, <1>4, <3>1, CommitKeeps
  <2>3. ASSUME NEW q \in Calls PROVE AuditOf(q)'
    <3>1. CASE q # r
      <4>1. pc'[q] = pc[q] /\ id'[q] = id[q] /\ AuditOf(q)
        BY <1>1, <1>t, <3>1 DEF AuditInv, TypeOK
      <4>2. /\ disk.audit \subseteq disk'.audit
            /\ q \in disk'.rows => q \in disk.rows \/ pc[q] = "error"
        BY <1>4, <3>1, CommitAudit
      <4> QED  BY <1>4, <4>1, <4>2 DEF AuditOf
    <3>2. CASE q = r
      BY <1>1, <1>4, <1>t, <3>2 DEF AuditOf, TypeOK
    <3> QED  BY <3>1, <3>2
  <2> QED  BY <1>2, <2>1, <2>2, <2>3 DEF HistoryInv, KeptInv, AuditInv
<1> QED  BY <1>1, <1>3, <1>4

\* Every step keeps what was answered.
LEMMA HistoryStep == TierInv /\ HistoryInv /\ [Next]_vars => HistoryInv'
<1> SUFFICES ASSUME TierInv, HistoryInv, [Next]_vars PROVE HistoryInv'
  OBVIOUS
<1>t. TypeOK /\ OwnInv /\ KindInv /\ DeletionInv /\ KeptInv /\ AuditInv
  BY DEF TierInv, HistoryInv
<1>1. ASSUME NEW r \in Calls, Begin(r) PROVE HistoryInv'
  <2>1. /\ pc[r] = "new" /\ pc' = [pc EXCEPT ![r] = First(kind, r)]
        /\ UNCHANGED <<kind, id, disk, left>>
    BY <1>1 DEF Begin, conn
  <2>2. KindInv' /\ DeletionInv'
    BY <2>1, <1>t DEF KindInv, DeletionInv, First, TypeOK
  <2>3. ASSUME NEW q \in Calls PROVE KeptOf(q)' /\ AuditOf(q)'
    <3>1. Clearing(q) => Clearing(q)'
      BY <2>1, <1>t DEF Clearing, TypeOK
    <3> QED  BY <2>1, <3>1, <1>t DEF KeptInv, KeptOf, AuditInv, AuditOf, TypeOK, Has, First
  <2> QED  BY <2>2, <2>3 DEF HistoryInv, KeptInv, AuditInv
<1>2. ASSUME NEW r \in Calls, Refused(r) PROVE HistoryInv'
  <2>1. /\ pc' = [pc EXCEPT ![r] = "error"] /\ id' = [id EXCEPT ![r] = None]
        /\ UNCHANGED <<kind, disk, left>>
    BY <1>2 DEF Refused, Fails
  <2>2. KindInv' /\ DeletionInv'
    BY <2>1, <1>t, ClearingStays DEF KindInv, TypeOK
  <2>3. ASSUME NEW q \in Calls PROVE KeptOf(q)' /\ AuditOf(q)'
    <3>1. Clearing(q) => Clearing(q)'
      BY <2>1, <1>t, ClearingStays DEF TypeOK
    <3> QED  BY <2>1, <3>1, <1>t DEF KeptInv, KeptOf, AuditInv, AuditOf, TypeOK, Has
  <2> QED  BY <2>2, <2>3 DEF HistoryInv, KeptInv, AuditInv
<1>3. CASE Kill
  <2>1. KindInv' /\ DeletionInv'
    BY <1>3, <1>t DEF Kill, KindInv, DeletionInv, Statements
  <2>2. ASSUME NEW q \in Calls PROVE KeptOf(q)' /\ AuditOf(q)'
    <3>1. Clearing(q) => Clearing(q)'
      BY <1>3, <1>t DEF Kill, Clearing, Statements
    <3> QED  BY <1>3, <3>1, <1>t DEF Kill, KeptInv, KeptOf, AuditInv, AuditOf, TypeOK, Has, Statements
  <2> QED  BY <2>1, <2>2 DEF HistoryInv, KeptInv, AuditInv
<1>4. CASE UNCHANGED <<call, disk, left>>
  BY <1>4, <1>t DEF HistoryInv, KindInv, DeletionInv, KeptInv, KeptOf, AuditInv, AuditOf, Clearing, call
<1>5. ASSUME NEW r \in Calls, Enqueue(r) \/ Execute(r) \/ CloseCursor(r) PROVE HistoryInv'
  BY <1>4, <1>5 DEF Enqueue, Execute, CloseCursor, conn
<1>6. CASE UNCHANGED vars
  BY <1>4, <1>6 DEF vars, conn
<1>7. ASSUME NEW r \in Calls, Finish(r) \/ Interrupted(r) PROVE HistoryInv'
  BY <1>7, FinishHistory, InterruptedHistory
<1> QED
  BY <1>1, <1>2, <1>3, <1>5, <1>6, <1>7 DEF Next, Step

LEMMA HistoryAlways == Spec => []HistoryInv
<1>1. Init => HistoryInv
  BY DEF Init, HistoryInv, KindInv, DeletionInv, KeptInv, KeptOf, AuditInv, AuditOf, Has
<1> QED  BY <1>1, HistoryStep, TierAlways, PTL DEF Spec

\* What a client was told exists is on disk until a clear is asked for, whatever was
\* interrupted or killed since.
THEOREM AnswersStored == Spec => []Stored
<1>1. HistoryInv => Stored
  BY DEF HistoryInv, KeptInv, KeptOf, Stored, Has
<1> QED  BY <1>1, HistoryAlways, PTL

\* A record whose creation was answered has its audit event.
THEOREM CreationsAudited == Spec => []Audited
<1>1. TierInv /\ HistoryInv => Audited
  <2> SUFFICES ASSUME TierInv, HistoryInv, NEW r \in disk.rows \ disk.audit
               PROVE  pc[r] \in {"insert", "event", "error", "lost"}
    BY DEF Audited
  <2>1. r \in Calls
    BY DEF TierInv, TypeOK, Databases
  <2> QED  BY <2>1 DEF HistoryInv, AuditInv, AuditOf
<1> QED  BY <1>1, TierAlways, HistoryAlways, PTL

-----------------------------------------------------------------------------
(* Refinement: a statement takes effect when it is committed.              *)

\* Records reads the same handlers, by names of its own.
LEMMA SameHandlers ==
  /\ R!Statements = Statements /\ R!Kinds = Kinds
  /\ \A k, r : R!First(k, r) = First(k, r)
  /\ \A db, w : R!After(db, w) = After(db, w)
  /\ \A s, k, r, db : R!Refuses(s, k, r, db) <=> Refuses(s, k, r, db)
  /\ \A s, k, r, i, db : R!Writes(s, k, r, i, db) = Writes(s, k, r, i, db)
  /\ \A s, k, r, i, db : R!Result(s, k, r, i, db) = Result(s, k, r, i, db)
<1>1. R!Statements = Statements /\ R!Kinds = Kinds /\ \A k, r : R!First(k, r) = First(k, r)
  BY DEF R!Statements, Statements, R!Kinds, Kinds, R!First, First
<1>2. \A db, w : R!After(db, w) = After(db, w)
  BY DEF R!After, After
<1>3. \A k, r, db : R!Rows(k, r, db) = Rows(k, r, db)
  BY DEF R!Rows, Rows, R!Table, Table
<1>4. \A k, r, db : R!Known(k, r, db) <=> Known(k, r, db)
  BY <1>3 DEF R!Known, Known
<1>5. \A k, r, db : R!Holder(k, r, db) = Holder(k, r, db)
  BY <1>3 DEF R!Holder, Holder
<1>6. \A s, k, r, db : R!Refuses(s, k, r, db) <=> Refuses(s, k, r, db)
  BY <1>4 DEF R!Refuses, Refuses
<1>7. \A s, k, r, i, db : R!Writes(s, k, r, i, db) = Writes(s, k, r, i, db)
  BY <1>3 DEF R!Writes, Writes
<1>8. \A s, k, r, i, db : R!Result(s, k, r, i, db) = Result(s, k, r, i, db)
  <2> TAKE s, k, r, i, db
  <2>1. R!Token(s, k, r, i, db) = Token(s, k, r, i, db)
    BY <1>4, <1>5 DEF R!Token, Token
  <2>2. R!Register(s, k, r, i, db) = Register(s, k, r, i, db)
    BY <1>4 DEF R!Register, Register
  <2>3. R!Submit(s, k, r, i, db) = Submit(s, k, r, i, db)
    BY <1>4, <1>5 DEF R!Submit, Submit
  <2>4. R!Clear(s, k, r, db) = Clear(s, k, r, db)
    BY <1>4 DEF R!Clear, Clear
  <2> QED  BY <2>1, <2>2, <2>3, <2>4 DEF R!Result, Result
<1> QED  BY <1>1, <1>2, <1>6, <1>7, <1>8

\* What Records sees is what is on disk and left there.
LEMMA SeenIs == R!Seen = After(disk, left)
BY SameHandlers DEF R!Seen

\* The initial states of the tier are initial states of Records.
LEMMA InitRefines == Init => R!Init
BY MixesAssumption, SameHandlers DEF Init, R!Init

\* What a call that is about to commit finds is what the one atomic statement finds.
LEMMA CommitRefines ==
  ASSUME TierInv, NEW r \in Calls, phase[r] = "closed"
  PROVE  /\ Holds(r) /\ pc[r] \in Statements /\ ~Refuses(pc[r], kind, r, R!Seen)
         /\ result[r] = Result(pc[r], kind, r, id[r], R!Seen)
         /\ Working = After(R!Seen, Writes(pc[r], kind, r, id[r], R!Seen))
<1>1. Running(r)
  BY DEF Running
<1>2. Working = After(After(disk, left), own[r])
  BY <1>1, WorkingSeen
<1> QED  BY <1>1, <1>2, SeenIs DEF TierInv, LockInv, OwnInv, Holds

\* Every step of the tier is a step of Records or changes nothing of it.
LEMMA StepRefines == TierInv /\ [Next]_vars => [R!Next]_(R!vars)
<1> SUFFICES ASSUME TierInv, [Next]_vars PROVE R!Next \/ UNCHANGED R!vars
  OBVIOUS
<1>t. TypeOK /\ OwnInv
  BY DEF TierInv
<1>1. ASSUME NEW r \in Calls, Begin(r) PROVE R!Begin(r)
  BY <1>1, SameHandlers DEF Begin, R!Begin, conn
<1>2. ASSUME NEW r \in Calls, Enqueue(r) \/ Execute(r) \/ CloseCursor(r) PROVE UNCHANGED R!vars
  BY <1>2 DEF Enqueue, Execute, CloseCursor, R!vars, call, conn
<1>3. ASSUME NEW r \in Calls, Finish(r) PROVE R!Statement(r)
  <2>1. /\ phase[r] = "closed" /\ disk' = Working /\ left' = {} /\ kind' = kind
        /\ pc' = [pc EXCEPT ![r] = result[r][1]] /\ id' = [id EXCEPT ![r] = result[r][2]]
    BY <1>3 DEF Finish, Commit
  <2> QED  BY <2>1, CommitRefines, SameHandlers DEF R!Statement
<1>4. ASSUME NEW r \in Calls, phase[r] = "waiting", Holds(r) PROVE
        pc[r] \in Statements /\ Working = R!Seen /\ own[r] = {}
  <2>1. \A q \in Calls : ~Running(q)
    BY <1>4, HeadAlone DEF Running
  <2> QED  BY <1>4, <1>t, <2>1, WorkingSeen, SeenIs DEF OwnInv
<1>5. ASSUME NEW r \in Calls, Refused(r) PROVE R!Refused(r)
  BY <1>4, <1>5, SameHandlers DEF Refused, R!Refused, Fails, R!Fails
<1>6. ASSUME NEW r \in Calls, Interrupted(r) PROVE R!Interrupted(r)
  <2>1. Holds(r) /\ Fails(r) /\ kind' = kind /\ phase[r] \in {"waiting", "open", "closed"}
    BY <1>6, <1>t DEF Interrupted, TypeOK
  <2>2. pc[r] \in Statements
    BY <2>1, <1>t DEF OwnInv
  <2>3. CASE phase[r] = "closed" /\ Commit
    BY <2>1, <2>2, <2>3, CommitRefines, SameHandlers DEF Commit, R!Interrupted, Fails, R!Fails
  <2>4. CASE left' = left \cup own[r] /\ disk' = disk
    <3>1. CASE phase[r] = "waiting"
      BY <1>4, <2>1, <2>2, <2>4, <3>1, SameHandlers DEF R!Interrupted, Fails, R!Fails
    <3>2. CASE phase[r] # "waiting"
      <4>1. own[r] = Writes(pc[r], kind, r, id[r], R!Seen)
        BY <2>1, <3>2, <1>t, SeenIs DEF OwnInv, Running
      <4> QED  BY <2>1, <2>2, <2>4, <4>1, SameHandlers DEF R!Interrupted, Fails, R!Fails
    <3> QED  BY <3>1, <3>2
  <2> QED  BY <1>6, <2>3, <2>4 DEF Interrupted
<1>7. CASE Kill
  BY <1>7, SameHandlers DEF Kill, R!Kill, R!Next
<1>8. CASE UNCHANGED vars
  BY <1>8 DEF vars, R!vars, call, conn
<1> QED
  BY <1>1, <1>2, <1>3, <1>5, <1>6, <1>7, <1>8 DEF Next, Step, R!Next

\* Over one connection behind the lock every statement is one atomic step, in whatever
\* order the handlers ask for them: what Relay and the handlers assume of a Database.
THEOREM TierImplementsRecords == Spec => ImplementsRecords
<1>1. Spec => R!Init /\ [][R!Next]_(R!vars)
  BY InitRefines, StepRefines, TierAlways, PTL DEF Spec
<1> QED  BY <1>1 DEF ImplementsRecords, R!Spec

-----------------------------------------------------------------------------
(* The lock is never held by nobody.  Answered is TLC's; that a call which  *)
(* waits for the lock waits only for calls that can go on is proved.        *)

\* The calls inside async with self._lock, and those that wait for it, are in its
\* queue, each once.
QueueInv ==
    /\ \A r \in Calls : phase[r] # "idle" <=> \E i \in DOMAIN queue : queue[i] = r
    /\ \A i, j \in DOMAIN queue : queue[i] = queue[j] => i = j

\* The holder can take its next step.
Served(r) ==
    /\ pc[r] \in Statements
    /\ \/ phase[r] = "waiting"            \* Execute or Refused
       \/ phase[r] \in {"open", "closed"} \* CloseCursor, Finish

LockServed == queue # <<>> => Head(queue) \in Calls /\ Served(Head(queue))

\* The holder gives the lock up, and only the holder is out of the queue.
LEMMA ReleaseQueue ==
  ASSUME TypeOK, QueueInv, NEW r \in Calls, Holds(r), Release(r)
  PROVE  QueueInv'
<1>1. /\ queue \in Seq(Calls) /\ queue # <<>> /\ queue[1] = r /\ queue' = Tail(queue)
      /\ phase' = [phase EXCEPT ![r] = "idle"] /\ phase \in [Calls -> {"idle", "waiting", "open", "closed"}]
  BY DEF Holds, Release, TypeOK
<1>2. /\ Len(queue) \in Nat \ {0} /\ DOMAIN queue = 1..Len(queue)
      /\ DOMAIN queue' = 1..(Len(queue) - 1)
      /\ \A i \in 1..(Len(queue) - 1) : queue'[i] = queue[i + 1]
  BY <1>1
<1>3. ASSUME NEW i \in DOMAIN queue', NEW j \in DOMAIN queue', queue'[i] = queue'[j] PROVE i = j
  <2>1. i + 1 \in DOMAIN queue /\ j + 1 \in DOMAIN queue /\ queue[i + 1] = queue[j + 1]
    BY <1>2, <1>3
  <2>2. i + 1 = j + 1
    BY <2>1 DEF QueueInv
  <2> QED  BY <1>2, <2>2
<1>4. ASSUME NEW q \in Calls, q # r
      PROVE  (\E i \in DOMAIN queue' : queue'[i] = q) <=> \E i \in DOMAIN queue : queue[i] = q
  <2>1. ASSUME NEW i \in DOMAIN queue', queue'[i] = q PROVE \E j \in DOMAIN queue : queue[j] = q
    <3>1. i + 1 \in DOMAIN queue /\ queue[i + 1] = q
      BY <1>2, <2>1
    <3> QED  BY <3>1
  <2>2. ASSUME NEW j \in DOMAIN queue, queue[j] = q PROVE \E i \in DOMAIN queue' : queue'[i] = q
    <3>1. j # 1
      BY <1>1, <1>4, <2>2
    <3>2. j - 1 \in DOMAIN queue' /\ queue'[j - 1] = queue[(j - 1) + 1] /\ (j - 1) + 1 = j
      BY <1>2, <3>1
    <3> QED  BY <2>2, <3>2
  <2> QED  BY <2>1, <2>2
<1>5. ~\E i \in DOMAIN queue' : queue'[i] = r
  <2> SUFFICES ASSUME NEW i \in DOMAIN queue', queue'[i] = r PROVE FALSE
    OBVIOUS
  <2>1. i + 1 \in DOMAIN queue /\ 1 \in DOMAIN queue /\ queue[i + 1] = queue[1]
    BY <1>1, <1>2
  <2>2. i + 1 = 1
    BY <2>1 DEF QueueInv
  <2> QED  BY <1>2, <2>2
<1>6. ASSUME NEW q \in Calls PROVE phase'[q] # "idle" <=> \E i \in DOMAIN queue' : queue'[i] = q
  <2>1. CASE q = r
    BY <1>1, <1>5, <2>1
  <2>2. CASE q # r
    <3>1. phase'[q] = phase[q]
      BY <1>1, <2>2
    <3> QED  BY <1>4, <2>2, <3>1 DEF QueueInv
  <2> QED  BY <2>1, <2>2
<1> QED  BY <1>3, <1>6 DEF QueueInv

\* A call that waits is behind those that waited before it.
LEMMA EnqueueQueue ==
  ASSUME TypeOK, QueueInv, NEW r \in Calls, Enqueue(r)
  PROVE  QueueInv'
<1>1. /\ queue \in Seq(Calls) /\ queue' = Append(queue, r) /\ phase[r] = "idle"
      /\ phase' = [phase EXCEPT ![r] = "waiting"] /\ phase \in [Calls -> {"idle", "waiting", "open", "closed"}]
  BY DEF Enqueue, TypeOK
<1>2. /\ Len(queue) \in Nat /\ DOMAIN queue = 1..Len(queue)
      /\ DOMAIN queue' = DOMAIN queue \cup {Len(queue) + 1}
      /\ Len(queue) + 1 \notin DOMAIN queue
      /\ queue'[Len(queue) + 1] = r /\ \A i \in DOMAIN queue : queue'[i] = queue[i]
  BY <1>1
<1>3. \A i \in DOMAIN queue : queue[i] # r
  BY <1>1 DEF QueueInv
<1>4. \A i, j \in DOMAIN queue' : queue'[i] = queue'[j] => i = j
  BY <1>2, <1>3 DEF QueueInv
<1>5. \A q \in Calls : phase'[q] # "idle" <=> \E i \in DOMAIN queue' : queue'[i] = q
  BY <1>1, <1>2, <1>3 DEF QueueInv
<1> QED  BY <1>4, <1>5 DEF QueueInv

\* Every step keeps the queue, a kill of the process by emptying it.
LEMMA QueueStep == TierInv /\ QueueInv /\ [Next]_vars => QueueInv'
<1> SUFFICES ASSUME TierInv, QueueInv, [Next]_vars PROVE QueueInv'
  OBVIOUS
<1>t. TypeOK
  BY DEF TierInv
<1>1. ASSUME NEW r \in Calls, Begin(r) PROVE QueueInv'
  BY <1>1 DEF Begin, QueueInv, conn
<1>2. ASSUME NEW r \in Calls, Execute(r) \/ CloseCursor(r) PROVE QueueInv'
  <2>1. queue' = queue /\ phase \in [Calls -> {"idle", "waiting", "open", "closed"}]
    BY <1>2, <1>t DEF Execute, CloseCursor, conn, TypeOK
  <2>2. \A q \in Calls : phase'[q] # "idle" <=> phase[q] # "idle"
    BY <1>2, <2>1 DEF Execute, CloseCursor
  <2> QED  BY <2>1, <2>2 DEF QueueInv
<1>3. ASSUME NEW r \in Calls, Finish(r) PROVE QueueInv'
  <2>1. Holds(r)
    BY <1>3 DEF Finish, TierInv, LockInv, Running, Holds
  <2> QED  BY <1>3, <1>t, <2>1, ReleaseQueue DEF Finish
<1>4. ASSUME NEW r \in Calls, Refused(r) \/ Interrupted(r) PROVE QueueInv'
  BY <1>4, <1>t, ReleaseQueue DEF Refused, Interrupted
<1>5. CASE Kill
  BY <1>5 DEF Kill, QueueInv
<1>6. CASE UNCHANGED vars
  BY <1>6 DEF vars, conn, QueueInv
<1> QED  BY <1>1, <1>2, <1>3, <1>4, <1>5, <1>6, <1>t, EnqueueQueue DEF Next, Step

\* The lock is held by a call that has a step to take, whatever was interrupted or
\* refused before it: a call that ended is not in the queue, and one that waits is in
\* it once, so that one release after the other brings it to the head.
THEOREM LockIsServed == Spec => [](LockServed /\ QueueInv)
<1>1. Init => QueueInv
  BY DEF Init, QueueInv
<1>2. Spec => []QueueInv
  BY <1>1, QueueStep, TierAlways, PTL DEF Spec
<1>3. TierInv /\ QueueInv => LockServed
  <2> SUFFICES ASSUME TierInv, QueueInv, queue # <<>>
               PROVE  Head(queue) \in Calls /\ Served(Head(queue))
    BY DEF LockServed
  <2>1. queue \in Seq(Calls) /\ phase \in [Calls -> {"idle", "waiting", "open", "closed"}]
    BY DEF TierInv, TypeOK
  <2>2. 1 \in DOMAIN queue /\ Head(queue) = queue[1] /\ Head(queue) \in Calls
    BY <2>1
  <2>3. phase[Head(queue)] # "idle"
    BY <2>2 DEF QueueInv
  <2> QED  BY <2>1, <2>2, <2>3 DEF TierInv, OwnInv, Served
<1> QED  BY <1>2, <1>3, TierAlways, PTL
=============================================================================
