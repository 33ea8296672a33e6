-------------------------- MODULE RoundTableProofs --------------------------
(***************************************************************************)
(* Theorems about RoundTable for every number of rounds, seats and turns.  *)
(* TypeOK, TurnsSettle and RunningServed are inductive together.  What a   *)
(* round does between two turns is one lemma, used where it is seated and  *)
(* where it has settled a turn.                                            *)
(***************************************************************************)
EXTENDS RoundTable, TLAPS

TableInv == TypeOK /\ TurnsSettle /\ RunningServed

\* The live turns of tr all belong to rounds other than r.
OthersLive(r, tr) ==
    \A i \in 1..Len(tr) : tr[i] = "live" => \E x \in Rounds \ {r} : InTurn(x) /\ idx[x] = i

\* tr is the transcript with the turn i patched.
Patched(tr, i, status) ==
    /\ tr \in Seq(Turns) /\ Len(tr) \in Nat
    /\ \A j \in 1..Len(tr) :
          tr[j] = IF j = i THEN status ELSE IF j <= Len(transcript) THEN transcript[j] ELSE "hole"

\* A patch gives a transcript, also at an index past its end.
LEMMA PatchType ==
    ASSUME TypeOK, NEW i \in Nat, NEW status \in Turns
    PROVE  Patched(Patch(i, status), i, status)
<1> DEFINE n == IF i > Len(transcript) THEN i ELSE Len(transcript)
           e(j) == IF j = i THEN status ELSE IF j <= Len(transcript) THEN transcript[j] ELSE "hole"
<1>1. transcript \in Seq(Turns) /\ n \in Nat
  BY DEF TypeOK
<1>2. \A j \in 1..n : e(j) \in Turns
  BY <1>1 DEF Turns
<1>3. Patch(i, status) = [j \in 1..n |-> e(j)]
  BY DEF Patch
<1> HIDE DEF n, e
<1>4. Patch(i, status) \in [1..n -> Turns]
  BY <1>2, <1>3
<1>5. Patch(i, status) \in Seq(Turns) /\ Len(Patch(i, status)) = n
  BY <1>1, <1>3, <1>4
<1> QED BY <1>1, <1>3, <1>5 DEF Patched, n, e

\* The loop over the participants keeps the invariant: it leaves live only the turn
\* it has just submitted.
LEMMA TurnsTaken ==
    ASSUME TypeOK, NEW r \in Rounds, NEW tr \in Seq(Turns), NEW n \in Nat, NEW on \in BOOLEAN,
           stopRequested' \in BOOLEAN, OthersLive(r, tr), TakeTurns(r, tr, n, on)
    PROVE  TableInv'
<1> USE DEF TypeOK
<1>1. CASE transcript' = tr /\ Leave(r)
  <2>1. TypeOK' BY <1>1 DEF Leave
  <2>2. TurnsSettle' BY <1>1 DEF Leave, OthersLive, TurnsSettle, InTurn
  <2>3. RunningServed' BY <1>1 DEF Leave, RunningServed
  <2> QED BY <2>1, <2>2, <2>3 DEF TableInv
<1>2. CASE transcript' = tr \o [k \in 1..n |-> "settled"] /\ Leave(r)
  <2> DEFINE rest == [k \in 1..n |-> "settled"]
  <2>1. rest \in Seq(Turns) /\ Len(rest) = n
    BY DEF Turns
  <2> HIDE DEF rest
  <2>2. transcript' \in Seq(Turns) /\ Len(transcript') = Len(tr) + n
    BY <1>2, <2>1 DEF rest
  <2>3. TypeOK' BY <1>2, <2>2 DEF Leave
  <2>4. ASSUME NEW i \in 1..Len(transcript'), transcript'[i] = "live"
        PROVE  i \in 1..Len(tr) /\ tr[i] = "live"
    <3>1. CASE i <= Len(tr) BY <1>2, <2>1, <2>2, <2>4, <3>1 DEF rest
    <3>2. CASE i > Len(tr)
      <4>1. i - Len(tr) \in 1..n BY <2>2, <3>2
      <4>2. transcript'[i] = rest[i - Len(tr)] BY <1>2, <2>1, <2>2, <3>2 DEF rest
      <4> QED BY <2>4, <4>1, <4>2 DEF rest
    <3> QED BY <2>2, <3>1, <3>2
  <2>5. TurnsSettle' BY <1>2, <2>4 DEF Leave, OthersLive, TurnsSettle, InTurn
  <2>6. RunningServed' BY <1>2 DEF Leave, RunningServed
  <2> QED BY <2>3, <2>5, <2>6 DEF TableInv
<1>3. CASE /\ n > 0
           /\ transcript' = Append(tr, "live") /\ running' = on
           /\ pc' = [pc EXCEPT ![r] = "submitting"] /\ todo' = [todo EXCEPT ![r] = n - 1]
           /\ idx' = [idx EXCEPT ![r] = Len(tr) + 1]
  <2>1. transcript' \in Seq(Turns) /\ Len(transcript') = Len(tr) + 1
    BY <1>3 DEF Turns
  <2>2. TypeOK'
    <3>1. todo' \in [Rounds -> Nat] /\ idx' \in [Rounds -> Nat] BY <1>3
    <3>2. pc' \in [Rounds -> {"free", "preflight", "submitting", "asking", "cancelling", "sleeping"}]
      BY <1>3
    <3> QED BY <1>3, <2>1, <3>1, <3>2
  <2>3. InTurn(r)' /\ idx'[r] = Len(tr) + 1 BY <1>3 DEF InTurn
  <2>4. ASSUME NEW i \in 1..Len(transcript'), transcript'[i] = "live"
        PROVE  \E x \in Rounds : InTurn(x)' /\ idx'[x] = i
    <3>1. CASE i = Len(tr) + 1 BY <2>3, <3>1
    <3>2. CASE i \in 1..Len(tr)
      <4>1. tr[i] = "live" BY <1>3, <2>4, <3>2
      <4> QED BY <1>3, <3>2, <4>1 DEF OthersLive, InTurn
    <3> QED BY <2>1, <3>1, <3>2
  <2>5. TurnsSettle' BY <2>4 DEF TurnsSettle
  <2>6. RunningServed' BY <2>3 DEF RunningServed
  <2> QED BY <2>2, <2>5, <2>6 DEF TableInv
<1> QED BY <1>1, <1>2, <1>3 DEF TakeTurns

\* A turn that is settled is live no more, and the other live turns keep their rounds.
LEMMA TurnSettled ==
    ASSUME TableInv, NEW r \in Rounds, Settle(r)
    PROVE  TableInv'
<1> DEFINE tr == Patch(idx[r], "settled")
<1>1. idx[r] \in Nat /\ todo[r] \in Nat /\ running \in BOOLEAN /\ stopRequested' \in BOOLEAN
  BY DEF TableInv, TypeOK, Settle
<1>2. /\ tr \in Seq(Turns)
      /\ \A j \in 1..Len(tr) : tr[j] = "live" =>
            j # idx[r] /\ j \in 1..Len(transcript) /\ transcript[j] = "live"
  <2>1. "settled" \in Turns BY DEF Turns
  <2>2. transcript \in Seq(Turns) BY DEF TableInv, TypeOK
  <2>3. Patched(tr, idx[r], "settled") BY <1>1, <2>1, PatchType DEF TableInv
  <2> HIDE DEF tr
  <2> QED BY <1>1, <2>2, <2>3 DEF Patched
<1> HIDE DEF tr
<1>3. OthersLive(r, tr) BY <1>2 DEF OthersLive, TableInv, TurnsSettle
<1>4. TakeTurns(r, tr, todo[r], running) BY DEF Settle, tr
<1> QED BY <1>1, <1>2, <1>3, <1>4, TurnsTaken DEF TableInv

-----------------------------------------------------------------------------
LEMMA TableInit == Init => TableInv
<1> SUFFICES ASSUME Init PROVE TableInv
  OBVIOUS
<1>1. transcript \in Seq(Turns) /\ Len(transcript) = 0 BY DEF Init
<1>2. TypeOK BY <1>1 DEF Init, TypeOK
<1>3. TurnsSettle BY <1>1 DEF TurnsSettle
<1>4. RunningServed BY DEF Init, RunningServed
<1> QED BY <1>2, <1>3, <1>4 DEF TableInv

\* The steps of the user.
LEMMA UserStep == TableInv /\ (Send \/ Continue \/ Stop \/ Reset) => TableInv'
<1> SUFFICES ASSUME TableInv, Send \/ Continue \/ Stop \/ Reset PROVE TableInv'
  OBVIOUS
<1> USE DEF TableInv, TypeOK
<1>1. ASSUME NEW r \in Rounds, Begin(r), transcript' \in Seq(Turns),
             \A i \in 1..Len(transcript') : transcript'[i] = "live" =>
                i \in 1..Len(transcript) /\ transcript[i] = "live"
      PROVE  TableInv'
  <2>1. TypeOK' BY <1>1 DEF Begin
  <2>2. \A x \in Rounds : InTurn(x) => InTurn(x)' BY <1>1 DEF Begin, InTurn
  <2>3. TurnsSettle' BY <1>1, <2>2 DEF Begin, TurnsSettle
  <2>4. RunningServed' BY <1>1, <2>2 DEF Begin, RunningServed
  <2> QED BY <2>1, <2>3, <2>4
<1>2. CASE Send
  <2>1. /\ transcript' \in Seq(Turns)
        /\ \A i \in 1..Len(transcript') : transcript'[i] = "live" =>
              i \in 1..Len(transcript) /\ transcript[i] = "live"
    BY <1>2 DEF Send, Turns
  <2>2. CASE UNCHANGED <<running, stopRequested, pc, todo, idx>>
    BY <2>1, <2>2 DEF TurnsSettle, RunningServed, InTurn
  <2> QED BY <1>1, <1>2, <2>1, <2>2 DEF Send
<1>3. CASE Continue BY <1>1, <1>3 DEF Continue
<1>4. CASE Stop BY <1>4 DEF Stop, TurnsSettle, RunningServed, InTurn
<1>5. CASE Reset BY <1>5 DEF Reset, TurnsSettle, RunningServed, InTurn
<1> QED BY <1>2, <1>3, <1>4, <1>5

LEMMA RoundKeeps ==
    ASSUME TableInv, NEW r \in Rounds, RoundStep(r)
    PROVE  TableInv'
<1>1. CASE NobodySeated(r)
  BY <1>1 DEF NobodySeated, TableInv, TypeOK, TurnsSettle, RunningServed, InTurn
<1>2. CASE Seat(r)
  <2>1. PICK n \in 1..MaxSeats : TakeTurns(r, transcript, n, TRUE)
    BY <1>2 DEF Seat
  <2>2. OthersLive(r, transcript)
    BY <1>2 DEF Seat, OthersLive, TableInv, TurnsSettle, InTurn
  <2>3. n \in Nat BY TableAssumption
  <2>4. stopRequested' \in BOOLEAN /\ TRUE \in BOOLEAN /\ transcript \in Seq(Turns)
    BY <1>2 DEF Seat, TableInv, TypeOK
  <2> QED BY <2>1, <2>2, <2>3, <2>4, TurnsTaken DEF TableInv
<1>3. CASE Settle(r) BY <1>3, TurnSettled
<1>4. CASE Ask(r)
  <2>1. "live" \in Turns /\ idx[r] \in Nat /\ transcript \in Seq(Turns)
    BY DEF Turns, TableInv, TypeOK
  <2>2. /\ transcript' \in Seq(Turns)
        /\ \A i \in 1..Len(transcript') : transcript'[i] = "live" =>
              i = idx[r] \/ (i \in 1..Len(transcript) /\ transcript[i] = "live")
    <3>1. CASE transcript' = transcript BY <2>1, <3>1
    <3>2. CASE transcript' = Patch(idx[r], "live")
      <4>1. Patched(Patch(idx[r], "live"), idx[r], "live") BY <2>1, PatchType DEF TableInv
      <4>2. Patched(transcript', idx[r], "live") BY <3>2, <4>1
      <4> QED BY <2>1, <4>2 DEF Patched
    <3> QED BY <1>4, <3>1, <3>2 DEF Ask
  <2>3. /\ \A x \in Rounds : InTurn(x) => InTurn(x)'
        /\ InTurn(r)'
    BY <1>4 DEF Ask, InTurn, TableInv, TypeOK
  <2>4. TypeOK' BY <1>4, <2>2 DEF Ask, TableInv, TypeOK
  <2>5. TurnsSettle' BY <1>4, <2>2, <2>3 DEF Ask, TableInv, TurnsSettle
  <2>6. RunningServed' BY <2>3 DEF RunningServed
  <2> QED BY <2>4, <2>5, <2>6 DEF TableInv
<1>5. CASE NotEnded(r)
  BY <1>5 DEF NotEnded, TableInv, TypeOK, TurnsSettle, RunningServed, InTurn
<1> QED
  BY <1>1, <1>2, <1>3, <1>4, <1>5 DEF RoundStep, CallFails, Stopped, Ended, Cancelled, Deadline

THEOREM TableInvariant == Spec => []TableInv
<1>1. TableInv /\ [Next]_vars => TableInv'
  <2> SUFFICES ASSUME TableInv, [Next]_vars PROVE TableInv'
    OBVIOUS
  <2>1. CASE Send \/ Continue \/ Stop \/ Reset BY <2>1, UserStep
  <2>2. ASSUME NEW r \in Rounds, RoundStep(r) PROVE TableInv' BY <2>2, RoundKeeps
  <2>3. CASE UNCHANGED vars
    BY <2>3 DEF vars, TableInv, TypeOK, TurnsSettle, RunningServed, InTurn
  <2> QED BY <2>1, <2>2, <2>3 DEF Next
<1> QED BY <1>1, TableInit, PTL DEF Spec

\* Every variable of the Round Table keeps its type: a patch past the end of the array
\* leaves a transcript.
THEOREM TableTypeCorrect == Spec => []TypeOK
  BY TableInvariant, PTL DEF TableInv

\* However rounds overlap, every live turn has a round that will settle it.
THEOREM TurnsAreSettled == Spec => []TurnsSettle
  BY TableInvariant, PTL DEF TableInv

\* The discussion reads as running only while a round is in it.
THEOREM RunningIsServed == Spec => []RunningServed
  BY TableInvariant, PTL DEF TableInv
=============================================================================
