---------------------------- MODULE FleetProofs -----------------------------
(***************************************************************************)
(* Theorems about Fleet, for every set of agents, windows and reporters    *)
(* and every bound.                                                        *)
(***************************************************************************)
EXTENDS Fleet, TLAPS

\* A socket is its window and its number.
LEMMA SocketParts ==
  ASSUME NEW s \in Sockets
  PROVE  /\ s[1] \in Windows /\ s[2] \in 1..MaxOpens[s[1]]
         /\ s = <<s[1], s[2]>>
BY BoundsAssumption DEF Sockets

\* A window's next socket is one of the sockets.
LEMMA NextSocket ==
  ASSUME NEW w \in Windows, NEW n \in Nat, n < MaxOpens[w]
  PROVE  <<w, n + 1>> \in Sockets
<1>1. n + 1 \in 1..MaxOpens[w]
  BY BoundsAssumption
<1>2. <<w, n + 1>> \in {w} \X (1..MaxOpens[w])
  BY <1>1
<1> QED  BY <1>2 DEF Sockets

-----------------------------------------------------------------------------
(* TypeOK is inductive by itself.                                          *)

\* What a snapshot's statement answers is a fleet.
LEMMA SelectType == TypeOK => SelectLive \in [Agents -> Entry]
BY DEF TypeOK, SelectLive, Row, Entry

\* Applying an event leaves a fleet.
LEMMA ApplyType ==
  ASSUME NEW entries \in [Agents -> Entry], NEW j \in Job
  PROVE  Apply(entries, j) \in [Agents -> Entry]
BY DEF Apply, Job, Entry

\* An entry keeps its type when one of its fields is set.
LEMMA EntryType ==
  ASSUME NEW e \in Entry, e # Absent
  PROVE  /\ [e EXCEPT !.status = "offline"] \in Entry
         /\ \A name \in Names : [e EXCEPT !.name = name] \in Entry
BY DEF Entry, Statuses

\* Adopting an answer leaves a fleet.
LEMMA AdoptType ==
  ASSUME NEW entries \in [Agents -> Entry], NEW j \in Job
  PROVE  Adopt(entries, j) \in [Agents -> Entry]
<1>1. Absent \in Entry /\ j.agent \in Agents /\ j.name \in Names
  BY DEF Entry, Job
<1>2. CASE j.does = "delete"
  BY <1>1, <1>2 DEF Adopt
<1>3. CASE j.does = "name" /\ entries[j.agent] # Absent
  <2>1. [entries[j.agent] EXCEPT !.name = j.name] \in Entry
    BY <1>1, <1>3, EntryType
  <2> QED  BY <1>1, <1>3, <2>1 DEF Adopt
<1>4. CASE j.does # "delete" /\ ~(j.does = "name" /\ entries[j.agent] # Absent)
  BY <1>4 DEF Adopt
<1> QED  BY <1>2, <1>3, <1>4

\* The initial state is well typed.
LEMMA InitType == Init => TypeOK
BY BoundsAssumption DEF Init, TypeOK, Row, Statuses, Names, Rest, NoRows, Entry

\* The steps of a request and of a report keep the types.
LEMMA ChangeType ==
  ASSUME TypeOK, NEW x \in Writers, NEW a \in Agents
  PROVE  /\ \A status \in Statuses : Report(x, a, status) => TypeOK'
         /\ \A does \in Requests : Request(x, a, does) => TypeOK'
<1>1. rows[a].name \in Names /\ rows[a].rest \in Rest
  BY DEF TypeOK, Row
<1>2. ASSUME NEW status \in Statuses, Report(x, a, status) PROVE TypeOK'
  <2>1. Now(a, "report", status) \in Job
    BY <1>1 DEF Now, Job
  <2>2. rows' \in [Agents -> Row]
    BY <1>2 DEF TypeOK, Report, Row
  <2> QED  BY <1>2, <2>1, <2>2, BoundsAssumption DEF TypeOK, Report, Begin, Goto, server, client, budget
<1>3. ASSUME NEW does \in Requests, Request(x, a, does) PROVE TypeOK'
  <2>1. Now(a, does, "offline") \in Job
    BY <1>1 DEF Now, Job, Statuses
  <2> QED  BY <1>3, <2>1, BoundsAssumption DEF TypeOK, Request, Begin, Goto, db, server, client, budget
<1> QED  BY <1>2, <1>3

\* The steps of a request keep the types.
LEMMA RequestType ==
  ASSUME TypeOK, NEW w \in Windows, RequestStep(w)
  PROVE  TypeOK'
<1>w. w \in Writers
  BY DEF Writers
<1>1. CASE Lookup(w)
  <2> DEFINE row == rows[job[w].agent]
  <2>1. job[w] \in Job /\ row \in Row
    BY <1>1, <1>w DEF TypeOK, Lookup, Job
  <2>2. Update(job[w], row) \in Job
    BY <2>1 DEF Update, Job, Row, Names
  <2> QED  BY <1>1, <1>w, <2>1, <2>2 DEF TypeOK, Lookup, Finish, Goto, db, server, client, budget
<1>2. CASE WriteUpdate(w)
  <2>1. job[w] \in Job
    BY <1>2, <1>w DEF TypeOK, WriteUpdate
  <2> DEFINE row == rows[job[w].agent]
  <2>2. row \in Row
    BY <2>1 DEF TypeOK, Job
  <2>3. [row EXCEPT !.name = job[w].name, !.rest = job[w].rest] \in Row
    BY <2>1, <2>2 DEF Row, Job
  <2>4. rows' \in [Agents -> Row]
    BY <1>2, <2>3 DEF TypeOK, WriteUpdate
  <2> QED  BY <1>2, <1>w, <2>1, <2>4 DEF TypeOK, WriteUpdate, Goto, server, client, budget
<1>3. CASE WriteDelete(w)
  <2>1. job[w] \in Job
    BY <1>3, <1>w DEF TypeOK, WriteDelete
  <2> DEFINE row == rows[job[w].agent]
  <2>2. row \in Row
    BY <2>1 DEF TypeOK, Job
  <2>3. [row EXCEPT !.deleted = TRUE, !.status = "offline"] \in Row
    BY <2>2 DEF Row, Statuses
  <2>4. rows' \in [Agents -> Row]
    BY <1>3, <2>3 DEF TypeOK, WriteDelete
  <2> QED  BY <1>3, <1>w, <2>1, <2>4 DEF TypeOK, WriteDelete, Goto, server, client, budget
<1>4. CASE Answer(w)
  <2>1. job[w] \in Job
    BY <1>4, <1>w DEF TypeOK, Answer
  <2>2. view' \in [Windows -> [Agents -> Entry]]
    BY <1>4, <2>1, AdoptType DEF TypeOK, Answer
  <2> QED  BY <1>4, <1>w, <2>2 DEF TypeOK, Answer, Finish, Goto, db, server, budget
<1> QED  BY <1>1, <1>2, <1>3, <1>4 DEF RequestStep

\* The steps of whoever changes an agent keep the types.
LEMMA WriterType ==
  ASSUME TypeOK, NEW x \in Writers, WriterStep(x)
  PROVE  TypeOK'
<1>1. CASE ReadEvent(x)
  <2>1. job[x] \in Job /\ rows[job[x].agent].name \in Names
    BY <1>1 DEF TypeOK, ReadEvent, Job, Row
  <2>2. [job[x] EXCEPT !.name = rows[job[x].agent].name] \in Job
    BY <2>1 DEF Job
  <2> QED  BY <1>1, <2>1, <2>2 DEF TypeOK, ReadEvent, Goto, db, server, client, budget
<1>2. CASE CopySockets(x)
  BY <1>2 DEF TypeOK, CopySockets, Goto, db, server, client, budget
<1>3. CASE EndBroadcast(x)
  <2>0. pc[x] = "send" /\ (Finish(x) \/ (Goto(x, "answer") /\ job' = job))
    BY <1>3 DEF EndBroadcast, GoOn
  <2>1. pc' \in [Writers -> {"idle", "lookup", "write", "event", "copy", "send", "answer"}]
    BY <2>0 DEF TypeOK, Finish, Goto
  <2>2. /\ job' \in [Writers -> Job \cup {NoJob}]
        /\ \A y \in Writers : pc'[y] # "idle" => job'[y] \in Job
    BY <2>0 DEF TypeOK, Finish, Goto
  <2>3. dead' \in [Writers -> SUBSET Sockets] /\ consoles' \subseteq Sockets
    BY <1>3 DEF TypeOK, EndBroadcast, Discard
  <2> QED  BY <1>3, <2>1, <2>2, <2>3 DEF TypeOK, EndBroadcast, db, client, budget
<1>4. ASSUME NEW s \in Sockets, SendEvent(x, s) PROVE TypeOK'
  <2>1. job[x] \in Job /\ s[1] \in Windows
    BY <1>4, SocketParts DEF TypeOK, SendEvent
  <2>2. Apply(view[s[1]], job[x]) \in [Agents -> Entry]
    BY <2>1, ApplyType DEF TypeOK
  <2>3. view' \in [Windows -> [Agents -> Entry]]
    BY <1>4, <2>1, <2>2 DEF TypeOK, SendEvent
  <2>4. todo' \in [Writers -> SUBSET Sockets]
    BY <1>4 DEF TypeOK, SendEvent
  <2>5. dead' \in [Writers -> SUBSET Sockets]
    <3>1. dead \in [Writers -> SUBSET Sockets]
      BY DEF TypeOK
    <3>2. [dead EXCEPT ![x] = @ \cup {s}] \in [Writers -> SUBSET Sockets]
      BY <3>1
    <3>3. dead' = dead \/ dead' = [dead EXCEPT ![x] = @ \cup {s}]
      BY <1>4 DEF SendEvent
    <3> QED  BY <3>1, <3>2, <3>3
  <2> QED  BY <1>4, <2>3, <2>4, <2>5 DEF TypeOK, SendEvent, db, server, budget
<1>5. CASE x \in Windows /\ RequestStep(x)
  BY <1>5, RequestType
<1> QED  BY <1>1, <1>2, <1>3, <1>4, <1>5 DEF WriterStep

\* A statement that fails moves its writer on, or ends it, and touches nothing else.
LEMMA FailStep ==
  ASSUME TypeOK, NEW x \in Writers, LoseEvent(x) \/ Raise(x)
  PROVE  /\ pc[x] # "idle" /\ (Finish(x) \/ (Goto(x, "answer") /\ job' = job)) /\ Fail
         /\ UNCHANGED <<db, todo, dead, server, link, client>>
BY DEF LoseEvent, Raise, GoOn

\* A failing statement keeps the types.
LEMMA FailType ==
  ASSUME TypeOK, NEW x \in Writers, LoseEvent(x) \/ Raise(x)
  PROVE  TypeOK'
<1>1. pc' \in [Writers -> {"idle", "lookup", "write", "event", "copy", "send", "answer"}]
  BY FailStep DEF TypeOK, Finish, Goto
<1>2. /\ job' \in [Writers -> Job \cup {NoJob}]
      /\ \A y \in Writers : pc'[y] # "idle" => job'[y] \in Job
  BY FailStep DEF TypeOK, Finish, Goto
<1>3. changes' \in 0..MaxChanges /\ faults' \in 0..MaxFaults
  BY FailStep, BoundsAssumption DEF TypeOK, Fail
<1> QED  BY <1>1, <1>2, <1>3, FailStep DEF TypeOK, db, server, client

\* The steps of handle_console_ws keep the types.
LEMMA HandlerType ==
  ASSUME TypeOK, NEW s \in Sockets, HandlerStep(s) \/ SnapshotFails(s)
  PROVE  TypeOK'
<1>1. NoRows \in [Agents -> Entry] /\ s[1] \in Windows
  BY SocketParts DEF NoRows, Entry
<1>2. CASE Accept(s)
  BY <1>1, <1>2 DEF TypeOK, Accept, db, writers, budget
<1>3. CASE ReadSnapshot(s)
  BY <1>3, SelectType DEF TypeOK, ReadSnapshot, db, writers, client, budget
<1>4. CASE SendSnapshot(s)
  BY <1>1, <1>4 DEF TypeOK, SendSnapshot, db, writers, budget
<1>5. CASE PeerGone(s) \/ SnapshotFails(s)
  <2>1. EndHandler(s) /\ UNCHANGED <<changes, faults>>
    BY <1>5 DEF PeerGone, SnapshotFails, budget
  <2>2. handler' \in [Sockets -> {"none", "select", "send", "receive", "over"}]
    BY <2>1 DEF TypeOK, EndHandler
  <2>3. read' \in [Sockets -> [Agents -> Entry]] /\ consoles' \subseteq Sockets
    BY <1>1, <2>1 DEF TypeOK, EndHandler, Discard
  <2> QED  BY <2>1, <2>2, <2>3 DEF TypeOK, EndHandler, db, writers, client, budget
<1> QED  BY <1>2, <1>3, <1>4, <1>5 DEF HandlerStep

\* The steps of a window keep the types.
LEMMA WindowType ==
  ASSUME TypeOK, NEW w \in Windows, WindowStep(w) \/ LoseSocket(w)
  PROVE  TypeOK'
<1>1. CASE Open(w)
  <2>1. link' \in [Sockets -> {"none", "open", "lost"}]
    BY <1>1 DEF TypeOK, Open
  <2>2. opened' \in [Windows -> Nat] /\ win' \in [Windows -> {"closed", "opening", "live"}]
    BY <1>1 DEF TypeOK, Open
  <2> QED  BY <1>1, <2>1, <2>2 DEF TypeOK, Open, db, writers, server, budget
<1>2. CASE LoseSocket(w) \/ ServerClosed(w)
  <2>1. Closed(w) /\ UNCHANGED <<db, writers, server, opened, budget>>
    BY <1>2 DEF LoseSocket, ServerClosed
  <2>2. MarkOffline(view[w]) \in [Agents -> Entry]
    <3>1. view[w] \in [Agents -> Entry] /\ Absent \in Entry
      BY DEF TypeOK, Entry
    <3> QED  BY <3>1, EntryType DEF MarkOffline
  <2> QED  BY <2>1, <2>2 DEF TypeOK, Closed, db, writers, server, budget
<1> QED  BY <1>1, <1>2 DEF WindowStep

\* Every step keeps the types.
LEMMA NextType == TypeOK /\ [Next]_vars => TypeOK'
<1> SUFFICES ASSUME TypeOK, [Next]_vars PROVE TypeOK'
  OBVIOUS
<1>1. CASE UNCHANGED vars
  BY <1>1 DEF TypeOK, vars, db, writers, server, client, budget
<1> QED  BY <1>1, ChangeType, WriterType, FailType, HandlerType, WindowType DEF Next, Writers

\* Every state is well typed.
THEOREM FleetTypeCorrect == Spec => []TypeOK
BY InitType, NextType, PTL DEF Spec

-----------------------------------------------------------------------------
(* Secondary roles.  No row has lost them, and no job under way carries a  *)
(* set of roles that would: what it writes comes from a row it has read.   *)

RolesInv ==
    /\ SecondarySurvives
    /\ \A x \in Writers : pc[x] # "idle" => job[x].rest = "kept"

\* A job that keeps the roles, written to a row, leaves the others alone.
LEMMA RolesFrame ==
  ASSUME TypeOK, RolesInv, NEW x \in Writers, rows' = rows,
         NEW await, pc' = [pc EXCEPT ![x] = await],
         \A y \in Writers \ {x} : job'[y] = job[y],
         await = "idle" \/ job'[x].rest = "kept"
  PROVE  RolesInv'
<1>1. \A y \in Writers \ {x} : pc'[y] = pc[y]
  BY DEF TypeOK
<1>2. pc'[x] = await
  BY DEF TypeOK
<1> QED  BY <1>1, <1>2 DEF RolesInv, SecondarySurvives

\* A report and a request take the roles from the row.
LEMMA RolesChange ==
  ASSUME TypeOK, RolesInv, NEW x \in Writers, NEW a \in Agents
  PROVE  /\ \A status \in Statuses : Report(x, a, status) => RolesInv'
         /\ \A does \in Requests : Request(x, a, does) => RolesInv'
<1>0. rows[a].rest = "kept"
  BY DEF RolesInv, SecondarySurvives
<1>1. ASSUME NEW status \in Statuses, Report(x, a, status) PROVE RolesInv'
  <2>1. \A b \in Agents : rows'[b].rest = "kept"
    <3>1. \A b \in Agents : rows'[b] = IF b = a THEN [rows[a] EXCEPT !.status = status] ELSE rows[b]
      BY <1>1 DEF TypeOK, Report
    <3>2. [rows[a] EXCEPT !.status = status].rest = rows[a].rest
      BY DEF TypeOK, Row
    <3> QED  BY <1>0, <3>1, <3>2 DEF RolesInv, SecondarySurvives
  <2>2. job'[x].rest = "kept" /\ \A y \in Writers \ {x} : pc'[y] = pc[y] /\ job'[y] = job[y]
    BY <1>0, <1>1 DEF TypeOK, Report, Begin, Goto, Now
  <2> QED  BY <2>1, <2>2 DEF RolesInv, SecondarySurvives
<1>2. ASSUME NEW does \in Requests, Request(x, a, does) PROVE RolesInv'
  <2>1. job'[x].rest = "kept" /\ \A y \in Writers \ {x} : job'[y] = job[y]
    BY <1>0, <1>2 DEF TypeOK, Request, Now
  <2> QED  BY <1>2, <2>1, RolesFrame DEF Request, Goto, db
<1> QED  BY <1>1, <1>2

\* A request reads the roles, and writes those it has read.
LEMMA RolesRequest ==
  ASSUME TypeOK, RolesInv, NEW w \in Windows, RequestStep(w)
  PROVE  RolesInv'
<1>0. w \in Writers /\ (pc[w] # "idle" => job[w].rest = "kept" /\ job[w] \in Job)
  BY DEF Writers, RolesInv, TypeOK
<1>1. CASE Lookup(w)
  <2> DEFINE row == rows[job[w].agent]
  <2>1. job[w] \in Job /\ row \in Row /\ row.rest = "kept" /\ job[w].rest = "kept"
    BY <1>0, <1>1 DEF TypeOK, Lookup, Job, RolesInv, SecondarySurvives
  <2>2. Update(job[w], row).rest = "kept"
    BY <2>1 DEF Update, Job, Row
  <2>3. CASE row.deleted
    <3>1. pc' = [pc EXCEPT ![w] = "idle"] /\ job' = [job EXCEPT ![w] = NoJob] /\ rows' = rows
      BY <1>1, <2>3 DEF Lookup, Finish, Goto, db
    <3>2. \A y \in Writers \ {w} : job'[y] = job[y]
      BY <3>1 DEF TypeOK
    <3> QED  BY <1>0, <3>1, <3>2, RolesFrame
  <2>4. CASE ~row.deleted
    <3>1. /\ pc' = [pc EXCEPT ![w] = "write"] /\ rows' = rows
          /\ job' = [job EXCEPT ![w] = IF job[w].does = "delete" THEN job[w] ELSE Update(job[w], row)]
      BY <1>1, <2>4 DEF Lookup, Goto, db
    <3>2. job'[w].rest = "kept" /\ \A y \in Writers \ {w} : job'[y] = job[y]
      BY <1>0, <2>1, <2>2, <3>1 DEF TypeOK
    <3> QED  BY <1>0, <3>1, <3>2, RolesFrame
  <2> QED  BY <2>3, <2>4
<1>2. CASE WriteUpdate(w) \/ WriteDelete(w)
  <2> DEFINE a == job[w].agent
             row == rows[a]
             new == IF WriteUpdate(w) THEN [row EXCEPT !.name = job[w].name, !.rest = job[w].rest]
                    ELSE [row EXCEPT !.deleted = TRUE, !.status = "offline"]
  <2>1. a \in Agents /\ row \in Row /\ row.rest = "kept" /\ job[w].rest = "kept"
    BY <1>0, <1>2 DEF TypeOK, WriteUpdate, WriteDelete, Job, RolesInv, SecondarySurvives
  <2>2. [row EXCEPT !.name = job[w].name, !.rest = job[w].rest].rest = "kept"
    BY <2>1 DEF Row
  <2>3. [row EXCEPT !.deleted = TRUE, !.status = "offline"].rest = "kept"
    BY <2>1 DEF Row
  <2>4. new.rest = "kept"
    BY <2>2, <2>3
  <2>5. rows' = [rows EXCEPT ![a] = new]
    BY <1>2 DEF WriteUpdate, WriteDelete
  <2>6. \A b \in Agents : rows'[b].rest = "kept"
    <3> HIDE DEF new, a
    <3> QED  BY <2>1, <2>4, <2>5 DEF TypeOK, RolesInv, SecondarySurvives
  <2>7. job' = job /\ \A y \in Writers : pc'[y] # "idle" => pc[y] # "idle"
    BY <1>0, <1>2 DEF TypeOK, WriteUpdate, WriteDelete, Goto
  <2> QED  BY <2>6, <2>7 DEF RolesInv, SecondarySurvives
<1>3. CASE Answer(w)
  <2>1. pc' = [pc EXCEPT ![w] = "idle"] /\ job' = [job EXCEPT ![w] = NoJob] /\ rows' = rows
    BY <1>3 DEF Answer, Finish, Goto, db
  <2>2. \A y \in Writers \ {w} : job'[y] = job[y]
    BY <2>1 DEF TypeOK
  <2> QED  BY <1>0, <2>1, <2>2, RolesFrame
<1> QED  BY <1>1, <1>2, <1>3 DEF RequestStep

\* A broadcast carries the job on.
LEMMA RolesWriter ==
  ASSUME TypeOK, RolesInv, NEW x \in Writers, WriterStep(x)
  PROVE  RolesInv'
<1>1. CASE ReadEvent(x)
  <2>1. pc' = [pc EXCEPT ![x] = "copy"] /\ rows' = rows
    BY <1>1 DEF ReadEvent, Goto, db
  <2>2. job[x] \in Job /\ job[x].rest = "kept"
    BY <1>1 DEF TypeOK, ReadEvent, RolesInv
  <2>3. [job[x] EXCEPT !.name = rows[job[x].agent].name].rest = "kept"
    BY <2>2 DEF Job
  <2>4. job'[x].rest = "kept" /\ \A y \in Writers \ {x} : job'[y] = job[y]
    BY <1>1, <2>3 DEF TypeOK, ReadEvent
  <2> QED  BY <2>1, <2>4, RolesFrame
<1>2. CASE CopySockets(x)
  BY <1>2, RolesFrame DEF CopySockets, Goto, db, RolesInv
<1>3. CASE EndBroadcast(x)
  <2>1. pc[x] = "send" /\ rows' = rows /\ (Finish(x) \/ (Goto(x, "answer") /\ job' = job))
    BY <1>3 DEF EndBroadcast, GoOn, db
  <2>2. \A y \in Writers \ {x} : job'[y] = job[y]
    BY <2>1 DEF TypeOK, Finish
  <2>3. CASE Finish(x)
    BY <2>1, <2>2, <2>3, RolesFrame DEF Finish, Goto
  <2>4. CASE Goto(x, "answer") /\ job' = job
    BY <2>1, <2>2, <2>4, RolesFrame DEF Goto, RolesInv
  <2> QED  BY <2>1, <2>3, <2>4
<1>4. ASSUME NEW s \in Sockets, SendEvent(x, s) PROVE RolesInv'
  BY <1>4 DEF SendEvent, db, RolesInv, SecondarySurvives
<1>5. CASE x \in Windows /\ RequestStep(x)
  BY <1>5, RolesRequest
<1> QED  BY <1>1, <1>2, <1>3, <1>4, <1>5 DEF WriterStep

\* A failing statement writes no row.
LEMMA RolesFail ==
  ASSUME TypeOK, RolesInv, NEW x \in Writers, LoseEvent(x) \/ Raise(x)
  PROVE  RolesInv'
<1>1. pc[x] # "idle" /\ rows' = rows /\ (Finish(x) \/ (Goto(x, "answer") /\ job' = job))
  BY FailStep DEF db
<1>2. CASE Finish(x)
  <2>1. \A y \in Writers \ {x} : job'[y] = job[y]
    BY <1>2 DEF TypeOK, Finish
  <2> QED  BY <1>1, <1>2, <2>1, RolesFrame DEF Finish, Goto
<1>3. CASE Goto(x, "answer") /\ job' = job
  BY <1>1, <1>3, RolesFrame DEF Goto, RolesInv
<1> QED  BY <1>1, <1>2, <1>3

\* Every step keeps the roles.
LEMMA RolesNext == TypeOK /\ RolesInv /\ [Next]_vars => RolesInv'
<1> SUFFICES ASSUME TypeOK, RolesInv, [Next]_vars PROVE RolesInv'
  OBVIOUS
<1>1. ASSUME db' = db, writers' = writers PROVE RolesInv'
  BY <1>1 DEF RolesInv, SecondarySurvives, db, writers
<1>2. ASSUME NEW s \in Sockets, HandlerStep(s) \/ SnapshotFails(s) PROVE RolesInv'
  BY <1>1, <1>2 DEF HandlerStep, Accept, ReadSnapshot, SendSnapshot, PeerGone, SnapshotFails,
     EndHandler
<1>3. ASSUME NEW w \in Windows, WindowStep(w) \/ LoseSocket(w) PROVE RolesInv'
  BY <1>1, <1>3 DEF WindowStep, Open, ServerClosed, LoseSocket
<1>4. CASE UNCHANGED vars
  BY <1>1, <1>4 DEF vars
<1> QED  BY <1>2, <1>3, <1>4, RolesChange, RolesWriter, RolesFail DEF Next, Writers

\* No update loses a role after the first, whatever the requests and their order.
THEOREM SecondaryRolesSurvive == Spec => []SecondarySurvives
<1>1. Init => RolesInv
  BY DEF Init, RolesInv, SecondarySurvives
<1>2. RolesInv => SecondarySurvives
  BY DEF RolesInv
<1> QED  BY <1>1, <1>2, RolesNext, FleetTypeCorrect, PTL DEF Spec

-----------------------------------------------------------------------------
(* The connection table of the consoles.                                   *)

ServeInv ==
    /\ ConsolesServed
    /\ \A s \in Sockets :
          /\ link[s] # "none" => s[2] <= opened[s[1]]
          /\ handler[s] # "none" => link[s] # "none"
    /\ \A x \in Writers :
          /\ \A s \in todo[x] : link[s] # "none"
          /\ \A s \in dead[x] : link[s] = "lost"

\* Steps of the writers: the only sockets dropped are those that failed.
LEMMA ServeWriter ==
  ASSUME TypeOK, ServeInv, NEW x \in Writers, WriterStep(x)
  PROVE  ServeInv'
<1> USE DEF ServeInv, ConsolesServed
<1>1. CASE ReadEvent(x)
  BY <1>1 DEF ReadEvent, server, client
<1>2. CASE CopySockets(x)
  <2>1. \A y \in Writers : todo'[y] = IF y = x THEN consoles ELSE todo[y]
    BY <1>2 DEF TypeOK, CopySockets
  <2>2. \A s \in consoles : s \in Sockets /\ link[s] # "none"
    BY DEF TypeOK
  <2> QED  BY <1>2, <2>1, <2>2 DEF CopySockets, server, client
<1>3. CASE EndBroadcast(x)
  <2>1. consoles' = consoles \ dead[x] /\ handler' = handler /\ link' = link
        /\ opened' = opened /\ todo' = todo
    BY <1>3 DEF EndBroadcast, Discard, client
  <2>2. \A y \in Writers : dead'[y] = IF y = x THEN {} ELSE dead[y]
    BY <1>3 DEF TypeOK, EndBroadcast
  <2> QED  BY <2>1, <2>2
<1>4. ASSUME NEW s \in Sockets, SendEvent(x, s) PROVE ServeInv'
  <2>1. /\ consoles' = consoles /\ handler' = handler /\ link' = link /\ opened' = opened
        /\ s \in todo[x]
    BY <1>4 DEF SendEvent, server
  <2>2. \A y \in Writers : todo'[y] \subseteq todo[y]
    BY <1>4 DEF TypeOK, SendEvent
  <2>3. \A y \in Writers : \A t \in dead'[y] : t \in dead[y] \/ (t = s /\ link[s] # "open")
    <3>1. CASE dead' = dead
      BY <3>1
    <3>2. CASE dead' = [dead EXCEPT ![x] = @ \cup {s}] /\ link[s] # "open"
      BY <3>2 DEF TypeOK
    <3>3. dead' = dead \/ (dead' = [dead EXCEPT ![x] = @ \cup {s}] /\ link[s] # "open")
      BY <1>4 DEF SendEvent
    <3> QED  BY <3>1, <3>2, <3>3
  <2>4. link[s] = "open" \/ link[s] = "lost"
    BY <2>1 DEF TypeOK
  <2> QED  BY <2>1, <2>2, <2>3, <2>4
<1>5. CASE x \in Windows /\ RequestStep(x)
  BY <1>5 DEF RequestStep, Lookup, WriteUpdate, WriteDelete, Answer, server, client
<1> QED  BY <1>1, <1>2, <1>3, <1>4, <1>5 DEF WriterStep

\* Steps of a handler, which takes out its own socket and no other.
LEMMA ServeHandler ==
  ASSUME TypeOK, ServeInv, NEW s \in Sockets, HandlerStep(s) \/ SnapshotFails(s)
  PROVE  ServeInv'
<1> USE DEF ServeInv, ConsolesServed
<1>0. \E state \in {"select", "send", "receive", "over"} :
        /\ handler' = [handler EXCEPT ![s] = state]
        /\ IF state = "over" THEN consoles' = consoles \ {s}
           ELSE /\ consoles' \in {consoles, consoles \cup {s}}
                /\ link[s] = "open" => s \in consoles'
        /\ link' = link /\ opened' = opened /\ todo' = todo /\ dead' = dead
        /\ link[s] # "none"
  <2>1. CASE Accept(s)
    BY <2>1 DEF Accept, writers
  <2>2. CASE ReadSnapshot(s)
    BY <2>2 DEF ReadSnapshot, writers, client
  <2>3. CASE SendSnapshot(s)
    BY <2>3 DEF SendSnapshot, writers
  <2>4. CASE PeerGone(s) \/ SnapshotFails(s)
    BY <2>4 DEF PeerGone, SnapshotFails, EndHandler, Discard, writers, client
  <2> QED  BY <2>1, <2>2, <2>3, <2>4 DEF HandlerStep
<1>1. PICK state \in {"select", "send", "receive", "over"} :
        /\ handler' = [handler EXCEPT ![s] = state]
        /\ IF state = "over" THEN consoles' = consoles \ {s}
           ELSE /\ consoles' \in {consoles, consoles \cup {s}}
                /\ link[s] = "open" => s \in consoles'
        /\ link' = link /\ opened' = opened /\ todo' = todo /\ dead' = dead
        /\ link[s] # "none"
  BY <1>0
<1>2. \A t \in Sockets : handler'[t] = IF t = s THEN state ELSE handler[t]
  BY <1>1 DEF TypeOK
<1>3. consoles \subseteq Sockets
  BY DEF TypeOK
<1>4. \A t \in consoles' : t \in Sockets /\ handler'[t] \in {"select", "send", "receive"}
  BY <1>1, <1>2, <1>3
<1>5. \A t \in Sockets :
        handler'[t] \in {"select", "send", "receive"} /\ link'[t] = "open" => t \in consoles'
  BY <1>1, <1>2
<1> QED  BY <1>1, <1>2, <1>4, <1>5

\* A window opens a socket nobody knows yet, and loses only the one it has.
LEMMA ServeWindow ==
  ASSUME TypeOK, ServeInv, NEW w \in Windows, WindowStep(w) \/ LoseSocket(w)
  PROVE  ServeInv'
<1> USE DEF ServeInv, ConsolesServed
<1>1. CASE Open(w)
  <2> DEFINE new == <<w, opened[w] + 1>>
  <2>1. opened[w] \in Nat /\ new \in Sockets
    BY <1>1, NextSocket DEF TypeOK, Open
  <2>2. new[1] = w /\ new[2] = opened[w] + 1
    OBVIOUS
  <2>3. link[new] = "none" /\ handler[new] = "none"
    BY <2>1, <2>2
  <2>4. \A s \in Sockets : link'[s] = IF s = new THEN "open" ELSE link[s]
    BY <1>1 DEF TypeOK, Open
  <2>5. \A v \in Windows : opened'[v] = IF v = w THEN opened[w] + 1 ELSE opened[v]
    BY <1>1 DEF TypeOK, Open
  <2>6. consoles' = consoles /\ handler' = handler /\ todo' = todo /\ dead' = dead
    BY <1>1 DEF Open, server, writers
  <2>7. \A s \in Sockets : link'[s] # "none" => s[2] <= opened'[s[1]]
    <3> SUFFICES ASSUME NEW s \in Sockets, link'[s] # "none" PROVE s[2] <= opened'[s[1]]
      OBVIOUS
    <3>1. s[1] \in Windows /\ s[2] \in Nat /\ opened[s[1]] \in Nat
      BY SocketParts, BoundsAssumption DEF TypeOK
    <3>2. CASE s = new
      BY <2>1, <2>2, <2>5, <3>2
    <3>3. CASE s # new
      BY <2>1, <2>4, <2>5, <3>1, <3>3
    <3> QED  BY <3>2, <3>3
  <2>8. \A s \in Sockets : link[s] # "none" => s # new /\ link'[s] = link[s]
    BY <2>3, <2>4
  <2>9. \A x \in Writers : todo[x] \subseteq Sockets /\ dead[x] \subseteq Sockets
    BY DEF TypeOK
  <2>10. \A s \in Sockets :
           handler[s] \in {"select", "send", "receive"} /\ link'[s] = "open" => s \in consoles
    BY <2>3, <2>4
  <2>11. \A x \in Writers : (\A s \in todo'[x] : link'[s] # "none") /\ (\A s \in dead'[x] : link'[s] = "lost")
    BY <2>6, <2>8, <2>9
  <2>12. \A s \in Sockets : handler'[s] # "none" => link'[s] # "none"
    BY <2>6, <2>8
  <2> HIDE DEF new
  <2> QED  BY <2>6, <2>7, <2>10, <2>11, <2>12
<1>2. CASE LoseSocket(w) \/ ServerClosed(w)
  <2>1. /\ link' = [link EXCEPT ![Socket(w)] = "lost"]
        /\ consoles' = consoles /\ handler' = handler /\ opened' = opened
        /\ todo' = todo /\ dead' = dead
    BY <1>2 DEF LoseSocket, ServerClosed, Closed, server, writers
  <2>2. CASE Socket(w) \notin Sockets
    <3>1. link' = link
      BY <2>1, <2>2 DEF TypeOK
    <3> QED  BY <2>1, <3>1
  <2>3. CASE Socket(w) \in Sockets
    <3>1. \A s \in Sockets : link'[s] = IF s = Socket(w) THEN "lost" ELSE link[s]
      BY <2>1 DEF TypeOK
    <3>2. opened[w] \in Nat /\ Socket(w)[1] = w /\ Socket(w)[2] = opened[w]
      BY DEF TypeOK, Socket
    <3>3. \A s \in Sockets : link'[s] # "none" => s[2] <= opened[s[1]]
      BY <3>1, <3>2
    <3>4. \A x \in Writers : todo[x] \subseteq Sockets /\ dead[x] \subseteq Sockets
      BY DEF TypeOK
    <3>5. \A s \in Sockets : (link[s] # "none" => link'[s] # "none") /\ (link[s] = "lost" => link'[s] = "lost")
                              /\ (link'[s] = "open" => link[s] = "open")
      BY <3>1
    <3> QED  BY <2>1, <3>3, <3>4, <3>5
  <2> QED  BY <2>2, <2>3
<1> QED  BY <1>1, <1>2 DEF WindowStep

\* Every step keeps the table and the handlers together.
LEMMA ServeNext == TypeOK /\ ServeInv /\ [Next]_vars => ServeInv'
<1> SUFFICES ASSUME TypeOK, ServeInv, [Next]_vars PROVE ServeInv'
  OBVIOUS
<1>1. ASSUME UNCHANGED <<todo, dead, consoles, handler, link, opened>> PROVE ServeInv'
  BY <1>1 DEF ServeInv, ConsolesServed
<1>2. ASSUME NEW x \in Writers, NEW a \in Agents, NEW status \in Statuses, Report(x, a, status)
      PROVE  ServeInv'
  BY <1>1, <1>2 DEF Report, server, client
<1>3. ASSUME NEW w \in Windows, NEW a \in Agents, NEW does \in Requests,
             Request(w, a, does)
      PROVE  ServeInv'
  BY <1>1, <1>3 DEF Request, server, client
<1>4. ASSUME NEW x \in Writers, LoseEvent(x) \/ Raise(x) PROVE ServeInv'
  BY <1>1, <1>4, FailStep DEF server, client
<1>5. CASE UNCHANGED vars
  BY <1>1, <1>5 DEF vars, writers, server, client
<1> QED  BY <1>2, <1>3, <1>4, <1>5, ServeWriter, ServeHandler, ServeWindow DEF Next, Writers

\* Exactly the sockets that are served stay in the connection table.
THEOREM ConsolesStayServed == Spec => []ConsolesServed
<1>1. Init => ServeInv
  BY DEF Init, ServeInv, ConsolesServed
<1>2. ServeInv => ConsolesServed
  BY DEF ServeInv
<1> QED  BY <1>1, <1>2, ServeNext, FleetTypeCorrect, PTL DEF Spec
=============================================================================
