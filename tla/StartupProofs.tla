--------------------------- MODULE StartupProofs ----------------------------
(***************************************************************************)
(* Theorems about Startup, for every number and length of migration files, *)
(* every set of them that can be repeated, all ancestors and every bound.  *)
(***************************************************************************)
EXTENDS Startup, TLAPS

(* TypeOK is inductive by itself. *)

\* The initial state is well typed.
LEMMA InitType == Init => TypeOK
BY FilesAssumption, LaunchAssumption DEF Init, TypeOK, Statements, Stages

\* The end of a sidecar's process leaves the types.
LEMMA OverType ==
  ASSUME TypeOK, NEW p \in Sidecars, NEW stage \in {"down", "failed"}, Over(p, stage)
  PROVE  /\ watch' \in [Sidecars -> {"off", "capture", "watching"}]
         /\ watched' \in [Sidecars -> SUBSET Ancestors]
         /\ at' \in [Sidecars -> Stages]
         /\ at'[Orchestrator] \in {"run", "record"} => at[Orchestrator] \in {"run", "record"}
BY DEF TypeOK, Over, Stages, Sidecars, Orchestrator, Agent

\* The ancestors a walk finds are ancestors.
LEMMA FoundType ==
  ASSUME NEW p \in Sidecars
  PROVE  Found(p) \in SUBSET Ancestors
BY ChainAssumption DEF Found, Sidecars

\* The main thread of the orchestrator goes to another stage.
LEMMA GotoType ==
  ASSUME TypeOK, NEW stage \in Stages, Goto(stage)
  PROVE  at' \in [Sidecars -> Stages] /\ at'[Orchestrator] = stage
BY DEF TypeOK, Goto, Sidecars

\* Every step keeps the types.
LEMMA NextType == TypeOK /\ [Next]_vars => TypeOK'
<1> SUFFICES ASSUME TypeOK, [Next]_vars PROVE TypeOK'
  OBVIOUS
<1> USE FilesAssumption, LaunchAssumption
<1>1. CASE Launch
  BY <1>1 DEF TypeOK, Launch, Stages, Statements, Sidecars, Orchestrator, Agent, migration, disk
<1>2. ASSUME NEW x \in Ancestors, AncestorEnds(x) \/ PidReused(x) PROVE TypeOK'
  BY <1>2 DEF TypeOK, AncestorEnds, PidReused, migration, disk, bounds
<1>3. ASSUME NEW p \in Sidecars, Killed(p) \/ Orphaned(p) PROVE TypeOK'
  <2>1. Over(p, "down") /\ UNCHANGED <<anc, dialect, migration, disk, bounds>>
    BY <1>3 DEF Killed, Orphaned
  <2> QED  BY <2>1, OverType DEF TypeOK, migration, disk, bounds
<1>4. ASSUME NEW p \in Sidecars, Capture(p) PROVE TypeOK'
  BY <1>4, FoundType DEF TypeOK, Capture, migration, disk, bounds
<1>5. CASE AgentRuns
  BY <1>5 DEF TypeOK, AgentRuns, Stages, Sidecars, Orchestrator, Agent, process, migration, disk, bounds
<1>6. CASE Connect
  BY <1>6 DEF TypeOK, Connect, Goto, Stages, Sidecars, process, disk, bounds, Orchestrator
<1>7. CASE Lookup
  <2>1. CASE file \in recorded
    BY <1>7, <2>1, GotoType DEF TypeOK, Lookup, Stages, process, disk, bounds
  <2>2. CASE file \notin recorded
    BY <1>7, <2>2, GotoType DEF TypeOK, Lookup, Stages, process, disk, bounds
  <2> QED  BY <2>1, <2>2
<1>8. CASE Serve
  BY <1>8 DEF TypeOK, Serve, Goto, Stages, Sidecars, process, migration, disk, bounds, Orchestrator
<1>9. CASE RunStatement
  <2>1. file \in 1..Files /\ applied' \in SUBSET Statements
    BY <1>9 DEF TypeOK, RunStatement, Statements
  <2>2. CASE pos = Length[file]
    BY <1>9, <2>1, <2>2, GotoType DEF TypeOK, RunStatement, Stages, process, bounds
  <2>3. CASE pos # Length[file]
    BY <1>9, <2>1, <2>3 DEF TypeOK, RunStatement, process, bounds
  <2> QED  BY <2>2, <2>3
<1>10. CASE RunScript
  BY <1>10 DEF TypeOK, RunScript, Script, Goto, Stages, Statements, Sidecars, process, migration, bounds,
               Orchestrator
<1>11. CASE Record
  BY <1>11 DEF TypeOK, Record, Goto, Stages, Sidecars, process, bounds, Orchestrator
<1>12. CASE RunRaises
  BY <1>12, OverType DEF TypeOK, RunRaises, Sidecars, migration, disk, bounds
<1>13. CASE Fault
  BY <1>13, OverType DEF TypeOK, Fault, Sidecars, migration, disk
<1>14. CASE UNCHANGED vars
  BY <1>14 DEF TypeOK, vars, process, migration, disk, bounds
<1> QED
  BY <1>1, <1>2, <1>3, <1>4, <1>5, <1>6, <1>7, <1>8, <1>9, <1>10, <1>11, <1>12, <1>13, <1>14
     DEF Next, Migrating

\* Every variable keeps its type, and a file is run or recorded only while there is
\* one (run_migrations loops over the files that exist).
THEOREM StartupTypeCorrect == Spec => []TypeOK
BY InitType, NextType, PTL DEF Spec

-----------------------------------------------------------------------------
(* What run_migrations knows at each of its statements.  SchemaBeforeService *)
(* alone is not inductive: a file may be recorded only because every         *)
(* statement of it has run and every file before it is recorded.             *)

Resumed ==
    at[Orchestrator] \in {"lookup", "run", "record"} => 1..(file - 1) \subseteq recorded

HalfRun ==
    /\ at[Orchestrator] = "run" /\ dialect = "sqlite" =>
         /\ pos \in 1..Length[file]
         /\ \A n \in 1..(pos - 1) : <<file, n>> \in applied
    /\ at[Orchestrator] = "run" /\ dialect = "postgres" => pos = 1
    /\ at[Orchestrator] = "record" => Script(file) \subseteq applied /\ file \notin recorded

SchemaInv == TypeOK /\ Resumed /\ HalfRun /\ SchemaBeforeService /\ RecordedNotRerun

\* A step that leaves the disk, the place in the files and the orchestrator's stage
\* alone, or ends or restarts the orchestrator, leaves the invariant.
LEMMA OffSchema ==
  ASSUME SchemaInv, TypeOK', UNCHANGED <<dialect, migration, disk>>,
         at'[Orchestrator] \in {at[Orchestrator], "down", "failed", "connect"}
  PROVE  SchemaInv'
BY DEF SchemaInv, TypeOK, Resumed, HalfRun, SchemaBeforeService, RecordedNotRerun, migration, disk, Script

\* Every step keeps the invariant.
LEMMA SchemaStep == SchemaInv /\ [Next]_vars => SchemaInv'
<1> SUFFICES ASSUME SchemaInv, [Next]_vars PROVE SchemaInv'
  OBVIOUS
<1>t. TypeOK /\ TypeOK'
  BY NextType DEF SchemaInv
<1> USE FilesAssumption
<1>1. CASE Launch
  BY <1>1, <1>t, OffSchema DEF Launch, Sidecars
<1>2. ASSUME NEW x \in Ancestors, AncestorEnds(x) \/ PidReused(x) PROVE SchemaInv'
  BY <1>2, <1>t, OffSchema DEF AncestorEnds, PidReused
<1>3. ASSUME NEW p \in Sidecars, Killed(p) \/ Orphaned(p) PROVE SchemaInv'
  <2>1. Over(p, "down") /\ UNCHANGED <<anc, dialect, migration, disk, bounds>>
    BY <1>3 DEF Killed, Orphaned
  <2>2. at'[Orchestrator] \in {at[Orchestrator], "down"}
    BY <2>1, <1>t DEF Over, TypeOK
  <2> QED  BY <2>1, <2>2, <1>t, OffSchema
<1>4. ASSUME NEW p \in Sidecars, Capture(p) PROVE SchemaInv'
  BY <1>4, <1>t, OffSchema DEF Capture
<1>5. CASE AgentRuns
  <2>1. at'[Orchestrator] = at[Orchestrator]
    BY <1>5, <1>t DEF AgentRuns, TypeOK, Sidecars, Orchestrator, Agent
  <2> QED  BY <1>5, <2>1, <1>t, OffSchema DEF AgentRuns
<1>6. CASE Connect
  <2>1. at'[Orchestrator] = "lookup" /\ file' = 1 /\ UNCHANGED disk
    BY <1>6, <1>t DEF Connect, Goto, TypeOK, Sidecars
  <2> QED  BY <2>1, <1>t DEF SchemaInv, Resumed, HalfRun, SchemaBeforeService, RecordedNotRerun, disk, Script
<1>7. CASE Lookup
  <2>1. /\ at[Orchestrator] = "lookup" /\ UNCHANGED <<dialect, disk>>
        /\ \/ at'[Orchestrator] = "lookup" /\ file \in recorded /\ file' = file + 1
           \/ at'[Orchestrator] = "run" /\ file \in 1..Files \ recorded /\ pos' = 1 /\ file' = file
    BY <1>7, <1>t DEF Lookup, Goto, TypeOK, Sidecars
  <2>2. CASE at'[Orchestrator] = "lookup"
    BY <2>1, <2>2, <1>t DEF SchemaInv, TypeOK, Resumed, HalfRun, SchemaBeforeService, RecordedNotRerun,
                            disk, Script
  <2>3. CASE at'[Orchestrator] = "run"
    BY <2>1, <2>3, <1>t DEF SchemaInv, TypeOK, Resumed, HalfRun, SchemaBeforeService, RecordedNotRerun,
                            disk, Script
  <2> QED  BY <2>1, <2>2, <2>3
<1>8. CASE Serve
  <2>1. /\ at[Orchestrator] = "lookup" /\ at'[Orchestrator] = "serving" /\ file = Files + 1
        /\ UNCHANGED <<dialect, migration, disk>>
    BY <1>8, <1>t DEF Serve, Goto, TypeOK, Sidecars
  <2>2. recorded = 1..Files
    <3>1. file - 1 = Files /\ recorded \subseteq 1..Files
      BY <2>1, <1>t DEF TypeOK
    <3>2. 1..(file - 1) \subseteq recorded
      BY <2>1 DEF SchemaInv, Resumed
    <3> QED  BY <3>1, <3>2
  <2> QED  BY <2>1, <2>2, <1>t DEF SchemaInv, Resumed, HalfRun, SchemaBeforeService, RecordedNotRerun,
                                   migration, disk, Script
<1>9. CASE RunStatement
  <2>1. /\ at[Orchestrator] = "run" /\ dialect = "sqlite" /\ file' = file /\ file \in 1..Files
        /\ applied' = applied \cup {<<file, pos>>} /\ recorded' = recorded /\ dialect' = dialect
        /\ \/ at'[Orchestrator] = "record" /\ pos = Length[file] /\ pos' = pos
           \/ at'[Orchestrator] = "run" /\ pos # Length[file] /\ pos' = pos + 1
    BY <1>9, <1>t DEF RunStatement, Goto, TypeOK, Sidecars
  <2>2. pos \in 1..Length[file] /\ Length[file] \in Nat /\ \A n \in 1..(pos - 1) : <<file, n>> \in applied
    BY <2>1 DEF SchemaInv, HalfRun
  <2>3. \A n \in 1..pos : <<file, n>> \in applied'
    BY <2>1, <2>2
  <2>4. SchemaBeforeService' /\ Resumed' /\ RecordedNotRerun'
    BY <2>1 DEF SchemaInv, Resumed, SchemaBeforeService, RecordedNotRerun, Script
  <2>5. HalfRun'
    BY <2>1, <2>2, <2>3 DEF SchemaInv, HalfRun, Script, RecordedNotRerun
  <2> QED  BY <2>4, <2>5, <1>t DEF SchemaInv
<1>10. CASE RunScript
  <2>1. /\ at[Orchestrator] = "run" /\ at'[Orchestrator] = "record" /\ file' = file
        /\ applied' = applied \cup Script(file) /\ recorded' = recorded
    BY <1>10, <1>t DEF RunScript, Goto, TypeOK, Sidecars, migration
  <2> QED  BY <2>1, <1>t DEF SchemaInv, Resumed, HalfRun, SchemaBeforeService, RecordedNotRerun, Script
<1>11. CASE Record
  <2>1. /\ at[Orchestrator] = "record" /\ at'[Orchestrator] = "lookup" /\ file' = file + 1
        /\ applied' = applied /\ recorded' = recorded \cup {file} /\ file \in 1..Files
    BY <1>11, <1>t DEF Record, Goto, TypeOK, Sidecars
  <2>2. 1..(file - 1) \subseteq recorded /\ Script(file) \subseteq applied
    BY <2>1 DEF SchemaInv, Resumed, HalfRun
  <2>3. 1..file \subseteq recorded'
    BY <2>1, <2>2
  <2>4. SchemaBeforeService'
    BY <2>1, <2>2, <2>3 DEF SchemaInv, SchemaBeforeService, Script
  <2>5. Resumed' /\ HalfRun' /\ RecordedNotRerun'
    BY <2>1, <2>3 DEF Resumed, HalfRun, RecordedNotRerun
  <2> QED  BY <2>4, <2>5, <1>t DEF SchemaInv
<1>12. CASE RunRaises
  BY <1>12, <1>t, OffSchema DEF RunRaises, Over, TypeOK, Sidecars
<1>13. CASE Fault
  BY <1>13, <1>t, OffSchema DEF Fault, Over, TypeOK, Sidecars
<1>14. CASE UNCHANGED vars
  BY <1>14, <1>t, OffSchema DEF vars
<1> QED
  BY <1>1, <1>2, <1>3, <1>4, <1>5, <1>6, <1>7, <1>8, <1>9, <1>10, <1>11, <1>12, <1>13, <1>14
     DEF Next, Migrating

\* The invariant holds initially: nothing is recorded and nothing runs.
LEMMA SchemaInit == Init => SchemaInv
<1> SUFFICES ASSUME Init PROVE SchemaInv
  OBVIOUS
<1>1. at[Orchestrator] = "down" /\ recorded = {}
  BY DEF Init, Sidecars
<1> QED
  BY <1>1, InitType DEF SchemaInv, Resumed, HalfRun, SchemaBeforeService, RecordedNotRerun

LEMMA SchemaAlways == Spec => []SchemaInv
BY SchemaInit, SchemaStep, PTL DEF Spec

\* run_migrations records a file only after all of it, and all before it, has run,
\* wherever earlier starts were ended: nothing is served without the whole schema.
THEOREM SchemaIsComplete == Spec => []SchemaBeforeService
BY SchemaAlways, PTL DEF SchemaInv

\* run_migrations never runs a recorded file again, however often it is started.
THEOREM RecordedStayRun == Spec => []RecordedNotRerun
BY SchemaAlways, PTL DEF SchemaInv

-----------------------------------------------------------------------------
(* What ends an orphan.  OrphanExits is TLC's; that an ancestor's end, once *)
(* it can be seen, can be seen until the sidecar has ended, is proved.      *)

\* A watch that has captured ancestors is still running, and so is its sidecar.
WatchInv ==
    \A p \in Sidecars :
        /\ watch[p] = "watching" <=> watched[p] # {}
        /\ watch[p] # "off" => Up(p)

\* What the watch sees: an ancestor it captured is not what it was.
SeesOrphan(p) == watch[p] = "watching" /\ \E x \in watched[p] : ~Unchanged(x)

\* The end of a process ends its watch.
LEMMA OverWatch ==
  ASSUME TypeOK, WatchInv, NEW p \in Sidecars, NEW stage \in {"down", "failed"}, Over(p, stage)
  PROVE  WatchInv' /\ ~Up(p)' /\ \A q \in Sidecars \ {p} : watch'[q] = watch[q] /\ watched'[q] = watched[q]
BY DEF TypeOK, WatchInv, Over, Up

\* The orchestrator's main thread goes on: no watch is concerned.
LEMMA MainWatch ==
  ASSUME WatchInv, UNCHANGED <<watch, watched>>,
         \A p \in Sidecars : Up(p) => Up(p)'
  PROVE  WatchInv'
BY DEF WatchInv

\* A step of the migrations that does not end the process keeps it up.
LEMMA MigrationUp ==
  ASSUME TypeOK, NEW stage \in Stages \ {"down", "failed"}, Goto(stage) \/ UNCHANGED at
  PROVE  \A p \in Sidecars : Up(p) => Up(p)'
BY DEF TypeOK, Goto, Up, Sidecars

\* run_migrations goes on with the watch as it is, or raises and ends the process.
LEMMA MigratingWatch ==
  ASSUME TypeOK, Migrating
  PROVE  \/ Over(Orchestrator, "failed") /\ UNCHANGED anc
         \/ UNCHANGED process /\ \A p \in Sidecars : Up(p) => Up(p)'
<1>1. {"lookup", "run", "record", "serving"} \subseteq Stages \ {"down", "failed"}
  BY DEF Stages
<1>2. CASE RunRaises
  BY <1>2 DEF RunRaises
<1>3. CASE ~RunRaises
  <2>1. UNCHANGED process /\ \E stage \in Stages \ {"down", "failed"} : Goto(stage) \/ UNCHANGED at
    BY <1>1, <1>3 DEF Migrating, Connect, Lookup, Serve, RunStatement, RunScript, Record
  <2> QED  BY <2>1, MigrationUp
<1> QED  BY <1>2, <1>3

\* Every step keeps the watches.
LEMMA WatchStep == TypeOK /\ WatchInv /\ [Next]_vars => WatchInv'
<1> SUFFICES ASSUME TypeOK, WatchInv, [Next]_vars PROVE WatchInv'
  OBVIOUS
<1>1. CASE Launch
  BY <1>1 DEF Launch, WatchInv, Up
<1>2. ASSUME NEW x \in Ancestors, AncestorEnds(x) \/ PidReused(x) PROVE WatchInv'
  BY <1>2, MainWatch DEF AncestorEnds, PidReused, Up
<1>3. ASSUME NEW p \in Sidecars, Killed(p) \/ Orphaned(p) PROVE WatchInv'
  BY <1>3, OverWatch DEF Killed, Orphaned
<1>4. ASSUME NEW p \in Sidecars, Capture(p) PROVE WatchInv'
  BY <1>4 DEF Capture, TypeOK, WatchInv, Up
<1>5. CASE AgentRuns
  BY <1>5, MainWatch DEF AgentRuns, TypeOK, Up, Sidecars, process
<1>6. CASE Migrating
  BY <1>6, MigratingWatch, MainWatch, OverWatch DEF Sidecars, process
<1>7. CASE Fault
  BY <1>7, OverWatch DEF Fault, Sidecars
<1>8. CASE UNCHANGED vars
  BY <1>8, MainWatch DEF vars, process, Up
<1> QED
  BY <1>1, <1>2, <1>3, <1>4, <1>5, <1>6, <1>7, <1>8 DEF Next

LEMMA WatchAlways == Spec => [](TypeOK /\ WatchInv)
<1>1. Init => WatchInv
  BY DEF Init, WatchInv
<1> QED  BY <1>1, WatchStep, StartupTypeCorrect, PTL DEF Spec

\* A captured ancestor that has ended is never taken for alive again, also when its pid
\* goes to another process (_ancestor_unchanged): the watch sees it at every step until
\* the sidecar's process is over.
THEOREM OrphanStaysSeen ==
  Spec => [][\A p \in Sidecars : SeesOrphan(p) => (SeesOrphan(p)' /\ Up(p)') \/ ~Up(p)']_vars
<1>1. ASSUME TypeOK, WatchInv, Next, NEW p \in Sidecars, SeesOrphan(p), Up(p)'
      PROVE  SeesOrphan(p)'
  <2>u. Up(p) /\ WatchInv'
    BY <1>1, WatchStep DEF SeesOrphan, WatchInv
  <2>1. CASE Launch
    BY <2>1, <2>u DEF Launch
  <2>2. ASSUME NEW x \in Ancestors, AncestorEnds(x) \/ PidReused(x) PROVE SeesOrphan(p)'
    <3>1. UNCHANGED <<watch, watched>> /\ \A y \in Ancestors : ~Unchanged(y) => ~Unchanged(y)'
      BY <1>1, <2>2 DEF AncestorEnds, PidReused, Unchanged, TypeOK
    <3>2. watched[p] \subseteq Ancestors
      BY <1>1 DEF TypeOK
    <3> QED  BY <1>1, <3>1, <3>2 DEF SeesOrphan
  <2>3. ASSUME NEW q \in Sidecars, Killed(q) \/ Orphaned(q) PROVE SeesOrphan(p)'
    <3>1. Over(q, "down") /\ UNCHANGED anc
      BY <2>3 DEF Killed, Orphaned
    <3>2. q # p
      BY <1>1, <3>1, OverWatch
    <3> QED  BY <1>1, <3>1, <3>2, OverWatch DEF SeesOrphan, Unchanged
  <2>4. ASSUME NEW q \in Sidecars, Capture(q) PROVE SeesOrphan(p)'
    <3>1. q # p
      BY <1>1, <2>4 DEF Capture, SeesOrphan
    <3> QED  BY <1>1, <2>4, <3>1 DEF Capture, SeesOrphan, Unchanged, TypeOK
  <2>5. CASE AgentRuns \/ UNCHANGED process
    BY <1>1, <2>5 DEF AgentRuns, process, SeesOrphan, Unchanged
  <2>6. CASE Over(Orchestrator, "failed") /\ UNCHANGED anc
    <3>1. p # Orchestrator
      BY <1>1, <2>6, OverWatch
    <3> QED  BY <1>1, <2>6, <3>1, OverWatch DEF SeesOrphan, Unchanged, Sidecars
  <2>7. CASE Migrating
    BY <1>1, <2>5, <2>6, <2>7, MigratingWatch
  <2>8. CASE Fault
    BY <2>6, <2>8 DEF Fault
  <2> QED  BY <1>1, <2>1, <2>2, <2>3, <2>4, <2>5, <2>7, <2>8 DEF Next
<1>2. TypeOK /\ WatchInv /\ [Next]_vars =>
        [\A p \in Sidecars : SeesOrphan(p) => (SeesOrphan(p)' /\ Up(p)') \/ ~Up(p)']_vars
  BY <1>1
<1> QED  BY <1>2, WatchAlways, PTL DEF Spec
=============================================================================
