------------------------------ MODULE Startup -------------------------------
(***************************************************************************)
(* The desktop's two sidecar processes from their launch by the Console to *)
(* their end (src/orchestrator/packaging/entry.py, agent-runtime/main.py), *)
(* and what the orchestrator does to its database before it serves:        *)
(* connect_db (db/connect.py) and run_migrations (db/migrate.py).          *)
(*                                                                         *)
(* A thread of each sidecar watches its ancestors and ends the process     *)
(* when one of them is gone, wherever the main thread is: also between two *)
(* statements of a migration.  The tables of the disk survive.             *)
(***************************************************************************)
EXTENDS Naturals, Sequences

CONSTANTS
    Files,       \* number of migration files, run in the order of their names
    Length,      \* statements in each file
    Repeatable,  \* the files all of whose statements say IF NOT EXISTS
    Ancestors,   \* the processes above the sidecars
    Chain,       \* each sidecar's ancestors, closest first
    MaxDepth,    \* _MAX_ANCESTOR_DEPTH
    MaxLaunches, \* bound: how often the Console is started
    MaxFaults    \* bound: statements that raise for a reason outside the schema

Orchestrator == "orchestrator"
Agent        == "agent"
Sidecars     == {Orchestrator, Agent}

ASSUME FilesAssumption ==
    /\ Files \in Nat \ {0} /\ Length \in [1..Files -> Nat \ {0}]
    /\ Repeatable \subseteq 1..Files
ASSUME ChainAssumption == Chain \in [Sidecars -> Seq(Ancestors)] /\ MaxDepth \in Nat
ASSUME LaunchAssumption == MaxLaunches \in Nat /\ MaxFaults \in Nat

VARIABLES
    anc,       \* each ancestor's pid: the same process, nobody, or another process
    watch,     \* the watch of each sidecar: not captured yet, watching, or returned
    watched,   \* the ancestors it captured
    at,        \* where the sidecar's main thread is
    dialect,   \* the backend DATABASE_URL selects
    file, pos, \* run_migrations: the file and the statement it is at
    applied,   \* on disk: the statements <<file, n>> that took effect
    recorded,  \* on disk: the rows of schema_migrations
    launches, faults

process   == <<anc, watch, watched>>
migration == <<file, pos>>
disk      == <<applied, recorded>>
bounds    == <<launches, faults>>
vars      == <<process, at, dialect, migration, disk, bounds>>

Stages     == {"down", "connect", "lookup", "run", "record", "serving", "failed"}
Statements == (1..Files) \X (Nat \ {0})
Script(f)  == {<<f, n>> : n \in 1..Length[f]}

TypeOK ==
    /\ anc \in [Ancestors -> {"same", "gone", "reused"}]
    /\ watch \in [Sidecars -> {"off", "capture", "watching"}]
    /\ watched \in [Sidecars -> SUBSET Ancestors]
    /\ at \in [Sidecars -> Stages]
    /\ dialect \in {"sqlite", "postgres"}
    /\ file \in 1..(Files + 1) /\ pos \in Nat \ {0}
    /\ at[Orchestrator] \in {"run", "record"} => file \in 1..Files
    /\ applied \in SUBSET Statements /\ recorded \in SUBSET (1..Files)
    /\ launches \in 0..MaxLaunches /\ faults \in 0..MaxFaults

\* Nothing runs and the database is new.
Init ==
    /\ anc = [x \in Ancestors |-> "gone"]
    /\ watch = [p \in Sidecars |-> "off"] /\ watched = [p \in Sidecars |-> {}]
    /\ at = [p \in Sidecars |-> "down"]
    /\ dialect \in {"sqlite", "postgres"}
    /\ file = 1 /\ pos = 1
    /\ applied = {} /\ recorded = {}
    /\ launches = 0 /\ faults = 0

-----------------------------------------------------------------------------
(* Processes.                                                              *)

Up(p) == at[p] \notin {"down", "failed"}

\* The Console is started and spawns its sidecars; each begins its watch and its
\* main thread.  The bound leaves out a Console started beside an older sidecar.
Launch ==
    /\ launches < MaxLaunches /\ \A p \in Sidecars : ~Up(p)
    /\ launches' = launches + 1
    /\ anc' = [x \in Ancestors |-> "same"]
    /\ watch' = [p \in Sidecars |-> "capture"] /\ watched' = [p \in Sidecars |-> {}]
    /\ at' = [p \in Sidecars |-> "connect"]
    /\ UNCHANGED <<dialect, migration, disk, faults>>

\* An ancestor ends (a forced kill of the Console among them), and its pid may be
\* given to an unrelated process.
AncestorEnds(x) ==
    /\ anc[x] = "same" /\ anc' = [anc EXCEPT ![x] = "gone"]
    /\ UNCHANGED <<watch, watched, at, dialect, migration, disk, bounds>>

PidReused(x) ==
    /\ anc[x] = "gone" /\ anc' = [anc EXCEPT ![x] = "reused"]
    /\ UNCHANGED <<watch, watched, at, dialect, migration, disk, bounds>>

\* The sidecar's process is over: the watch is a thread of it.
Over(p, stage) ==
    /\ at' = [at EXCEPT ![p] = stage]
    /\ watch' = [watch EXCEPT ![p] = "off"]
    /\ watched' = [watched EXCEPT ![p] = {}]

\* The sidecar is stopped or killed from outside.
Killed(p) ==
    /\ Up(p) /\ Over(p, "down")
    /\ UNCHANGED <<anc, dialect, migration, disk, bounds>>

\* The ancestors a walk up from the sidecar finds: as far as the first that is gone.
Found(p) ==
    LET reached == {i \in 1..Len(Chain[p]) :
                       i <= MaxDepth /\ \A j \in 1..i : anc[Chain[p][j]] = "same"}
    IN  {Chain[p][i] : i \in reached}

\* _capture_ancestors, at the start of the thread; without any it returns.
Capture(p) ==
    /\ watch[p] = "capture"
    /\ watched' = [watched EXCEPT ![p] = Found(p)]
    /\ watch' = [watch EXCEPT ![p] = IF Found(p) = {} THEN "off" ELSE "watching"]
    /\ UNCHANGED <<anc, at, dialect, migration, disk, bounds>>

\* Mutant: the pid is compared and the creation time is not.
PidExists(x) == anc[x] # "gone"

\* _ancestor_unchanged compares the creation time of whatever has the pid.
Unchanged(x) == anc[x] = "same"

\* _exit_if_orphaned: os._exit(0).
Orphaned(p) ==
    /\ watch[p] = "watching" /\ \E x \in watched[p] : ~Unchanged(x)
    /\ Over(p, "down")
    /\ UNCHANGED <<anc, dialect, migration, disk, bounds>>

\* agent-runtime/main.py: _run checks its settings and starts the client (AgentRuntime).
AgentRuns ==
    /\ at[Agent] = "connect"
    /\ at' = [at EXCEPT ![Agent] = "serving"]
    /\ UNCHANGED <<process, dialect, migration, disk, bounds>>

-----------------------------------------------------------------------------
(* The orchestrator's lifespan up to its first request.                    *)

Goto(stage) == at' = [at EXCEPT ![Orchestrator] = stage]

\* connect_db, and CREATE TABLE IF NOT EXISTS schema_migrations.
Connect ==
    /\ at[Orchestrator] = "connect"
    /\ Goto("lookup") /\ file' = 1 /\ pos' = 1
    /\ UNCHANGED <<process, dialect, disk, bounds>>

\* SELECT 1 FROM schema_migrations: the file is skipped or run from its first
\* statement; after the last the lifespan goes on to serve.
LookupNoSkip ==     \* mutant: the answer is not looked at
    /\ at[Orchestrator] = "lookup" /\ file <= Files
    /\ Goto("run") /\ pos' = 1
    /\ UNCHANGED <<process, dialect, file, disk, bounds>>

Lookup ==
    /\ at[Orchestrator] = "lookup" /\ file <= Files
    /\ IF file \in recorded
         THEN Goto("lookup") /\ file' = file + 1 /\ UNCHANGED pos
         ELSE Goto("run") /\ pos' = 1 /\ UNCHANGED file
    /\ UNCHANGED <<process, dialect, disk, bounds>>

Serve ==
    /\ at[Orchestrator] = "lookup" /\ file > Files
    /\ Goto("serving")
    /\ UNCHANGED <<process, dialect, migration, disk, bounds>>

\* Mutant: CREATE without IF NOT EXISTS.
RunsOnce(stmts) == stmts \cap applied = {}

\* A statement that creates what is there already raises, unless it says IF NOT EXISTS.
Runs(stmts) == file \in Repeatable \/ stmts \cap applied = {}

\* SQLite: one statement of the file, committed by itself.
RunStatement ==
    /\ at[Orchestrator] = "run" /\ dialect = "sqlite" /\ Runs({<<file, pos>>})
    /\ applied' = applied \cup {<<file, pos>>}
    /\ IF pos = Length[file] THEN Goto("record") /\ UNCHANGED pos
                             ELSE pos' = pos + 1 /\ UNCHANGED at
    /\ UNCHANGED <<process, dialect, file, recorded, bounds>>

\* PostgreSQL: the whole file in one implicit transaction.
RunScript ==
    /\ at[Orchestrator] = "run" /\ dialect = "postgres" /\ Runs(Script(file))
    /\ applied' = applied \cup Script(file)
    /\ Goto("record")
    /\ UNCHANGED <<process, dialect, migration, recorded, bounds>>

\* The statement raises and ends the start, and with it the process: nothing is recorded.
RunRaises ==
    /\ at[Orchestrator] = "run"
    /\ ~Runs(IF dialect = "sqlite" THEN {<<file, pos>>} ELSE Script(file))
    /\ Over(Orchestrator, "failed")
    /\ UNCHANGED <<anc, dialect, migration, disk, bounds>>

\* Mutant: a file is recorded before its last statement has run.
RecordEarly ==
    /\ at[Orchestrator] \in {"run", "record"}
    /\ recorded' = recorded \cup {file}
    /\ Goto("lookup") /\ file' = file + 1
    /\ UNCHANGED <<process, dialect, pos, applied, bounds>>

\* Mutant: the next file is run without looking it up.
RecordNext ==
    /\ at[Orchestrator] = "record"
    /\ recorded' = recorded \cup {file}
    /\ Goto("run") /\ file' = file + 1 /\ pos' = 1
    /\ UNCHANGED <<process, dialect, applied, bounds>>

\* INSERT INTO schema_migrations, a transaction of its own on both backends.
Record ==
    /\ at[Orchestrator] = "record"
    /\ recorded' = recorded \cup {file}
    /\ Goto("lookup") /\ file' = file + 1
    /\ UNCHANGED <<process, dialect, pos, applied, bounds>>

\* A statement raises for a reason of its own (a full disk, a lost server).
Fault ==
    /\ faults < MaxFaults /\ faults' = faults + 1
    /\ at[Orchestrator] \in {"connect", "lookup", "run", "record"}
    /\ Over(Orchestrator, "failed")
    /\ UNCHANGED <<anc, dialect, migration, disk, launches>>

-----------------------------------------------------------------------------
Migrating == Connect \/ Lookup \/ Serve \/ RunStatement \/ RunScript \/ RunRaises \/ Record

Next ==
    \/ Launch \/ (\E x \in Ancestors : AncestorEnds(x) \/ PidReused(x))
    \/ \E p \in Sidecars : Killed(p) \/ Capture(p) \/ Orphaned(p)
    \/ AgentRuns \/ Migrating \/ Fault

Spec == Init /\ [][Next]_vars

\* A process that runs goes on: its main thread and its watching thread.  Nobody
\* has to start the Console, to end anything, or to make a statement fail.
Fairness ==
    /\ WF_vars(Migrating) /\ WF_vars(AgentRuns)
    /\ \A p \in Sidecars : WF_vars(Capture(p)) /\ WF_vars(Orphaned(p))

FairSpec == Spec /\ Fairness

-----------------------------------------------------------------------------
(* Properties that hold.                                                   *)

\* A file that is recorded was run to its end and so were all files before it,
\* wherever earlier starts were ended; so nothing is served without the whole schema.
SchemaBeforeService ==
    /\ \A f \in recorded : 1..f \subseteq recorded /\ Script(f) \subseteq applied
    /\ at[Orchestrator] = "serving" => recorded = 1..Files

\* run_migrations is idempotent as its docstring says of the files it recorded: no
\* later start runs one of them again.
RecordedNotRerun == at[Orchestrator] = "run" => file \notin recorded

\* A sidecar ends when an ancestor its watch captured has ended, also when another
\* process has its pid and whatever the main thread is doing: "killing the Console
\* left the bootloader alive" (packaging/entry.py) must not keep it running.
OrphanExits ==
    \A p \in Sidecars : \A x \in Ancestors :
        x \in watched[p] /\ anc[x] # "same" ~> ~Up(p)

\* A start reaches its first request or is ended from outside, except on a database
\* where an earlier start was ended inside a file that cannot be run twice.
Stranded ==
    \E f \in 1..Files \ (recorded \cup Repeatable) : Script(f) \cap applied # {}
StartSucceeds ==
    at[Orchestrator] = "connect" /\ ~Stranded
        ~> at[Orchestrator] \in {"serving", "down"} \/ faults > 0

-----------------------------------------------------------------------------
(* A statement of the docs that the code does not keep.                    *)

\* "If the SQL fails, the filename is NOT recorded, so the migration is retried next
\* startup" and "idempotently" (run_migrations): a start that nobody ends and no
\* fault hits reaches its first request.  ALTER TABLE ... ADD COLUMN of migration
\* 005 cannot be run twice.
StartRecovers ==
    at[Orchestrator] = "connect" ~> at[Orchestrator] \in {"serving", "down"} \/ faults > 0
=============================================================================
