------------------------------ MODULE Records -------------------------------
(***************************************************************************)
(* The promise the handlers of Handlers, and Relay, are written against:   *)
(* every statement is one atomic step (the Database interface, db/base.py).*)
(* A statement whose call is interrupted may have had its effect, may have *)
(* it together with a later statement, or never.                           *)
(***************************************************************************)
EXTENDS Handlers

VARIABLES
    kind,   \* what each call asks for
    pc, id, \* the statement a call is at, or its answer; the record's id
    db,     \* the database
    limbo   \* what interrupted statements may yet write

vars == <<kind, pc, id, db, limbo>>

Init ==
    /\ kind \in [Calls -> Kinds]
    /\ pc = [r \in Calls |-> "new"] /\ id = [r \in Calls |-> None]
    /\ db = [rows |-> {}, audit |-> {}] /\ limbo = {}

Begin(r) ==
    /\ pc[r] = "new" /\ pc' = [pc EXCEPT ![r] = First(kind, r)]
    /\ UNCHANGED <<kind, id, db, limbo>>

Seen == After(db, limbo)

Statement(r) ==
    LET result == Result(pc[r], kind, r, id[r], Seen)
    IN  /\ pc[r] \in Statements /\ ~Refuses(pc[r], kind, r, Seen)
        /\ pc' = [pc EXCEPT ![r] = result[1]] /\ id' = [id EXCEPT ![r] = result[2]]
        /\ db' = After(Seen, Writes(pc[r], kind, r, id[r], Seen)) /\ limbo' = {}
        /\ UNCHANGED kind

Fails(r) == pc' = [pc EXCEPT ![r] = "error"] /\ id' = [id EXCEPT ![r] = None]

Refused(r) ==
    /\ pc[r] \in Statements /\ Refuses(pc[r], kind, r, Seen)
    /\ Fails(r) /\ UNCHANGED <<kind, db, limbo>>

Interrupted(r) ==
    LET writes == Writes(pc[r], kind, r, id[r], Seen)
    IN  /\ pc[r] \in Statements /\ Fails(r)
        /\ \/ UNCHANGED <<db, limbo>>
           \/ limbo' = limbo \cup writes /\ UNCHANGED db
           \/ db' = After(Seen, writes) /\ limbo' = {}
        /\ UNCHANGED kind

\* The process is killed: its calls are lost, and what is in limbo with them.
Kill ==
    /\ pc' = [r \in Calls |-> IF pc[r] \in Statements THEN "lost" ELSE pc[r]]
    /\ id' = [r \in Calls |-> IF pc[r] \in Statements THEN None ELSE id[r]]
    /\ limbo' = {} /\ UNCHANGED <<kind, db>>

Next ==
    \/ \E r \in Calls : Begin(r) \/ Statement(r) \/ Refused(r) \/ Interrupted(r)
    \/ Kill

Spec == Init /\ [][Next]_vars
=============================================================================
