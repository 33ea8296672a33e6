------------------------------ MODULE Handlers ------------------------------
(***************************************************************************)
(* The REST handlers that find or create a record by a key of the client,  *)
(* one statement at a time: what the next statement is, what it writes and *)
(* what the client is answered.  get_token (routers/auth.py) finds a user  *)
(* by public key, register_agent (routers/agents.py) refuses a public key  *)
(* that is there, submit_task (routers/tasks.py) finds a task by its       *)
(* correlation_id, and delete_tasks clears tasks.                          *)
(*                                                                         *)
(* A new record has the identity of the call that creates it (new_id).     *)
(***************************************************************************)
EXTENDS Naturals

CONSTANTS Calls, None
ASSUME NoneAssumption == None \notin Calls

Kinds      == {"token", "register", "submit", "clear"}
Statements == {"find", "reread", "insert", "event", "refetch", "clear"}
Answers    == {"ok", "conflict", "error", "lost"}

\* The tables' keys are unique: users.pubkey, agents.pubkey, and the pair
\* (submitter_id, correlation_id) of tasks.  The calls use one value of each.
Table(kind)       == IF kind = "clear" THEN "submit" ELSE kind
Rows(kind, r, db) == {x \in db.rows : Table(kind[x]) = Table(kind[r])}
Known(kind, r, db) == Rows(kind, r, db) # {}
Holder(kind, r, db) == CHOOSE x \in Rows(kind, r, db) : TRUE

\* After statement s of a call: the next statement or the answer, and the id it has.
Token(s, kind, r, id, db) ==
    CASE s = "find"   -> IF Known(kind, r, db) THEN <<"event", Holder(kind, r, db)>> ELSE <<"insert", None>>
      [] s = "insert" -> <<"event", r>>
      [] s = "event"  -> <<"ok", id>>
      [] OTHER        -> <<"error", None>>

RegisterUnaudited(s, kind, r, id, db) ==     \* mutant: no append_event
    CASE s = "find"   -> IF Known(kind, r, db) THEN <<"conflict", None>> ELSE <<"insert", None>>
      [] s = "insert" -> <<"ok", r>>
      [] OTHER        -> <<"error", None>>

Register(s, kind, r, id, db) ==
    CASE s = "find"   -> IF Known(kind, r, db) THEN <<"conflict", None>> ELSE <<"insert", None>>
      [] s = "insert" -> <<"event", r>>
      [] s = "event"  -> <<"ok", id>>
      [] OTHER        -> <<"error", None>>

\* The row is read once more by its id, when it was there and when it was made; if
\* it is gone by then, _row_to_response raises.
SubmitGone(s, kind, r, id, db) ==     \* mutant: the row that is gone is answered
    CASE s = "find"    -> IF Known(kind, r, db) THEN <<"reread", Holder(kind, r, db)>> ELSE <<"insert", None>>
      [] s = "insert"  -> <<"event", r>>
      [] s = "event"   -> <<"refetch", id>>
      [] OTHER         -> <<"ok", IF id \in db.rows THEN id ELSE None>>

Submit(s, kind, r, id, db) ==
    CASE s = "find"    -> IF Known(kind, r, db) THEN <<"reread", Holder(kind, r, db)>> ELSE <<"insert", None>>
      [] s = "insert"  -> <<"event", r>>
      [] s = "event"   -> <<"refetch", id>>
      [] s \in {"reread", "refetch"} /\ id \in db.rows -> <<"ok", id>>
      [] OTHER         -> <<"error", None>>

Clear(s, kind, r, db) ==
    IF s = "clear" /\ Known(kind, r, db) THEN <<"event", None>> ELSE <<"ok", None>>

Result(s, kind, r, id, db) ==
    CASE kind[r] = "token"    -> Token(s, kind, r, id, db)
      [] kind[r] = "register" -> Register(s, kind, r, id, db)
      [] kind[r] = "submit"   -> Submit(s, kind, r, id, db)
      [] OTHER                -> Clear(s, kind, r, db)

First(kind, r) == IF kind[r] = "clear" THEN "clear" ELSE "find"

\* An INSERT whose key is there violates the UNIQUE constraint: it raises, and the
\* client is answered 500.
RefusesNothing(s, kind, r, db) == FALSE     \* mutant: no UNIQUE constraint
Refuses(s, kind, r, db) == s = "insert" /\ Known(kind, r, db)

\* What statement s writes, and a database after some writes.  Of the audit events
\* only those of a creation are kept.
Writes(s, kind, r, id, db) ==
    CASE s = "insert"           -> {<<"insert", r>>}
      [] s = "event" /\ id = r  -> {<<"event", r>>}
      [] s = "clear"            -> {"delete"} \X Rows(kind, r, db)
      [] OTHER                  -> {}

After(db, writes) ==
    [rows  |-> (db.rows \cup {x \in Calls : <<"insert", x>> \in writes})
                  \ {x \in Calls : <<"delete", x>> \in writes},
     audit |-> db.audit \cup {x \in Calls : <<"event", x>> \in writes}]

Databases == [rows : SUBSET Calls, audit : SUBSET Calls]
AllWrites == {"insert", "event", "delete"} \X Calls
=============================================================================
