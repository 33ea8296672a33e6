---------------------------- MODULE MCSqliteTier ----------------------------
(* SqliteTier for TLC: three calls at the same time, with two of a kind at   *)
(* least, for the same key; and three kinds that meet only at the lock.      *)
EXTENDS SqliteTier, TLC

CONSTANTS c1, c2, c3

Mix(x, y, z) == c1 :> x @@ c2 :> y @@ c3 :> z
MCMixes == {Mix("token", "token", "token"), Mix("register", "register", "token"),
            Mix("submit", "submit", "submit"), Mix("submit", "submit", "clear"),
            Mix("submit", "clear", "clear"), Mix("token", "register", "submit")}
=============================================================================
