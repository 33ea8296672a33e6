------------------------------ MODULE MCFleet -------------------------------
(* Two windows of one owner: one that may lose its first socket and renames  *)
(* an agent, one that keeps its only one and changes its role or removes it. *)
EXTENDS Fleet
CONSTANTS w1, w2
MCWindows == {w1, w2}
MCOpens   == [w \in MCWindows |-> IF w = w1 THEN 2 ELSE 1]
MCAsks    == [w \in MCWindows |-> IF w = w1 THEN {"name"} ELSE {"role", "delete"}]
=============================================================================
