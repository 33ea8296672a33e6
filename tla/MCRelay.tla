------------------------------ MODULE MCRelay -------------------------------
(* Relay for TLC: every task is submitted to agent a1, sockets are alike. *)
EXTENDS Relay, TLC

CONSTANT a1

MCAssignedTo == [t \in Tasks |-> a1]

Symmetry == Permutations(Sockets)
=============================================================================
