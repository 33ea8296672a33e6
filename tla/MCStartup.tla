----------------------------- MODULE MCStartup ------------------------------
(* Startup for TLC: two files as the orchestrator's kinds of migration are *)
(* (several repeatable statements, one that is not), a bootloader each.      *)
EXTENDS Startup

CONSTANTS boot_o, boot_a, console

MCLength == [f \in 1..Files |-> IF f = 1 THEN 2 ELSE 1]

MCChain == [p \in Sidecars |-> IF p = Orchestrator THEN <<boot_o, console>> ELSE <<boot_a, console>>]
=============================================================================
