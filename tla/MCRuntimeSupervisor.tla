------------------------ MODULE MCRuntimeSupervisor ------------------------
(* TLC instances of RuntimeSupervisor: two instances that share a strategy   *)
(* id or do not, and, for the race, one instance whose stop meets a step.    *)
EXTENDS RuntimeSupervisor, TLC

CONSTANTS i1, i2
=============================================================================
