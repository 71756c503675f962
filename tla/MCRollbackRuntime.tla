-------------------------- MODULE MCRollbackRuntime --------------------------
(* Instances of RollbackRuntime for TLC.                                   *)
EXTENDS RollbackRuntime
=============================================================================
