----------------------- MODULE MCExecutionAuthorizer -----------------------
(***************************************************************************)
(* An instance of ExecutionAuthorizer for TLC.                             *)
(***************************************************************************)
EXTENDS ExecutionAuthorizer, TLC

Symmetry == Permutations(AuthIds) \cup Permutations(Presenters)
=============================================================================
