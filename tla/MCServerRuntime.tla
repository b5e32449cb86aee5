-------------------------- MODULE MCServerRuntime --------------------------
(***************************************************************************)
(* ServerRuntime for TLC.  Jobs and requests are interchangeable.             *)
(***************************************************************************)
EXTENDS ServerRuntimeProps, TLC

JobSymmetry == Permutations(Jobs)
=============================================================================
