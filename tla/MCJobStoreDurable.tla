------------------------- MODULE MCJobStoreDurable -------------------------
(***************************************************************************)
(* JobStoreDurable for TLC.  Jobs are interchangeable.                         *)
(***************************************************************************)
EXTENDS JobStoreDurableProps, TLC

JobSymmetry == Permutations(Jobs)
=============================================================================
