------------------------------ MODULE Verdicts ------------------------------
(***************************************************************************)
(* How verdicts on tiles become a verdict on the chip                          *)
(* (streaming/verification.py: StreamingVerificationReducer, fold_global).     *)
(***************************************************************************)
EXTENDS Integers, FiniteSets, Functions

Statuses == {"PASS", "FAIL", "INCONCLUSIVE"}
Coverages == {"ALL_COMPONENTS_COVERED", "PARTIAL_COVER", "INCONCLUSIVE", "NOT_APPLICABLE"}

\* TileVerificationResult.  Of its numbers only one counts for the status: whether the halo
\* error bound it states is above the tolerance of the verifier's reducer.
TileResults == [status : Statuses, coverage : Coverages, overBudget : BOOLEAN]
StatusesOf(results) == {r.status : r \in results}

\* The fold every level shares: nothing is not a pass, a FAIL beats all.
Fold(statuses) ==
  IF "FAIL" \in statuses THEN "FAIL"
  ELSE IF "INCONCLUSIVE" \in statuses \/ statuses = {} THEN "INCONCLUSIVE"
  ELSE "PASS"

\* The coverage of the whole, from the tiles that claim any.
Claiming(results) == {r \in results : r.coverage # "NOT_APPLICABLE"}
Covered(results) == {r \in results : r.coverage = "ALL_COMPONENTS_COVERED"}

Coverage(results) ==
  IF Claiming(results) = {} THEN "NOT_APPLICABLE"
  ELSE IF Covered(results) = Claiming(results) THEN "ALL_COMPONENTS_COVERED"
  ELSE IF Covered(results) # {} THEN "PARTIAL_COVER"
  ELSE "INCONCLUSIVE"

\* total_error() > tolerance: the largest halo bound counts, the other terms of the stock
\* reducer are 0.
Breached(results) == \E r \in results : r.overBudget

\* StreamingVerificationReducer.finalize, over the latest result of each tile.
\* Seeded fault: neither partial cover nor the error budget blocks a PASS.
FinalizeUnblocked(results) == Fold(StatusesOf(results))
Finalize(results) ==
  IF Coverage(results) = "PARTIAL_COVER" \/ Breached(results)
  THEN Fold(StatusesOf(results) \cup {"INCONCLUSIVE"})
  ELSE Fold(StatusesOf(results))

\* fold_global, over the outcome of each verifier.
FoldGlobal(outcome) == Fold(Range(outcome))
=============================================================================
