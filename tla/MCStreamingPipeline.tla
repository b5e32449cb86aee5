------------------------- MODULE MCStreamingPipeline -------------------------
(***************************************************************************)
(* StreamingPipeline for TLC.                                                  *)
(***************************************************************************)
EXTENDS StreamingPipelineProps

Answer(status, coverage, overBudget) ==
  [status |-> status, coverage |-> coverage, overBudget |-> overBudget]
Unsure == Answer("INCONCLUSIVE", "NOT_APPLICABLE", FALSE)
Passed == Answer("PASS", "NOT_APPLICABLE", FALSE)

\* The empty layout, a corner of the first tile, a corner of the second, all of the chip.
Corner == {<<0, 0>>}
FarCorner == {<<2, 1>>}
MCMasks == {{}, Corner, FarCorner, Chip}

\* Three answers on each: statuses only on the empty and the full layout, coverage on the
\* second, an error budget on the third.
MCAnswersOn ==
  [m \in MCMasks |->
     CASE m = Corner    -> {Answer("PASS", "ALL_COMPONENTS_COVERED", FALSE),
                            Answer("PASS", "PARTIAL_COVER", FALSE), Unsure}
       [] m = FarCorner -> {Passed, Answer("PASS", "NOT_APPLICABLE", TRUE), Unsure}
       [] OTHER         -> {Passed, Answer("FAIL", "NOT_APPLICABLE", FALSE), Unsure}]
=============================================================================
