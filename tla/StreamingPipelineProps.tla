----------------------- MODULE StreamingPipelineProps -----------------------
(***************************************************************************)
(* The properties of StreamingPipeline.                                        *)
(***************************************************************************)
EXTENDS StreamingPipeline

\* Type correctness: the work stack and the batch hold tiles the tree owns,
\* and a reducer verdicts of final leaves.
TypeOK ==
  /\ mask \in Masks /\ mode \in {"verified", "batched"}
  /\ next \in 0 .. Len(Plan) /\ left \in 0 .. MaxRequeues
  /\ phase \in {"running", "done", "failed", "rejected"}
  /\ \A id \in DOMAIN leaves : id \in Seq(Nat) /\ Len(id) <= MaxRequeues + 1
  /\ final \subseteq DOMAIN leaves
  /\ DOMAIN written \subseteq DOMAIN leaves
  /\ \A i \in DOMAIN pending : pending[i].id \in DOMAIN leaves
  /\ \A i \in DOMAIN batch : batch[i].id \in DOMAIN leaves
  /\ DOMAIN latest = Sessions
  /\ \A v \in Sessions : DOMAIN latest[v] \subseteq final /\ Range(latest[v]) \subseteq TileResults
  /\ touched \subseteq Chip

Decided == UNION {Pixels(written[id]) : id \in DOMAIN written}

Abstract ==
  [running |-> "running", done |-> "reported", failed |-> "abandoned", rejected |-> "rejected"]

Cover == INSTANCE ChipCover WITH decided <- Decided, state <- Abstract[phase]

\* However tiles are refined, subdivided, screened and batched, the run implements
\* ChipCover: no pixel is committed twice (a parent and its child, a tile of a flushed
\* batch), and the report comes when all are.
ImplementsCover == Cover!Spec

\* The fail-closed checks of ownership tree, sink and coverage ledger ("leaf already has
\* terminal disposition", "duplicate core write", "not area-conserving", "does not
\* partition the chip") never reject what the pipeline itself does.
ChecksNeverFire == phase # "rejected"

\* What a session passes: every final tile passed within its error budget, and no tile that
\* claims coverage is uncovered while another is covered.
SessionPasses(v) ==
  /\ \A id \in final : latest[v][id].status = "PASS" /\ ~latest[v][id].overBudget
  /\ \A a, b \in final :
       latest[v][a].coverage = "ALL_COMPONENTS_COVERED"
         => latest[v][b].coverage \in {"ALL_COMPONENTS_COVERED", "NOT_APPLICABLE"}

\* The report speaks of exactly the leaves that were committed: every verifier has a
\* result of each of them and of nothing that was subdivided away, retried or replaced,
\* and the global status follows from those results alone.  It is FAIL exactly if one of
\* them is, and PASS exactly if every session passes.  (Where no tile at all is covered,
\* partial cover does not block it: see PartialCoverBlocksPass.)
ReportIsOfFinalLeaves ==
  (phase = "done" /\ Sessions # {}) =>
    /\ \A v \in Sessions : DOMAIN latest[v] = final /\ final = DOMAIN written
    /\ Report = "PASS" <=> \A v \in Sessions : SessionPasses(v)
    /\ Report = "FAIL" <=> \E v \in Sessions, id \in final : latest[v][id].status = "FAIL"

\* "A partial cover can never yield global PASS" (docs/architecture.md:396-397): when the
\* report is PASS, every final tile that claims coverage is covered completely.
PartialCoverBlocksPass ==
  (phase = "done" /\ Report = "PASS") =>
    \A v \in Sessions, id \in final :
       latest[v][id].coverage \in {"ALL_COMPONENTS_COVERED", "NOT_APPLICABLE"}

\* The two ledgers agree with what was done: the unique forward area counts each pixel
\* that went through the model once, in whatever order parents and children did, and a
\* final leaf has forward_seen exactly if its pixels are among them.
LedgersAreExact ==
  /\ UniqueForwardPixels = Cardinality(touched)
  /\ \A id \in final : IF leaves[id].seen THEN Pixels(leaves[id].core) \subseteq touched
                                          ELSE Pixels(leaves[id].core) \cap touched = {}

\* The budget is charged to the tile of the plan, and shared by all that descends from
\* it: however its children and grandchildren are refined, a tile ends in a bounded
\* number of leaves, none deeper than the budget.
RefinementIsBounded ==
  /\ Cardinality(final) <= next * (1 + MaxRequeues * (Subdivision * Subdivision - 1))
  /\ \A id \in DOMAIN leaves : Len(id) <= MaxRequeues + 1

\* A core is committed unseen only when nothing is drawn within the required halo of it.
SkippedContextIsEmpty ==
  \A id \in final : leaves[id].terminal = "EXACT_OUTPUT_SKIP" =>
     Pixels(ReadBox(leaves[id].core, Uniform(Halo), Width, Height)) \cap mask = {}
=============================================================================
