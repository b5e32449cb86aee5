-------------------------- MODULE StreamingPipeline --------------------------
(***************************************************************************)
(* run_streaming (streaming/pipeline.py) with the ownership tree, the work      *)
(* ledger, the verifier sessions and the output sink it drives.  One pass of    *)
(* its inner loop is one action.  What the callbacks answer (verdicts, advice,  *)
(* acceptance of a screen) is a choice; what they may do is raise.              *)
(*                                                                             *)
(* A tile id is the path to it: <<3>> is the third tile of the plan, <<3, 2>>   *)
(* the second child of its subdivision.                                        *)
(***************************************************************************)
EXTENDS TileGeometry, Verdicts

CONSTANTS
  Width, Height, CoreSize,
  Halo,            \* halo_px: what policy and verifiers require, capped
  MaxRequeues,     \* refinements granted to each tile of the plan
  Verifiers,
  Masks,           \* the layouts: sets of occupied pixels
  AnswersOn,       \* what verifiers may answer on tiles of each layout
  Advice,          \* the refinements a verifier may advise
  ExtraHalo, Subdivision,
  BatchSize

Chip == (0 .. Width - 1) \X (0 .. Height - 1)

ASSUME PipelineAssumption ==
  /\ {Width, Height, CoreSize, ExtraHalo} \subseteq Nat \ {0}
  /\ {Halo, MaxRequeues} \subseteq Nat
  /\ Subdivision \in Nat \ {0, 1} /\ BatchSize \in Nat \ {0, 1}
  /\ Masks \subseteq SUBSET Chip /\ Advice \subseteq {"increase_halo", "subdivide"}
  /\ AnswersOn \in [Masks -> SUBSET TileResults]
  /\ Advice # {} /\ IsFiniteSet(Verifiers)

VARIABLES
  mask, mode,      \* the layout; screened and verified, or batched
  next,            \* tiles of the plan that were started
  pending,         \* the work stack of the current one
  left,            \* its refinements_left
  leaves, final,   \* OwnershipTree: every leaf, and those not subdivided
  latest,          \* per verifier: its reducer's result of each tile
  union,           \* WorkAccounting._forward_union
  batch,           \* windows read and not yet forwarded
  written,         \* the sink: core of each committed tile
  phase,
  touched          \* ghost: pixels of every core ever forwarded

ledgers == <<leaves, final, latest, union, written, touched>>
vars == <<mask, mode, next, pending, left, batch, phase, ledgers>>

Plan == CoreGrid(Width, Height, CoreSize)
Sessions == IF mode = "batched" THEN {} ELSE Verifiers
Answers == [Sessions -> AnswersOn[mask]]
Request(id, core, halo) == [id |-> id, core |-> core, read |-> ReadBox(core, halo, Width, Height)]
HaloOf(r) == HaloActual(r.core, r.read)
Leaf(core, seen) == [core |-> core, seen |-> seen, terminal |-> "none"]
Extend(f, id, x) == [i \in DOMAIN f \cup {id} |-> IF i = id THEN x ELSE f[i]]
Without(f, id) == [i \in DOMAIN f \ {id} |-> f[i]]

Init ==
  /\ mask \in Masks /\ mode \in {"verified", "batched"}
  /\ next = 0 /\ pending = <<>> /\ left = 0
  /\ leaves = <<>> /\ final = {} /\ latest = [v \in Sessions |-> <<>>]
  /\ union = {} /\ batch = <<>> /\ written = <<>> /\ phase = "running" /\ touched = {}

-----------------------------------------------------------------------------

\* record_forward_core: what is covered adds nothing, what is absorbed leaves.
RecordForward(boxes, core) ==
  IF \E b \in boxes : Covers(b, core) THEN boxes
  ELSE {b \in boxes : ~Covers(core, b)} \cup {core}

\* A sink takes a tile once, a leaf is terminated once; a second time raises.
Committable(r) == r.id \notin DOMAIN written /\ leaves[r.id].terminal = "none"

\* Forward these tiles and commit them: mark_forward and set_terminal, write_core, and the
\* ledger core by core.
ForwardAndCommit(requests) ==
  LET Index(id) == CHOOSE i \in DOMAIN requests : requests[i].id = id
      ids   == {requests[i].id : i \in DOMAIN requests}
      cores == [i \in DOMAIN requests |-> requests[i].core]
      ok    == \A i \in DOMAIN requests : Committable(requests[i])
  IN  /\ leaves' = [id \in DOMAIN leaves |->
                      IF id \in ids THEN [leaves[id] EXCEPT !.seen = TRUE, !.terminal = "ACTIVE"]
                      ELSE leaves[id]]
      /\ written' = [id \in DOMAIN written \cup ids |->
                       IF id \in ids THEN cores[Index(id)] ELSE written[id]]
      /\ union' = FoldLeft(RecordForward, union, cores)
      /\ touched' = touched \cup UNION {Pixels(core) : core \in Range(cores)}
      /\ phase' = IF ok THEN phase ELSE "rejected"
      /\ UNCHANGED final

\* The next tile of the plan becomes a root.
StartTile ==
  /\ phase = "running" /\ pending = <<>> /\ next < Len(Plan)
  /\ LET id == <<next + 1>> IN
       /\ pending' = <<Request(id, Plan[next + 1], Uniform(Halo))>>
       /\ leaves' = Extend(leaves, id, Leaf(Plan[next + 1], FALSE))
       /\ final' = final \cup {id}
       /\ phase' = IF id \in DOMAIN leaves THEN "rejected" ELSE phase
  /\ next' = next + 1 /\ left' = MaxRequeues
  /\ UNCHANGED <<mask, mode, latest, union, batch, written, touched>>

Current == Last(pending)
Busy(m) == phase = "running" /\ mode = m /\ pending # <<>>

\* ExactEmptyContextScreeningPolicy: nothing is drawn in the window that would be read.
ScreenedOut(r) == Pixels(r.read) \cap mask = {}

\* add: a later result of the same tile replaces the earlier one.
Added(answer) == [v \in Sessions |-> Extend(latest[v], Current.id, answer[v])]

\* The screen decides and every verifier accepts its facts with a PASS: the fill is
\* committed without reading, forwarding or verifying.
SkipTile ==
  /\ Busy("verified") /\ ScreenedOut(Current)
  /\ \E accepted \in Answers :
       /\ \A v \in Sessions : accepted[v].status = "PASS"
       /\ latest' = Added(accepted)
  /\ written' = Extend(written, Current.id, Current.core)
  /\ leaves' = [leaves EXCEPT ![Current.id].terminal = "EXACT_OUTPUT_SKIP"]
  /\ phase' = IF Committable(Current) THEN phase ELSE "rejected"
  /\ pending' = Front(pending)
  /\ UNCHANGED <<mask, mode, next, left, final, union, batch, touched>>

\* The active path is taken when the screen does not decide, or a verifier does not
\* accept.  Every session adds its verdict.
Verify(verdict) ==
  /\ Busy("verified") /\ (ScreenedOut(Current) => Sessions # {})
  /\ verdict \in Answers

Inconclusive(verdict) == \E v \in Sessions : verdict[v].status = "INCONCLUSIVE"

\* Decided, or no refinement is left.
\* Seeded fault: a tile that is to be refined is committed all the same.
CommitTileEarly ==
  /\ \E verdict \in Answers :
       /\ Verify(verdict) /\ latest' = Added(verdict)
       /\ pending' = IF Inconclusive(verdict) /\ left > 0 THEN pending ELSE Front(pending)
       /\ left' = IF Inconclusive(verdict) /\ left > 0 THEN left - 1 ELSE left
  /\ ForwardAndCommit(<<Current>>)
  /\ UNCHANGED <<mask, mode, next, batch>>
CommitTile ==
  /\ \E verdict \in Answers :
       /\ Verify(verdict) /\ (Inconclusive(verdict) => left = 0)
       /\ latest' = Added(verdict)
  /\ ForwardAndCommit(<<Current>>)
  /\ pending' = Front(pending)
  /\ UNCHANGED <<mask, mode, next, left, batch>>

\* mark_forward and the ledger for a tile that will be run again.
\* Seeded fault: the refinement is not charged to the tile of the plan.
RefineUnpaid(action) ==
  /\ action \in Advice /\ left > 0 /\ left' = left
  /\ union' = RecordForward(union, Current.core)
  /\ touched' = touched \cup Pixels(Current.core)
Refine(action) ==
  /\ action \in Advice /\ left > 0 /\ left' = left - 1
  /\ union' = RecordForward(union, Current.core)
  /\ touched' = touched \cup Pixels(Current.core)

\* increase_halo: the same tile, with a wider window.
GrowTile ==
  /\ \E verdict \in Answers :
       Verify(verdict) /\ Inconclusive(verdict) /\ latest' = Added(verdict)
  /\ Refine("increase_halo")
  /\ leaves' = [leaves EXCEPT ![Current.id].seen = TRUE]
  /\ pending' = Append(Front(pending),
       Request(Current.id, Current.core, Uniform(WidestSide(HaloOf(Current)) + ExtraHalo)))
  /\ UNCHANGED <<mask, mode, next, final, batch, written, phase>>

\* subdivide: the parent is retired everywhere, its children are pushed with the halo
\* the parent had.
ChildIds(r) == {Append(r.id, i) : i \in DOMAIN PartitionCore(r.core, Subdivision)}
CoreOfChild(r, id) == PartitionCore(r.core, Subdivision)[Last(id)]

\* Seeded fault: children start without the history of their parent.
OwnedAfresh(r) ==
  [id \in DOMAIN leaves \cup ChildIds(r) |->
     CASE id \in ChildIds(r) -> Leaf(CoreOfChild(r, id), FALSE)
       [] id = r.id          -> [leaves[id] EXCEPT !.seen = TRUE]
       [] OTHER              -> leaves[id]]
Owned(r) ==
  [id \in DOMAIN leaves \cup ChildIds(r) |->
     CASE id \in ChildIds(r) -> Leaf(CoreOfChild(r, id), TRUE)
       [] id = r.id          -> [leaves[id] EXCEPT !.seen = TRUE]
       [] OTHER              -> leaves[id]]

Retired(verdict, id) == [v \in Sessions |-> Without(Added(verdict)[v], id)]

SplitTile ==
  /\ \E verdict \in Answers :
       /\ Verify(verdict) /\ Inconclusive(verdict)
       /\ latest' = Retired(verdict, Current.id)
  /\ Refine("subdivide")
  /\ LET cores == PartitionCore(Current.core, Subdivision)
         ok    == /\ Current.id \in final /\ CheckPartition(Current.core, cores)
                  /\ ChildIds(Current) \cap DOMAIN leaves = {}
     IN  /\ leaves' = Owned(Current)
         /\ final' = (final \ {Current.id}) \cup ChildIds(Current)
         /\ pending' = Front(pending) \o
              [i \in DOMAIN cores |-> Request(Append(Current.id, i), cores[i], HaloOf(Current))]
         /\ phase' = IF ok THEN phase ELSE "rejected"
  /\ UNCHANGED <<mask, mode, next, batch, written>>

-----------------------------------------------------------------------------
(* Micro-batching: no verifiers and no screen                                  *)

\* A window waits in the batch, which is forwarded when its shape changes or it is full.
BatchTile ==
  /\ Busy("batched")
  /\ LET change == batch # <<>> /\ Shape(batch[1].read) # Shape(Current.read)
         grown  == IF change THEN <<Current>> ELSE Append(batch, Current)
         full   == Len(grown) >= BatchSize
     IN  /\ ForwardAndCommit((IF change THEN batch ELSE <<>>) \o (IF full THEN grown ELSE <<>>))
         /\ batch' = IF full THEN <<>> ELSE grown
  /\ pending' = Front(pending)
  /\ UNCHANGED <<mask, mode, next, left, latest>>

PlanDone == phase = "running" /\ pending = <<>> /\ next = Len(Plan)

FlushRest ==
  /\ PlanDone /\ batch # <<>>
  /\ ForwardAndCommit(batch) /\ batch' = <<>>
  /\ UNCHANGED <<mask, mode, next, pending, left, latest>>

-----------------------------------------------------------------------------

\* verify_total_coverage: every final leaf terminated, their areas add up to the chip.
TotalCoverage ==
  /\ \A id \in final : leaves[id].terminal # "none"
  /\ SumFunction([id \in final |-> Area(leaves[id].core)]) = Width * Height

Finish ==
  /\ PlanDone /\ batch = <<>>
  /\ phase' = IF TotalCoverage THEN "done" ELSE "rejected"
  /\ UNCHANGED <<mask, mode, next, pending, left, batch, ledgers>>

\* The source, the forward model, a verifier or the sink raises.
CallbackRaises ==
  /\ phase = "running" /\ (pending # <<>> \/ batch # <<>>)
  /\ phase' = "failed"
  /\ UNCHANGED <<mask, mode, next, pending, left, batch, ledgers>>

\* finalize of each session, folded when there are several.
Report == FoldGlobal([v \in Sessions |-> Finalize(Range(latest[v]))])
UniqueForwardPixels == TotalArea(union)

Step == StartTile \/ SkipTile \/ CommitTile \/ GrowTile \/ SplitTile
          \/ BatchTile \/ FlushRest \/ Finish
Next == Step \/ CallbackRaises

Spec == Init /\ [][Next]_vars
=============================================================================
