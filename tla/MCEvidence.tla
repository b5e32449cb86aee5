----------------------------- MODULE MCEvidence -----------------------------
(***************************************************************************)
(* For TLC, side by side: the two ways in which benchmark evidence is           *)
(* published, the questions MCDecisions asks of the pure modules, and the tiles  *)
(* of StreamingPipeline.  They share nothing, so a behaviour is one of any of    *)
(* them with the others at rest.                                               *)
(***************************************************************************)
EXTENDS EvidencePublication, CanonicalPromotion, MCDecisions, MCStreamingPipeline

NoEvidence == step = [h \in Harnesses |-> <<"new">>]
NoPromotion == promotions = 0 /\ troubles = 0
NoQuestion == case.kind = "none"
NoTiles == mask = {} /\ mode = "batched" /\ next = 0 /\ phase = "running"

MCInit == EvidenceInit /\ PromotionInit /\ PoseInit /\ Init

MCNext ==
  \/ NoPromotion /\ NoQuestion /\ NoTiles /\ EvidenceNext /\ UNCHANGED <<promotionVars, case, vars>>
  \/ NoEvidence /\ NoQuestion /\ NoTiles /\ PromotionNext /\ UNCHANGED <<evidenceVars, case, vars>>
  \/ NoEvidence /\ NoPromotion /\ NoTiles /\ PoseNext /\ UNCHANGED <<evidenceVars, promotionVars, vars>>
  \/ NoEvidence /\ NoPromotion /\ NoQuestion /\ Next /\ UNCHANGED <<evidenceVars, promotionVars, case>>

MCSpec == MCInit /\ [][MCNext]_<<evidenceVars, promotionVars, case, vars>>
=============================================================================
