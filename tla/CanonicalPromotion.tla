------------------------- MODULE CanonicalPromotion -------------------------
(***************************************************************************)
(* Promotion of a verified benchmark family to a canonical root                *)
(* (scripts/promote_industrial_v2_artifacts.py, promote_canonical_family).      *)
(* An operator names a workspace, the target is examined once, and the members  *)
(* are copied over it in the order of their names, SHA256SUMS.txt first.        *)
(* A promotion may be killed or meet a full disk half-way, files of the root may *)
(* be edited by hand, and an authority may be retired.                         *)
(***************************************************************************)
EXTENDS Integers

CONSTANTS
  Promoters,       \* operators' processes
  Families,        \* what verified workspaces hold, one of each run
  NumMembers,      \* files of a family; 1 is SHA256SUMS.txt
  MaxPromotions,   \* bound: promotions begun
  MaxTroubles      \* bound: kills, full disks and edits

Missing == "missing"
Emptied == "emptied"   \* opened for writing and not filled
Edited == "edited"

ASSUME PromotionAssumption ==
  /\ Families # {} /\ Families \cap {Missing, Emptied, Edited} = {}
  /\ NumMembers \in Nat \ {0} /\ MaxPromotions \in Nat /\ MaxTroubles \in Nat

Files == 1 .. NumMembers

VARIABLES
  canonical,       \* whose content each file of the root has
  stage,           \* each promoter
  source,          \* the family of its workspace
  cursor,          \* the file it is at
  promotions, troubles,
  overlapped       \* ghost: two promotions ran at the same time

promotionVars == <<canonical, stage, source, cursor, promotions, troubles, overlapped>>

Working == {"copying", "filling", "verifying"}
Promoting == {p \in Promoters : stage[p] \in Working}

PromotionInit ==
  /\ canonical = [i \in Files |-> Missing]
  /\ stage = [p \in Promoters |-> "idle"] /\ source \in [Promoters -> {CHOOSE f \in Families : TRUE}]
  /\ cursor = [p \in Promoters |-> 1]
  /\ promotions = 0 /\ troubles = 0 /\ overlapped = FALSE

\* _target_blockers: the root is empty, or has all files and the same SHA256SUMS.txt.
\* Seeded fault: a complete family is taken for this one.
TargetIsFreeOrFull(f) ==
  (\A i \in Files : canonical[i] = Missing) \/ (\A i \in Files : canonical[i] # Missing)
TargetIsFree(f) ==
  \/ \A i \in Files : canonical[i] = Missing
  \/ canonical[1] = f /\ \A i \in Files : canonical[i] # Missing

Reaches(p, s) == stage' = [stage EXCEPT ![p] = s]

\* promotion_blockers.  The family itself has been staged and verified: what is left is
\* the target.
Examine(p, f) ==
  /\ stage[p] \notin Working /\ promotions < MaxPromotions /\ promotions' = promotions + 1
  /\ source' = [source EXCEPT ![p] = f] /\ cursor' = [cursor EXCEPT ![p] = 1]
  /\ Reaches(p, IF TargetIsFree(f) THEN "copying" ELSE "refused")
  /\ overlapped' = (overlapped \/ Promoting # {})
  /\ UNCHANGED <<canonical, troubles>>

\* shutil.copy2: the file is opened, which empties it, and filled.
OpenMember(p) ==
  /\ stage[p] = "copying" /\ Reaches(p, "filling")
  /\ canonical' = [canonical EXCEPT ![cursor[p]] = Emptied]
  /\ UNCHANGED <<source, cursor, promotions, troubles, overlapped>>

FillMember(p) ==
  /\ stage[p] = "filling"
  /\ Reaches(p, IF cursor[p] = NumMembers THEN "verifying" ELSE "copying")
  /\ canonical' = [canonical EXCEPT ![cursor[p]] = source[p]]
  /\ cursor' = IF cursor[p] = NumMembers THEN cursor ELSE [cursor EXCEPT ![p] = @ + 1]
  /\ UNCHANGED <<source, promotions, troubles, overlapped>>

\* The verifier: every file is there, and all are of one run.
Verified(f) == \A i \in Files : canonical[i] = f
VerifyRoot(p) ==
  /\ stage[p] = "verifying"
  /\ Reaches(p, IF \E f \in Families : Verified(f) THEN "promoted" ELSE "refused")
  /\ UNCHANGED <<canonical, source, cursor, promotions, troubles, overlapped>>

Troubled == troubles < MaxTroubles /\ troubles' = troubles + 1

\* Killed, out of space, or a file of the workspace has gone.
BreakOff(p) ==
  /\ p \in Promoting /\ Troubled /\ Reaches(p, "broken off")
  /\ UNCHANGED <<canonical, source, cursor, promotions, overlapped>>

EditFile(i) ==
  /\ canonical[i] \in Families /\ Troubled
  /\ canonical' = [canonical EXCEPT ![i] = Edited]
  /\ UNCHANGED <<stage, source, cursor, promotions, overlapped>>

\* "Retire the old authority explicitly": its files are removed, with nothing under way.
Retire ==
  /\ Promoting = {} /\ Troubled /\ canonical' = [i \in Files |-> Missing]
  /\ UNCHANGED <<stage, source, cursor, promotions, overlapped>>

PromoterStep(p) ==
  (\E f \in Families : Examine(p, f)) \/ OpenMember(p) \/ FillMember(p) \/ VerifyRoot(p) \/ BreakOff(p)
PromotionNext ==
  (\E p \in Promoters : PromoterStep(p)) \/ (\E i \in Files : EditFile(i)) \/ Retire

PromotionSpec == PromotionInit /\ [][PromotionNext]_promotionVars

-----------------------------------------------------------------------------

\* Type correctness.
PromotionTypeOK ==
  /\ canonical \in [Files -> Families \cup {Missing, Emptied, Edited}]
  /\ stage \in [Promoters -> Working \cup {"idle", "refused", "promoted", "broken off"}]
  /\ source \in [Promoters -> Families] /\ cursor \in [Promoters -> Files]
  /\ promotions \in Nat /\ troubles \in Nat /\ overlapped \in BOOLEAN

\* The root never holds files of two runs, whatever promotions of whatever workspaces broke
\* off half-way and whatever was edited, as long as no two ran at the same time: the target
\* is examined once and nothing holds it until the copies are done.
RootIsOfOneRun ==
  ~overlapped =>
    \A i, j \in Files : {canonical[i], canonical[j]} \subseteq Families => canonical[i] = canonical[j]

\* Module docstring: a drifted canonical authority is never silently overwritten.  What is
\* compared is SHA256SUMS.txt alone, not the files it speaks of.
DriftIsNotOverwritten ==
  [][\A i \in Files : canonical[i] = Edited => canonical'[i] \in {Edited, Missing}]_promotionVars

\* Module docstring: nonzero means refused, nothing written to the canonical root.  A copy
\* that raises leaves what was copied before.
BrokenOffIsUntouched ==
  [][\A p \in Promoters : stage'[p] = "broken off" /\ stage[p] # stage'[p] /\ ~overlapped
       => \A i \in Files : canonical[i] # Emptied /\ (canonical[i] = Missing \/ Verified(canonical[i]))
    ]_promotionVars
=============================================================================
