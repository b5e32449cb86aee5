--------------------------- MODULE Evidence_proofs ---------------------------
(***************************************************************************)
(* Theorems about the two ways in which benchmark evidence is published: the    *)
(* promotion of a canonical root, and the family of a run, for any number of    *)
(* processes, identities, rows and files; and about the pure decisions: plans,  *)
(* tilings, and the runs and boxes of a vector layout, on chips of any size.    *)
(***************************************************************************)
EXTENDS MCEvidence, TileGeometry_proofs

-----------------------------------------------------------------------------
(* CanonicalPromotion                                                          *)

\* What makes RootIsOfOneRun inductive: one promotion is under way, and what the root has of
\* any run is of the run it promotes.
PromoterOwnsRoot ==
  ~overlapped =>
    \A p \in Promoting :
      /\ \A q \in Promoting : q = p
      /\ \A i \in Files : canonical[i] \in Families => canonical[i] = source[p]

PromotionInv == PromotionTypeOK /\ RootIsOfOneRun /\ PromoterOwnsRoot

\* The root starts empty with nobody promoting.
LEMMA InvInit == PromotionInit => PromotionInv
  <1> SUFFICES ASSUME PromotionInit PROVE PromotionInv
    OBVIOUS
  <1> USE PromotionAssumption DEF PromotionInit
  <1>1. PromotionTypeOK
    <2>1. PICK f \in Families : source \in [Promoters -> {f}]
      OBVIOUS
    <2>2. cursor \in [Promoters -> Files]
      BY DEF Files
    <2>3. canonical \in [Files -> Families \cup {Missing, Emptied, Edited}]
      OBVIOUS
    <2>4. stage \in [Promoters -> Working \cup {"idle", "refused", "promoted", "broken off"}]
      OBVIOUS
    <2>5. source \in [Promoters -> Families]
      BY <2>1
    <2>6. promotions \in Nat /\ troubles \in Nat /\ overlapped \in BOOLEAN
      OBVIOUS
    <2> QED BY <2>2, <2>3, <2>4, <2>5, <2>6 DEF PromotionTypeOK
  <1>2. \A i \in Files : canonical[i] \notin Families
    BY DEF Missing
  <1>3. Promoting = {}
    BY DEF Promoting, Working
  <1> QED BY <1>1, <1>2, <1>3 DEF PromotionInv, RootIsOfOneRun, PromoterOwnsRoot

\* A target found free holds nothing of another run: it is empty, or its SHA256SUMS.txt is
\* of this run, and with it every file that is of a run at all.
LEMMA FreeTargetIsOwn ==
  ASSUME PromotionTypeOK, RootIsOfOneRun, ~overlapped, NEW f \in Families, TargetIsFree(f),
         NEW i \in Files, canonical[i] \in Families
  PROVE  canonical[i] = f
  <1>1. 1 \in Files
    BY PromotionAssumption DEF Files
  <1>2. CASE \A j \in Files : canonical[j] = Missing
    BY <1>2, PromotionAssumption DEF Missing
  <1>3. CASE canonical[1] = f
    BY <1>1, <1>3 DEF RootIsOfOneRun
  <1> QED BY <1>2, <1>3 DEF TargetIsFree

\* The bounds only count.
LEMMA CountersStep ==
  ASSUME promotions \in Nat, troubles \in Nat, [PromotionNext]_promotionVars
  PROVE  promotions' \in Nat /\ troubles' \in Nat
  <1> USE DEF Examine, OpenMember, FillMember, VerifyRoot, BreakOff, EditFile, Retire, Troubled
  <1>1. \/ promotions' = promotions /\ troubles' = troubles
        \/ promotions' = promotions + 1 /\ troubles' = troubles
        \/ promotions' = promotions /\ troubles' = troubles + 1
    BY Zenon DEF PromotionNext, PromoterStep, promotionVars
  <1> HIDE DEF Examine, OpenMember, FillMember, VerifyRoot, BreakOff, EditFile, Retire, Troubled
  <1> QED BY ONLY <1>1, promotions \in Nat, troubles \in Nat

\* A cursor that has not reached the last file can move on.
LEMMA NextFile == \A i \in Files : i # NumMembers => i + 1 \in Files
  BY PromotionAssumption DEF Files

\* Types are kept by every step.
LEMMA TypeStep == PromotionTypeOK /\ [PromotionNext]_promotionVars => PromotionTypeOK'
  <1> SUFFICES ASSUME PromotionTypeOK, [PromotionNext]_promotionVars PROVE PromotionTypeOK'
    OBVIOUS
  <1>0. promotions' \in Nat /\ troubles' \in Nat
    BY CountersStep DEF PromotionTypeOK
  <1>a. stage' \in [Promoters -> Working \cup {"idle", "refused", "promoted", "broken off"}]
    BY DEF PromotionTypeOK, PromotionNext, PromoterStep, promotionVars, Working, Reaches,
           Examine, OpenMember, FillMember, VerifyRoot, BreakOff, EditFile, Retire
  <1>1. ASSUME NEW p \in Promoters, NEW f \in Families, Examine(p, f) PROVE PromotionTypeOK'
    <2>1. overlapped' \in BOOLEAN
      BY <1>1, Zenon DEF Examine
    <2>2. source' \in [Promoters -> Families] /\ UNCHANGED canonical
      BY <1>1 DEF Examine, PromotionTypeOK
    <2>3. cursor' \in [Promoters -> Files]
      <3>1. 1 \in Files
        BY PromotionAssumption DEF Files
      <3> QED BY <1>1, <3>1 DEF Examine, PromotionTypeOK
    <2> QED BY <1>0, <1>a, <2>1, <2>2, <2>3 DEF PromotionTypeOK, Files
  <1>2. ASSUME NEW p \in Promoters, OpenMember(p) PROVE PromotionTypeOK'
    BY <1>0, <1>a, <1>2 DEF OpenMember, PromotionTypeOK, Files
  <1>3. ASSUME NEW p \in Promoters, FillMember(p) PROVE PromotionTypeOK'
    <2>1. cursor' \in [Promoters -> Files]
      <3>1. cursor \in [Promoters -> Files] /\ cursor[p] \in Files
        BY DEF PromotionTypeOK
      <3>2. CASE cursor[p] = NumMembers
        BY <1>3, <3>1, <3>2 DEF FillMember
      <3>3. CASE cursor[p] # NumMembers
        BY <1>3, <3>1, <3>3, NextFile, cursor[p] + 1 \in Files DEF FillMember
      <3> QED BY <3>2, <3>3
    <2>2. canonical' \in [Files -> Families \cup {Missing, Emptied, Edited}]
      BY <1>3 DEF FillMember, PromotionTypeOK
    <2>3. UNCHANGED <<source, overlapped>>
      BY <1>3 DEF FillMember
    <2> QED BY <1>0, <1>a, <2>1, <2>2, <2>3 DEF PromotionTypeOK, Files
  <1>4. ASSUME NEW p \in Promoters, VerifyRoot(p) \/ BreakOff(p) PROVE PromotionTypeOK'
    BY <1>0, <1>a, <1>4 DEF VerifyRoot, BreakOff, PromotionTypeOK, Files
  <1>5. ASSUME NEW i \in Files, EditFile(i) PROVE PromotionTypeOK'
    BY <1>0, <1>a, <1>5 DEF EditFile, PromotionTypeOK, Files
  <1>6. CASE Retire
    BY <1>0, <1>a, <1>6 DEF Retire, PromotionTypeOK, Files
  <1>7. CASE UNCHANGED promotionVars
    BY <1>0, <1>a, <1>7 DEF promotionVars, PromotionTypeOK, Files
  <1> QED BY <1>1, <1>2, <1>3, <1>4, <1>5, <1>6, <1>7 DEF PromotionNext, PromoterStep

\* And so is the rest of the invariant.
LEMMA InvStep == PromotionInv /\ [PromotionNext]_promotionVars => PromotionInv'
  <1> SUFFICES ASSUME PromotionInv, [PromotionNext]_promotionVars
               PROVE  (RootIsOfOneRun /\ PromoterOwnsRoot)'
    BY TypeStep DEF PromotionInv
  <1> USE PromotionAssumption
  <1>0. PromotionTypeOK /\ RootIsOfOneRun /\ PromoterOwnsRoot
    BY DEF PromotionInv
  <1>1. ASSUME NEW p \in Promoters, NEW f \in Families, Examine(p, f)
        PROVE  (RootIsOfOneRun /\ PromoterOwnsRoot)'
    <2>1. UNCHANGED canonical /\ (~overlapped' => ~overlapped /\ Promoting = {})
      BY <1>1 DEF Examine
    <2>2. RootIsOfOneRun'
      BY <1>0, <2>1 DEF RootIsOfOneRun, Files
    <2>3. ASSUME ~overlapped', NEW q \in Promoting'
          PROVE  q = p /\ TargetIsFree(f) /\ source'[q] = f
      BY <1>0, <1>1, <2>1, <2>3 DEF Examine, Reaches, Promoting, Working, PromotionTypeOK
    <2>4. PromoterOwnsRoot'
      BY <1>0, <2>1, <2>3, FreeTargetIsOwn DEF PromoterOwnsRoot, Files
    <2> QED BY <2>2, <2>4
  <1>2. ASSUME NEW p \in Promoters, OpenMember(p)
        PROVE  (RootIsOfOneRun /\ PromoterOwnsRoot)'
    <2>1. /\ UNCHANGED <<overlapped, source>> /\ Promoting' = Promoting
          /\ \A i \in Files : canonical'[i] \in Families => canonical'[i] = canonical[i]
      BY <1>0, <1>2 DEF OpenMember, Reaches, Promoting, Working, PromotionTypeOK, Files
    <2> QED BY <1>0, <2>1 DEF RootIsOfOneRun, PromoterOwnsRoot, Files
  <1>3. ASSUME NEW p \in Promoters, FillMember(p)
        PROVE  (RootIsOfOneRun /\ PromoterOwnsRoot)'
    <2>1. /\ UNCHANGED <<overlapped, source>> /\ Promoting' = Promoting /\ p \in Promoting
          /\ \A i \in Files : canonical'[i] \in {canonical[i], source[p]}
      BY <1>0, <1>3 DEF FillMember, Reaches, Promoting, Working, PromotionTypeOK, Files
    <2>2. ~overlapped => \A i \in Files : canonical'[i] \in Families => canonical'[i] = source[p]
      BY <1>0, <2>1 DEF PromoterOwnsRoot, PromotionTypeOK
    <2> QED BY <1>0, <2>1, <2>2 DEF RootIsOfOneRun, PromoterOwnsRoot, Files
  <1>4. ASSUME NEW p \in Promoters, VerifyRoot(p) \/ BreakOff(p)
        PROVE  (RootIsOfOneRun /\ PromoterOwnsRoot)'
    <2>1. UNCHANGED <<canonical, overlapped, source>> /\ Promoting' \subseteq Promoting
      BY <1>0, <1>4 DEF VerifyRoot, BreakOff, Reaches, Promoting, Working, PromotionTypeOK
    <2> QED BY <1>0, <2>1 DEF RootIsOfOneRun, PromoterOwnsRoot, Files
  <1>5. ASSUME NEW i \in Files, EditFile(i) PROVE (RootIsOfOneRun /\ PromoterOwnsRoot)'
    <2>1. /\ UNCHANGED <<overlapped, source>> /\ Promoting' = Promoting
          /\ \A j \in Files : canonical'[j] \in Families => canonical'[j] = canonical[j]
      BY <1>0, <1>5 DEF EditFile, Promoting, PromotionTypeOK
    <2> QED BY <1>0, <2>1 DEF RootIsOfOneRun, PromoterOwnsRoot, Files
  <1>6. CASE Retire
    <2>1. Promoting' = {} /\ \A i \in Files : canonical'[i] \notin Families
      BY <1>6 DEF Retire, Promoting, Files, Missing
    <2> QED BY <2>1 DEF RootIsOfOneRun, PromoterOwnsRoot, Files
  <1>7. CASE UNCHANGED promotionVars
    BY <1>0, <1>7 DEF promotionVars, RootIsOfOneRun, PromoterOwnsRoot, Promoting, Files
  <1> QED BY <1>1, <1>2, <1>3, <1>4, <1>5, <1>6, <1>7 DEF PromotionNext, PromoterStep

\* promote: whatever promotions of whatever workspaces break off, the canonical root never
\* holds files of two runs unless two promotions ran at the same time.
THEOREM RootIsNeverMixed == PromotionSpec => []RootIsOfOneRun
  <1>1. PromotionInv => RootIsOfOneRun
    BY DEF PromotionInv
  <1> QED BY InvInit, InvStep, <1>1, PTL DEF PromotionSpec

-----------------------------------------------------------------------------
(* EvidencePublication: what an accepted family rests on                        *)

\* The journal of an identity has this number for row i of the plan.
OnRecord(id, i, p) == \E n \in DOMAIN journal[id] : journal[id][n] = [key |-> i, payload |-> p]

\* A sequence of numbers, each on record as long as no line of the journal is cut short.
RowsOnRecord(id, rows, n) ==
  /\ rows \in Seq(Nat) /\ Len(rows) = n
  /\ id \notin broken => \A i \in 1 .. n : OnRecord(id, i, rows[i])

\* Where an artifact may be, it is a whole one.
SoundArtifact(c) ==
  c.is = "artifact" => c.id \in Identities /\ RowsOnRecord(c.id, c.rows, NumRows)

JournalRows == [key : Nat, payload : Nat]

\* Types, as far as the artifacts depend on them.
EvidenceTypes ==
  /\ journal \in [Identities -> Seq(JournalRows)] /\ ident \in [Harnesses -> Identities]
  /\ DOMAIN step = Harnesses /\ DOMAIN known = Harnesses /\ DOMAIN draft = Harnesses
  /\ DOMAIN held = Harnesses /\ stamp \in [Harnesses -> Nat] /\ starts \in Nat
  /\ DOMAIN work = Identities
  /\ \A id \in Identities : DOMAIN work[id] = Members \cup {"manifest"}
  /\ staging # NoDir => DOMAIN staging = Members \cup {"sums"}
  /\ DOMAIN part = Family /\ DOMAIN public = Family

\* What a process has in memory while it collects.
KnownOnRecord(h) ==
  /\ known[h] \in Seq(JournalRows)
  /\ ident[h] \notin broken =>
       \A n \in DOMAIN known[h] : OnRecord(ident[h], known[h][n].key, known[h][n].payload)

Collected ==
  \A h \in Harnesses :
    /\ \A i \in 1 .. NumRows : step[h] = <<"row", i>> =>
         KnownOnRecord(h) /\ RowsOnRecord(ident[h], draft[h], i - 1)
    /\ step[h] \in {<<"open", "artifact">>, <<"fill", "artifact">>} =>
         RowsOnRecord(ident[h], draft[h], NumRows)

\* The copies of the artifact, on their way from the workspace to the root.
CopiesAreSound ==
  /\ \A id \in Identities : SoundArtifact(work[id]["artifact"])
  /\ staging # NoDir => SoundArtifact(staging["artifact"])
  /\ SoundArtifact(part["artifact"]) /\ SoundArtifact(public["artifact"])

EvidenceInv == EvidenceTypes /\ Collected /\ CopiesAreSound

\* Journals only grow, and a line that was cut short stays so.
JournalsGrow ==
  /\ journal' \in [Identities -> Seq(JournalRows)] /\ broken \subseteq broken'
  /\ \A id \in Identities :
       /\ Len(journal[id]) <= Len(journal'[id])
       /\ \A n \in 1 .. Len(journal[id]) : journal'[id][n] = journal[id][n]

\* What is on record stays there.
LEMMA RecordStays ==
  ASSUME EvidenceTypes, JournalsGrow, NEW id \in Identities
  PROVE  /\ \A i, p : OnRecord(id, i, p) => OnRecord(id, i, p)'
         /\ \A rows, n : RowsOnRecord(id, rows, n) => RowsOnRecord(id, rows, n)'
  <1>1. \A i, p : OnRecord(id, i, p) => OnRecord(id, i, p)'
    <2> SUFFICES ASSUME NEW i, NEW p, NEW n \in DOMAIN journal[id],
                        journal[id][n] = [key |-> i, payload |-> p]
                 PROVE  n \in DOMAIN journal'[id] /\ journal'[id][n] = [key |-> i, payload |-> p]
      BY DEF OnRecord
    <2>1. /\ DOMAIN journal[id] = 1 .. Len(journal[id]) /\ Len(journal[id]) \in Nat
          /\ DOMAIN journal'[id] = 1 .. Len(journal'[id]) /\ Len(journal'[id]) \in Nat
      BY DEF EvidenceTypes, JournalsGrow
    <2> QED BY <2>1 DEF JournalsGrow
  <1>2. broken \subseteq broken'
    BY DEF JournalsGrow
  <1> QED BY <1>1, <1>2 DEF RowsOnRecord

\* And an artifact stays sound.
LEMMA ArtifactStaysSound ==
  ASSUME EvidenceTypes, JournalsGrow, NEW c, SoundArtifact(c)
  PROVE  SoundArtifact(c)'
  BY RecordStays DEF SoundArtifact

\* A row that is appended to a journal is on record behind the others.
LEMMA RowIsAppended ==
  ASSUME EvidenceTypes, NEW id \in Identities, NEW row \in JournalRows,
         journal' = [journal EXCEPT ![id] = Append(@, row)], broken' = broken
  PROVE  JournalsGrow /\ OnRecord(id, row.key, row.payload)'
  <1>1. journal[id] \in Seq(JournalRows) /\ journal'[id] = Append(journal[id], row)
    BY DEF EvidenceTypes
  <1>2. /\ journal'[id] \in Seq(JournalRows) /\ Len(journal'[id]) = Len(journal[id]) + 1
        /\ Len(journal[id]) \in Nat /\ DOMAIN journal'[id] = 1 .. Len(journal[id]) + 1
        /\ \A n \in 1 .. Len(journal[id]) : journal'[id][n] = journal[id][n]
        /\ journal'[id][Len(journal[id]) + 1] = row
    BY <1>1
  <1>3. \A other \in Identities \ {id} :
          journal'[other] = journal[other] /\ Len(journal[other]) \in Nat
    BY DEF EvidenceTypes
  <1>4. journal' \in [Identities -> Seq(JournalRows)]
    BY <1>2 DEF EvidenceTypes
  <1>5. JournalsGrow
    BY <1>2, <1>3, <1>4 DEF JournalsGrow
  <1>6. row = [key |-> row.key, payload |-> row.payload]
    BY DEF JournalRows
  <1>7. Len(journal[id]) + 1 \in DOMAIN journal'[id]
    BY <1>2
  <1> QED BY <1>2, <1>5, <1>6, <1>7 DEF OnRecord

\* What a row of the plan puts on record: the key it has, and who measured it.
LEMMA RowIsTyped ==
  ASSUME EvidenceTypes, NEW h \in Harnesses, NEW i \in 1 .. NumRows
  PROVE  [key |-> i, payload |-> stamp[h]] \in JournalRows
  BY EvidenceAssumption DEF EvidenceTypes, JournalRows

\* Only a measurement appends to a journal.
LEMMA JournalStep == EvidenceTypes /\ [EvidenceNext]_evidenceVars => JournalsGrow
  <1> SUFFICES ASSUME EvidenceTypes, [EvidenceNext]_evidenceVars PROVE JournalsGrow
    OBVIOUS
  <1>0. \A id \in Identities : Len(journal[id]) \in Nat
    BY DEF EvidenceTypes
  <1>1. ASSUME journal' = journal, broken \subseteq broken' PROVE JournalsGrow
    BY <1>0, <1>1 DEF JournalsGrow, EvidenceTypes
  <1>2. ASSUME NEW h \in Harnesses, NEW i \in 1 .. NumRows, MeasureRow(h, i) PROVE JournalsGrow
    <2>1. CASE ident[h] \in broken
      BY <1>1, <1>2, <2>1 DEF MeasureRow
    <2>2. CASE ident[h] \notin broken
      <3>1. ident[h] \in Identities
        BY DEF EvidenceTypes
      <3>2. /\ journal' = [journal EXCEPT ![ident[h]] = Append(@, [key |-> i, payload |-> stamp[h]])]
            /\ broken' = broken
        BY <1>2, <2>2 DEF MeasureRow
      <3> QED BY <3>1, <3>2, RowIsTyped, RowIsAppended
    <2> QED BY <2>1, <2>2
  <1>3. ASSUME NEW h \in Harnesses, NEW i \in 1 .. NumRows, AppendFails(h, i) PROVE JournalsGrow
    BY <1>1, <1>3 DEF AppendFails
  <1>4. ASSUME NEW h \in Harnesses, NEW i \in 1 .. NumRows, ReuseRow(h, i) PROVE JournalsGrow
    BY <1>1, <1>4 DEF ReuseRow
  <1>5. ASSUME NEW h \in Harnesses, NEW id \in Identities, Start(h, id) PROVE JournalsGrow
    BY <1>1, <1>5 DEF Start
  <1>6. ASSUME NEW h \in Harnesses, PublishStep(h) \/ Kill(h) PROVE JournalsGrow
    BY <1>1, <1>6 DEF PublishStep, Kill, Gate, HashMembers, WriteManifest, FillFile, ClearStaging,
                      MakeStaging, StageMember, Stage, StageSums, SweepStaging, CopyTmp, Swap
  <1>7. ASSUME NEW h \in Harnesses, WriteConfig(h) \/ LoadJournal(h) \/ WriteArtifact(h)
               \/ \E f \in Members \cup {"manifest"} : OpenFile(h, f)
        PROVE  JournalsGrow
    BY <1>1, <1>7 DEF WriteConfig, WriteArtifact, FillFile, LoadJournal, OpenFile
  <1>8. CASE UNCHANGED evidenceVars
    BY <1>1, <1>8 DEF evidenceVars
  <1> QED BY <1>2, <1>3, <1>4, <1>5, <1>6, <1>7, <1>8 DEF EvidenceNext, MeasureStep

\* Types are kept by every step.
LEMMA EvidenceTypesStep == EvidenceTypes /\ [EvidenceNext]_evidenceVars => EvidenceTypes'
  <1> SUFFICES ASSUME EvidenceTypes, [EvidenceNext]_evidenceVars PROVE EvidenceTypes'
    OBVIOUS
  <1>1. journal' \in [Identities -> Seq(JournalRows)]
    BY JournalStep DEF JournalsGrow
  <1>2. ASSUME NEW h \in Harnesses, NEW id \in Identities, Start(h, id) PROVE EvidenceTypes'
    BY <1>1, <1>2 DEF EvidenceTypes, Start, folders
  <1>3. ASSUME NEW h \in Harnesses, NEW f \in Members \cup {"manifest"}, OpenFile(h, f)
        PROVE  EvidenceTypes'
    BY <1>1, <1>3 DEF EvidenceTypes, OpenFile, Moves, folders, memory, counters
  <1>4. ASSUME NEW h \in Harnesses, WriteConfig(h) \/ WriteArtifact(h) \/ WriteManifest(h)
        PROVE  EvidenceTypes'
    <2>1. PICK f, content, to :
            f \in Members \cup {"manifest"} /\ FillFile(h, f, content, to)
      BY <1>4 DEF WriteConfig, WriteArtifact, WriteManifest, Members
    <2> QED BY <1>1, <2>1 DEF EvidenceTypes, FillFile, Moves, folders, memory, counters
  <1>5. ASSUME NEW h \in Harnesses, LoadJournal(h) PROVE EvidenceTypes'
    BY <1>1, <1>5 DEF EvidenceTypes, LoadJournal, MovesIf, Moves, folders, counters
  <1>6. ASSUME NEW h \in Harnesses, NEW i \in 1 .. NumRows,
               ReuseRow(h, i) \/ MeasureRow(h, i) \/ AppendFails(h, i)
        PROVE  EvidenceTypes'
    BY <1>1, <1>6 DEF EvidenceTypes, ReuseRow, MeasureRow, AppendFails, Moves, folders, memory, counters
  <1>7. ASSUME NEW h \in Harnesses, Gate(h) \/ HashMembers(h) PROVE EvidenceTypes'
    BY <1>1, <1>7 DEF EvidenceTypes, Gate, HashMembers, MovesIf, Moves, folders, memory, counters
  <1>8. ASSUME NEW h \in Harnesses,
               ClearStaging(h) \/ MakeStaging(h) \/ StageMember(h) \/ StageSums(h) \/ SweepStaging(h)
        PROVE  EvidenceTypes'
    <2>1. UNCHANGED <<work, part, public, ident, known, draft, held, stamp, starts>>
      BY <1>8 DEF ClearStaging, MakeStaging, StageMember, Stage, StageSums, SweepStaging, memory, counters
    <2>2. DOMAIN step' = Harnesses
      BY <1>8 DEF EvidenceTypes, ClearStaging, MakeStaging, StageMember, Stage, StageSums, SweepStaging,
                  MovesIf, Moves
    <2>3. staging' # NoDir => DOMAIN staging' = Members \cup {"sums"}
      BY <1>8 DEF EvidenceTypes, ClearStaging, MakeStaging, StageMember, Stage, StageSums, SweepStaging
    <2> QED BY <1>1, <2>1, <2>2, <2>3 DEF EvidenceTypes
  <1>9. ASSUME NEW h \in Harnesses, NEW f \in Family, CopyTmp(h, f) \/ Swap(h, f)
        PROVE  EvidenceTypes'
    <2>1. UNCHANGED <<work, staging, ident, known, draft, held, stamp, starts>>
      BY <1>9 DEF CopyTmp, Swap, memory, counters
    <2>2. DOMAIN step' = Harnesses
      BY <1>9 DEF EvidenceTypes, CopyTmp, Swap, MovesIf, Moves
    <2>3. DOMAIN part' = Family /\ DOMAIN public' = Family
      BY <1>9 DEF EvidenceTypes, CopyTmp, Swap
    <2> QED BY <1>1, <2>1, <2>2, <2>3 DEF EvidenceTypes
  <1>10. ASSUME NEW h \in Harnesses, Kill(h) PROVE EvidenceTypes'
    BY <1>1, <1>10 DEF EvidenceTypes, Kill, memory
  <1>11. CASE UNCHANGED evidenceVars
    BY <1>1, <1>11 DEF EvidenceTypes, evidenceVars
  <1> QED BY <1>2, <1>3, <1>4, <1>5, <1>6, <1>7, <1>8, <1>9, <1>10, <1>11
          DEF EvidenceNext, MeasureStep, PublishStep

\* An artifact is written from what has been collected, and copied from there on.
LEMMA CopiesStep == EvidenceInv /\ [EvidenceNext]_evidenceVars => CopiesAreSound'
  <1> SUFFICES ASSUME EvidenceInv, [EvidenceNext]_evidenceVars PROVE CopiesAreSound'
    OBVIOUS
  <1>0. EvidenceTypes /\ Collected /\ CopiesAreSound /\ JournalsGrow
    BY JournalStep DEF EvidenceInv
  <1>a. \A c : SoundArtifact(c) => SoundArtifact(c)'
    BY <1>0, ArtifactStaysSound
  <1>b. SoundArtifact(Absent)' /\ SoundArtifact(Torn)'
    BY DEF SoundArtifact, Absent, Torn
  <1>1. ASSUME UNCHANGED folders,
               \A id \in Identities : work'[id]["artifact"] = work[id]["artifact"]
                                      \/ SoundArtifact(work[id]["artifact"])'
        PROVE  CopiesAreSound'
    BY <1>0, <1>1, <1>a DEF CopiesAreSound, folders
  <1>2. ASSUME UNCHANGED <<folders, work>> PROVE CopiesAreSound'
    BY <1>1, <1>2
  <1>3. ASSUME NEW h \in Harnesses, NEW f \in Members \cup {"manifest"}, OpenFile(h, f)
        PROVE  CopiesAreSound'
    <2>1. \A id \in Identities : work'[id]["artifact"] \in {work[id]["artifact"], Torn}
      BY <1>0, <1>3 DEF OpenFile, EvidenceTypes, Members
    <2> QED BY <1>1, <1>3, <1>b, <2>1 DEF OpenFile
  <1>4. ASSUME NEW h \in Harnesses, WriteConfig(h) \/ WriteManifest(h) PROVE CopiesAreSound'
    <2>1. PICK f, content, to :
            f \in {"config", "manifest"} /\ FillFile(h, f, content, to)
      BY <1>4 DEF WriteConfig, WriteManifest
    <2>2. \A id \in Identities : work'[id]["artifact"] = work[id]["artifact"]
      BY <1>0, <2>1 DEF FillFile, EvidenceTypes, Members
    <2> QED BY <1>1, <2>1, <2>2 DEF FillFile
  <1>5. ASSUME NEW h \in Harnesses, WriteArtifact(h) PROVE CopiesAreSound'
    <2> PICK c : c = [is |-> "artifact", id |-> ident[h], rows |-> draft[h], by |-> stamp[h]]
      OBVIOUS
    <2>1. /\ step[h] = <<"fill", "artifact">> /\ UNCHANGED folders
          /\ work' = [work EXCEPT ![ident[h]]["artifact"] = c]
      BY <1>5 DEF WriteArtifact, FillFile, Moves
    <2>2. c.is = "artifact" /\ c.id = ident[h] /\ c.rows = draft[h]
      OBVIOUS
    <2>3. ident[h] \in Identities
      BY <1>0 DEF EvidenceTypes
    <2>4. RowsOnRecord(ident[h], draft[h], NumRows)
      BY <1>0, <2>1 DEF Collected
    <2>5. SoundArtifact(c)
      BY <2>2, <2>3, <2>4 DEF SoundArtifact
    <2>6. \A id \in Identities : work'[id]["artifact"] \in {work[id]["artifact"], c}
      BY <1>0, <2>1, <2>3 DEF EvidenceTypes, Members
    <2>7. SoundArtifact(c)'
      BY <1>a, <2>5
    <2> QED BY <1>1, <2>1, <2>6, <2>7
  <1>6. ASSUME NEW h \in Harnesses, NEW f \in Members, NEW to,
               Stage(h, f, work[ident[h]][f], to)
        PROVE  CopiesAreSound'
    <2>1. staging' # NoDir => staging # NoDir /\
            staging'["artifact"] \in {staging["artifact"], work[ident[h]]["artifact"]}
      BY <1>0, <1>6 DEF Stage, EvidenceTypes, Members
    <2>2. UNCHANGED <<work, part, public>>
      BY <1>6 DEF Stage
    <2>3. ident[h] \in Identities
      BY <1>0 DEF EvidenceTypes
    <2> QED BY <1>0, <1>a, <2>1, <2>2, <2>3 DEF CopiesAreSound
  <1>7. ASSUME NEW h \in Harnesses,
               ClearStaging(h) \/ MakeStaging(h) \/ StageSums(h) \/ SweepStaging(h)
        PROVE  CopiesAreSound'
    <2>1. UNCHANGED <<work, part, public>>
      BY <1>7 DEF ClearStaging, MakeStaging, StageSums, SweepStaging
    <2>2. staging' # NoDir =>
            \/ staging # NoDir /\ staging'["artifact"] = staging["artifact"]
            \/ staging'["artifact"] = Absent
      BY <1>0, <1>7 DEF ClearStaging, MakeStaging, StageSums, SweepStaging, EvidenceTypes, Members
    <2> QED BY <1>0, <1>a, <1>b, <2>1, <2>2 DEF CopiesAreSound
  <1>8. ASSUME NEW h \in Harnesses, NEW f \in Family, CopyTmp(h, f) \/ Swap(h, f) \/ Kill(h)
        PROVE  CopiesAreSound'
    <2>1. UNCHANGED <<work, staging>>
      BY <1>8 DEF CopyTmp, Swap, Kill
    <2>2. \/ part'["artifact"] \in {part["artifact"], Absent, Torn}
          \/ staging # NoDir /\ part'["artifact"] = staging["artifact"]
      BY <1>0, <1>8 DEF CopyTmp, Swap, Kill, EvidenceTypes, Family, Members
    <2>3. public'["artifact"] \in {public["artifact"], part["artifact"]}
      BY <1>0, <1>8 DEF CopyTmp, Swap, Kill, EvidenceTypes, Family, Members
    <2> QED BY <1>0, <1>a, <1>b, <2>1, <2>2, <2>3 DEF CopiesAreSound
  <1>9. ASSUME NEW h \in Harnesses, NEW i \in 1 .. NumRows,
               ReuseRow(h, i) \/ MeasureRow(h, i) \/ AppendFails(h, i)
        PROVE  CopiesAreSound'
    BY <1>2, <1>9 DEF ReuseRow, MeasureRow, AppendFails
  <1>10. ASSUME NEW h \in Harnesses, NEW id \in Identities, Start(h, id) PROVE CopiesAreSound'
    BY <1>2, <1>10 DEF Start
  <1>11. ASSUME NEW h \in Harnesses, LoadJournal(h) \/ Gate(h) \/ HashMembers(h)
         PROVE  CopiesAreSound'
    BY <1>2, <1>11 DEF LoadJournal, Gate, HashMembers
  <1>12. CASE UNCHANGED evidenceVars
    BY <1>2, <1>12 DEF evidenceVars, folders
  <1>13. Family # {}
    BY DEF Family
  <1> QED BY <1>3, <1>4, <1>5, <1>6, <1>7, <1>8, <1>9, <1>10, <1>11, <1>12, <1>13
          DEF EvidenceNext, MeasureStep, PublishStep, StageMember, Members

\* A set of numbers that is not empty has a first one.
LEMMA FirstIsOfTheSet ==
  ASSUME NEW S \in SUBSET Nat, S # {}
  PROVE  First(S) \in S
  <1> DEFINE less == OpToRel(<, Nat)
  <1>1. IsWellFoundedOn(less, Nat)
    BY NatLessThanWellFounded
  <1>2. \A m, n \in Nat : <<m, n>> \in less <=> m < n
    BY DEF OpToRel
  <1> HIDE DEF less
  <1>3. PICK n \in S : \A m \in S : ~ (<<m, n>> \in less)
    BY <1>1, WFMin
  <1>4. \A m \in S : ~ (m < n)
    BY <1>2, <1>3
  <1>5. \A m \in S : n <= m
    BY <1>4
  <1> QED BY <1>5 DEF First

\* The places of a process at which Collected speaks of its memory.
CollectingPlaces ==
  {<<"row", i>> : i \in 1 .. NumRows} \cup {<<"open", "artifact">>, <<"fill", "artifact">>}

\* A row more is collected.
LEMMA RowIsCollected ==
  ASSUME NEW id, NEW rows, NEW i \in 1 .. NumRows, NEW p \in Nat,
         RowsOnRecord(id, rows, i - 1), id \notin broken => OnRecord(id, i, p)
  PROVE  RowsOnRecord(id, Append(rows, p), i)
  <1>1. rows \in Seq(Nat) /\ Len(rows) = i - 1 /\ i \in Nat
    BY EvidenceAssumption DEF RowsOnRecord
  <1>2. /\ Append(rows, p) \in Seq(Nat) /\ Len(Append(rows, p)) = i
        /\ \A k \in 1 .. i - 1 : Append(rows, p)[k] = rows[k]
        /\ Append(rows, p)[i] = p
    BY <1>1
  <1>3. ASSUME id \notin broken, NEW k \in 1 .. i PROVE OnRecord(id, k, Append(rows, p)[k])
    <2>1. CASE k = i
      BY <1>2, <1>3, <2>1
    <2>2. CASE k # i
      <3>1. k \in 1 .. i - 1
        BY <1>1, <2>2
      <3> QED BY <1>2, <1>3, <3>1 DEF RowsOnRecord
    <2> QED BY <2>1, <2>2
  <1> QED BY <1>2, <1>3 DEF RowsOnRecord

\* After a row there is the next, or the artifact.
LEMMA NextRow ==
  ASSUME NEW i \in 1 .. NumRows
  PROVE  /\ AfterRow(i) \in CollectingPlaces
         /\ \A j \in 1 .. NumRows : AfterRow(i) = <<"row", j>> => j = i + 1 /\ i # NumRows
         /\ AfterRow(i) \in {<<"open", "artifact">>, <<"fill", "artifact">>} => i = NumRows
         /\ i # NumRows => i + 1 \in 1 .. NumRows
  BY EvidenceAssumption DEF AfterRow, CollectingPlaces

\* What Collected says of one process.
CollectedBy(h) ==
  /\ \A i \in 1 .. NumRows : step[h] = <<"row", i>> =>
       KnownOnRecord(h) /\ RowsOnRecord(ident[h], draft[h], i - 1)
  /\ step[h] \in {<<"open", "artifact">>, <<"fill", "artifact">>} =>
       RowsOnRecord(ident[h], draft[h], NumRows)

\* What others do leaves it on record, and so do steps to another part of the program.
LEMMA OthersCollect ==
  ASSUME EvidenceTypes, JournalsGrow, NEW h \in Harnesses, CollectedBy(h),
         \/ step'[h] = step[h] /\ ident'[h] = ident[h] /\ known'[h] = known[h] /\ draft'[h] = draft[h]
         \/ step'[h] \notin CollectingPlaces
  PROVE  CollectedBy(h)'
  <1>1. CASE step'[h] \notin CollectingPlaces
    BY <1>1 DEF CollectedBy, CollectingPlaces
  <1>2. CASE /\ step'[h] = step[h] /\ ident'[h] = ident[h] /\ known'[h] = known[h]
             /\ draft'[h] = draft[h]
    <2>1. ident[h] \in Identities
      BY DEF EvidenceTypes
    <2>2. KnownOnRecord(h) => KnownOnRecord(h)'
      BY <1>2, <2>1, RecordStays DEF KnownOnRecord, JournalsGrow
    <2>3. \A n : RowsOnRecord(ident[h], draft[h], n) => RowsOnRecord(ident[h], draft[h], n)'
      BY <1>2, <2>1, RecordStays
    <2> QED BY <1>2, <2>2, <2>3 DEF CollectedBy
  <1> QED BY <1>1, <1>2

\* A process that has its journal collects row by row what is on record there.
LEMMA CollectedStep == EvidenceInv /\ [EvidenceNext]_evidenceVars => Collected'
  <1> SUFFICES ASSUME EvidenceInv, [EvidenceNext]_evidenceVars, NEW h \in Harnesses
               PROVE  CollectedBy(h)'
    BY DEF Collected, CollectedBy
  <1>0. EvidenceTypes /\ JournalsGrow /\ CollectedBy(h) /\ EvidenceTypes'
    BY JournalStep, EvidenceTypesStep DEF EvidenceInv, Collected, CollectedBy
  <1>a. ident[h] \in Identities
    BY <1>0 DEF EvidenceTypes
  <1>1. ASSUME NEW g \in Harnesses, g # h,
               (\E id \in Identities : Start(g, id)) \/ MeasureStep(g) \/ PublishStep(g) \/ Kill(g)
        PROVE  CollectedBy(h)'
    <2>1. step'[h] = step[h] /\ ident'[h] = ident[h] /\ known'[h] = known[h] /\ draft'[h] = draft[h]
      <3>1. CASE (\E id \in Identities : Start(g, id)) \/ Kill(g)
        BY <1>0, <1>1, <3>1 DEF EvidenceTypes, Start, Kill, memory
      <3>2. CASE MeasureStep(g)
        BY <1>0, <1>1, <3>2
           DEF EvidenceTypes, MeasureStep, OpenFile, WriteConfig, WriteArtifact, FillFile, LoadJournal,
               ReuseRow, MeasureRow, AppendFails, MovesIf, Moves, memory
      <3>3. CASE PublishStep(g)
        BY <1>0, <1>1, <3>3
           DEF EvidenceTypes, PublishStep, Gate, HashMembers, WriteManifest, FillFile, ClearStaging,
               MakeStaging, StageMember, Stage, StageSums, SweepStaging, CopyTmp, Swap, MovesIf, Moves,
               memory
      <3> QED BY <1>1, <3>1, <3>2, <3>3
    <2> QED BY <1>0, <2>1, OthersCollect
  <1>2. ASSUME step'[h] \notin CollectingPlaces PROVE CollectedBy(h)'
    BY <1>0, <1>2, OthersCollect
  <1>3. ASSUME NEW id \in Identities, Start(h, id) PROVE CollectedBy(h)'
    <2>1. step'[h] = <<"open", "config">>
      BY <1>0, <1>3 DEF EvidenceTypes, Start
    <2> QED BY <1>2, <2>1 DEF CollectingPlaces
  <1>4. ASSUME PublishStep(h) \/ Kill(h) PROVE CollectedBy(h)'
    <2>1. step'[h] \notin CollectingPlaces
      <3>1. CASE Gate(h) \/ HashMembers(h) \/ ClearStaging(h) \/ MakeStaging(h) \/ SweepStaging(h) \/ Kill(h)
        <4>1. step'[h] \in {<<"hash">>, <<"open", "manifest">>, <<"mkdir">>, <<"stage", "artifact">>,
                            <<"published">>, <<"raised">>, <<"killed">>}
          BY <1>0, <3>1 DEF EvidenceTypes, Gate, HashMembers, ClearStaging, MakeStaging, SweepStaging,
                            Kill, MovesIf, Moves
        <4> QED BY <4>1 DEF CollectingPlaces
      <3>2. CASE WriteManifest(h) \/ StageMember(h) \/ StageSums(h)
        <4>1. step'[h] \in {<<"clear">>, <<"stage", "config">>, <<"index">>, <<"copy", "artifact">>,
                            <<"raised">>}
          BY <1>0, <3>2 DEF EvidenceTypes, WriteManifest, FillFile, StageMember, Stage, StageSums,
                            MovesIf, Moves
        <4> QED BY <4>1 DEF CollectingPlaces
      <3>3. ASSUME NEW f \in Family, CopyTmp(h, f) \/ Swap(h, f) PROVE step'[h] \notin CollectingPlaces
        <4>1. step'[h] \in {<<"swap", f>>, AfterSwap(f), <<"raised">>}
          BY <1>0, <3>3 DEF EvidenceTypes, CopyTmp, Swap, MovesIf, Moves
        <4>2. AfterSwap(f) \notin CollectingPlaces
          BY DEF AfterSwap, Family, Members, CollectingPlaces
        <4> QED BY <4>1, <4>2 DEF CollectingPlaces
      <3> QED BY <1>4, <3>1, <3>2, <3>3 DEF PublishStep
    <2> QED BY <1>2, <2>1
  <1>5. ASSUME NEW f \in Members \cup {"manifest"}, OpenFile(h, f) PROVE CollectedBy(h)'
    <2>1. step[h] = <<"open", f>> /\ step'[h] = <<"fill", f>>
      BY <1>0, <1>5 DEF EvidenceTypes, OpenFile, Moves
    <2>2. CASE f = "artifact"
      <3>1. RowsOnRecord(ident[h], draft[h], NumRows)
        BY <1>0, <2>1, <2>2 DEF CollectedBy
      <3>2. ident'[h] = ident[h] /\ draft'[h] = draft[h]
        BY <1>5 DEF OpenFile, memory
      <3>3. RowsOnRecord(ident[h], draft[h], NumRows)'
        BY <1>0, <1>a, <3>1, <3>2, RecordStays
      <3>4. \A i \in 1 .. NumRows : step'[h] # <<"row", i>>
        BY <2>1
      <3> QED BY <3>3, <3>4 DEF CollectedBy
    <2>3. CASE f # "artifact"
      BY <1>2, <2>1, <2>3 DEF CollectingPlaces
    <2> QED BY <2>2, <2>3
  <1>6. ASSUME WriteConfig(h) \/ WriteArtifact(h) PROVE CollectedBy(h)'
    <2>1. step'[h] \in {<<"load">>, <<"gate">>}
      BY <1>0, <1>6 DEF EvidenceTypes, WriteConfig, WriteArtifact, FillFile, Moves
    <2> QED BY <1>2, <2>1 DEF CollectingPlaces
  <1>7. CASE LoadJournal(h)
    <2>1. /\ step'[h] = IF ident[h] \notin broken THEN <<"row", 1>> ELSE <<"raised">>
          /\ known'[h] = journal[ident[h]] /\ draft'[h] = <<>>
          /\ UNCHANGED <<journal, broken, ident>>
      BY <1>0, <1>7 DEF EvidenceTypes, LoadJournal, MovesIf, Moves
    <2>2. KnownOnRecord(h)'
      <3>1. known'[h] \in Seq(JournalRows)
        BY <1>0, <1>a, <2>1 DEF EvidenceTypes
      <3>2. \A n \in DOMAIN known'[h] :
              OnRecord(ident[h], known[h][n].key, known[h][n].payload)'
        <4> SUFFICES ASSUME NEW n \in DOMAIN journal[ident[h]]
                     PROVE  \E k \in DOMAIN journal[ident[h]] : journal[ident[h]][k] =
                              [key |-> journal[ident[h]][n].key, payload |-> journal[ident[h]][n].payload]
          BY <2>1 DEF OnRecord
        <4>1. journal[ident[h]][n] \in JournalRows
          BY <1>0, <1>a DEF EvidenceTypes
        <4> QED BY <4>1 DEF JournalRows
      <3> QED BY <3>1, <3>2 DEF KnownOnRecord
    <2>3. RowsOnRecord(ident[h], draft[h], 0)'
      BY <2>1 DEF RowsOnRecord
    <2>4. \A i \in 1 .. NumRows : step'[h] = <<"row", i>> => i - 1 = 0
      BY <2>1
    <2>5. step'[h] \notin {<<"open", "artifact">>, <<"fill", "artifact">>}
      BY <2>1
    <2> QED BY <2>2, <2>3, <2>4, <2>5 DEF CollectedBy
  <1>8. ASSUME NEW i \in 1 .. NumRows, NEW p \in Nat, KnownOnRecord(h)',
               step[h] = <<"row", i>>, step'[h] = AfterRow(i), ident'[h] = ident[h],
               draft'[h] = Append(draft[h], p), (ident[h] \notin broken => OnRecord(ident[h], i, p))'
        PROVE  CollectedBy(h)'
    <2> PICK id : id = ident[h]
      OBVIOUS
    <2> PICK rows : rows = draft[h]
      OBVIOUS
    <2>1. RowsOnRecord(id, rows, i - 1)'
      BY <1>0, <1>8, <1>a, RecordStays DEF CollectedBy
    <2>2. (RowsOnRecord(id, rows, i - 1) /\ (id \notin broken => OnRecord(id, i, p))
             => RowsOnRecord(id, Append(rows, p), i))'
      BY RowIsCollected, PTL
    <2>3. RowsOnRecord(ident[h], draft[h], i)'
      BY <1>8, <2>1, <2>2
    <2>4. \A j \in 1 .. NumRows : AfterRow(i) = <<"row", j>> => j - 1 = i
      BY NextRow
    <2> QED BY <1>8, <2>3, <2>4, NextRow DEF CollectedBy
  <1>9. ASSUME NEW i \in 1 .. NumRows, ReuseRow(h, i) PROVE CollectedBy(h)'
    <2> PICK m : m = First(Recorded(h, i))
      OBVIOUS
    <2>1. /\ step[h] = <<"row", i>> /\ step'[h] = AfterRow(i) /\ Recorded(h, i) # {}
          /\ draft'[h] = Append(draft[h], known[h][m].payload)
          /\ UNCHANGED <<journal, broken, ident, known>>
      BY <1>0, <1>9 DEF EvidenceTypes, ReuseRow, Moves
    <2>2. KnownOnRecord(h)
      BY <1>0, <2>1 DEF CollectedBy
    <2>3. m \in Recorded(h, i)
      <3>1. Recorded(h, i) \in SUBSET Nat
        BY <2>2 DEF KnownOnRecord, Recorded
      <3> QED BY <2>1, <3>1, FirstIsOfTheSet
    <2>4. m \in DOMAIN known[h] /\ known[h][m] \in JournalRows /\ known[h][m].key = i
      <3>1. m \in DOMAIN known[h] /\ known[h][m].key = i
        BY <2>3 DEF Recorded
      <3> QED BY <2>2, <3>1 DEF KnownOnRecord
    <2> PICK p : p = known[h][m].payload
      OBVIOUS
    <2>5. p \in Nat /\ (ident[h] \notin broken => OnRecord(ident[h], i, p))
      BY <2>2, <2>4 DEF KnownOnRecord, JournalRows
    <2>6. (ident[h] \notin broken => OnRecord(ident[h], i, p))'
      BY <2>1, <2>5 DEF OnRecord
    <2>7. KnownOnRecord(h)'
      BY <2>1, <2>2 DEF KnownOnRecord, OnRecord
    <2> QED BY <1>8, <2>1, <2>5, <2>6, <2>7
  <1>10. ASSUME NEW i \in 1 .. NumRows, MeasureRow(h, i) PROVE CollectedBy(h)'
    <2> PICK row : row = [key |-> i, payload |-> stamp[h]]
      OBVIOUS
    <2> PICK id : id = ident[h]
      OBVIOUS
    <2>1. /\ step[h] = <<"row", i>> /\ step'[h] = AfterRow(i)
          /\ draft'[h] = Append(draft[h], stamp[h]) /\ known'[h] = Append(known[h], row)
          /\ UNCHANGED <<broken, ident>>
      BY <1>0, <1>10 DEF EvidenceTypes, MeasureRow, Moves
    <2>2. row \in JournalRows /\ row.key = i /\ row.payload = stamp[h] /\ stamp[h] \in Nat
      BY <1>0, RowIsTyped DEF EvidenceTypes
    <2>3. KnownOnRecord(h)
      BY <1>0, <2>1 DEF CollectedBy
    <2>4. (id \notin broken => OnRecord(id, row.key, row.payload))'
      <3>1. CASE id \in broken
        BY <2>1, <3>1
      <3>2. CASE id \notin broken
        <4>1. journal' = [journal EXCEPT ![id] = Append(@, row)]
          BY <1>10, <3>2 DEF MeasureRow
        <4> QED BY <1>0, <1>a, <2>1, <2>2, <4>1, RowIsAppended
      <3> QED BY <3>1, <3>2
    <2>5. KnownOnRecord(h)'
      <3>1. /\ known'[h] \in Seq(JournalRows) /\ Len(known[h]) \in Nat
            /\ DOMAIN known'[h] = 1 .. Len(known[h]) + 1 /\ DOMAIN known[h] = 1 .. Len(known[h])
            /\ \A n \in DOMAIN known[h] : known'[h][n] = known[h][n]
            /\ known'[h][Len(known[h]) + 1] = row
        BY <2>1, <2>2, <2>3 DEF KnownOnRecord
      <3>2. ASSUME (id \notin broken)', NEW n \in DOMAIN known[h]
            PROVE  OnRecord(id, known[h][n].key, known[h][n].payload)'
        <4> PICK k, p : k = known[h][n].key /\ p = known[h][n].payload
          OBVIOUS
        <4>1. OnRecord(id, k, p)
          BY <2>1, <2>3, <3>2 DEF KnownOnRecord
        <4>2. OnRecord(id, k, p)'
          BY <1>0, <1>a, <4>1, RecordStays
        <4> QED BY <3>1, <4>2
      <3>3. \A n \in DOMAIN known'[h] : n \in DOMAIN known[h] \/ n = Len(known[h]) + 1
        BY <3>1
      <3> QED BY <2>1, <2>4, <3>1, <3>2, <3>3 DEF KnownOnRecord
    <2> QED BY <1>8, <2>1, <2>2, <2>4, <2>5
  <1>11. ASSUME NEW i \in 1 .. NumRows, AppendFails(h, i) PROVE CollectedBy(h)'
    <2>1. step'[h] = <<"raised">>
      BY <1>0, <1>11 DEF EvidenceTypes, AppendFails, Moves
    <2> QED BY <1>2, <2>1 DEF CollectingPlaces
  <1>12. CASE UNCHANGED evidenceVars
    BY <1>0, <1>12, OthersCollect DEF evidenceVars
  <1> QED BY <1>1, <1>3, <1>4, <1>5, <1>6, <1>7, <1>9, <1>10, <1>11, <1>12
          DEF EvidenceNext, MeasureStep

\* Nothing is written and nobody collects at first.
LEMMA EvidenceStarts == EvidenceInit => EvidenceInv
  <1> SUFFICES ASSUME EvidenceInit PROVE EvidenceInv
    OBVIOUS
  <1>1. EvidenceTypes
    BY EvidenceAssumption DEF EvidenceInit, EvidenceTypes, NoDir
  <1>2. Collected
    <2>1. <<"new">> \notin CollectingPlaces
      BY DEF CollectingPlaces
    <2>2. \A h \in Harnesses : step[h] \notin CollectingPlaces
      BY <2>1 DEF EvidenceInit
    <2> QED BY <2>2 DEF Collected, CollectingPlaces
  <1>3. CopiesAreSound
    <2>1. SoundArtifact(Absent)
      BY DEF SoundArtifact, Absent
    <2>2. /\ \A id \in Identities : work[id]["artifact"] = Absent
          /\ staging = NoDir /\ part["artifact"] = Absent /\ public["artifact"] = Absent
      BY DEF EvidenceInit, Members, Family
    <2> QED BY <2>1, <2>2 DEF CopiesAreSound
  <1> QED BY <1>1, <1>2, <1>3 DEF EvidenceInv

\* The invariant is inductive.
LEMMA EvidenceStep == EvidenceInv /\ [EvidenceNext]_evidenceVars => EvidenceInv'
  BY EvidenceTypesStep, CollectedStep, CopiesStep DEF EvidenceInv

\* verify_industrial_artifacts.py: a family the verifier accepts has every row of the plan,
\* each with the number its journal has on record, whichever processes were killed, met a
\* full disk or ran beside each other on the same root: for any number of processes,
\* identities and rows.
THEOREM AcceptedIsOnRecord == EvidenceSpec => []AcceptedFamilyIsOnRecord
  <1>1. EvidenceInv => AcceptedFamilyIsOnRecord
    <2> SUFFICES ASSUME EvidenceInv, Accepted PROVE AcceptedFamilyIsOnRecord
      BY DEF AcceptedFamilyIsOnRecord
    <2>1. public["artifact"].is = "artifact"
      BY DEF Accepted, Family, Members
    <2>2. SoundArtifact(public["artifact"])
      BY DEF EvidenceInv, CopiesAreSound
    <2> QED BY <2>1, <2>2 DEF SoundArtifact, RowsOnRecord, OnRecord, AcceptedFamilyIsOnRecord
  <1> QED BY <1>1, EvidenceStarts, EvidenceStep, PTL DEF EvidenceSpec

-----------------------------------------------------------------------------
(* EvidencePublication: a publication that nothing runs beside                  *)

\* Where a process is once it has the root to itself: it copies and renames member after
\* member, from a staging directory it has filled, out of a workspace it has completed.
PastIndex == {<<"copy", f>> : f \in Family} \cup {<<"swap", f>> : f \in Family} \cup {<<"sweep">>}
PastConfigStaged == {<<"index">>} \cup PastIndex
PastArtifactStaged == {<<"stage", "config">>} \cup PastConfigStaged
PastMkdir == {<<"stage", "artifact">>} \cup PastArtifactStaged
PastManifest == {<<"clear">>, <<"mkdir">>} \cup PastMkdir
PastHash == {<<"open", "manifest">>, <<"fill", "manifest">>} \cup PastManifest
PastArtifact == {<<"gate">>, <<"hash">>} \cup PastHash
PastConfig == {<<"load">>} \cup CollectingPlaces \cup PastArtifact

\* The members that are in the root when a process is at a place.
Replaced(place) ==
  CASE place \in {<<"copy", "config">>, <<"swap", "config">>} -> {"artifact"}
    [] place \in {<<"copy", "sums">>, <<"swap", "sums">>} -> Members
    [] place \in {<<"copy", "manifest">>, <<"swap", "manifest">>} -> Members \cup {"sums"}
    [] place = <<"sweep">> -> Family
    [] OTHER -> {}

\* What a process copies to the root.
SourceOf(h, f) == IF f = "manifest" THEN work[ident[h]][f] ELSE staging[f]

WorkspaceIsOwn(h) ==
  /\ step[h] \in PastConfig => work[ident[h]]["config"] = Config(ident[h])
  /\ step[h] \in PastArtifact =>
       LET a == work[ident[h]]["artifact"]
       IN  a.is = "artifact" /\ a.id = ident[h] /\ a.by = stamp[h]
  /\ step[h] \in PastHash => held[h] = Digests(work[ident[h]])
  /\ step[h] \in PastManifest =>
       work[ident[h]]["manifest"] = [is |-> "manifest", id |-> ident[h], digests |-> held[h]]

StagingIsOwn(h) ==
  /\ step[h] \in PastMkdir => staging # NoDir
  /\ step[h] \in PastArtifactStaged => staging["artifact"] = work[ident[h]]["artifact"]
  /\ step[h] \in PastConfigStaged => staging["config"] = work[ident[h]]["config"]
  /\ step[h] \in PastIndex => staging["sums"] = [is |-> "sums", digests |-> Digests(work[ident[h]])]

RootIsOwn(h) ==
  /\ \A f \in Family : step[h] = <<"swap", f>> => part[f] = SourceOf(h, f)
  /\ \A f \in Replaced(step[h]) : public[f] = SourceOf(h, f) /\ part[f] = Absent

\* A process that is not crowded is the only one under way, and all it has done so far is
\* there as it left it.
NoneBeside == \A h \in Active \ crowded : \A g \in Active : g = h
OwnWork(h) == WorkspaceIsOwn(h) /\ StagingIsOwn(h) /\ RootIsOwn(h)
LoneInv == EvidenceTypes /\ NoneBeside /\ \A h \in Active \ crowded : OwnWork(h)

\* Whoever makes a step other than a start is under way, and moves nobody else.
LEMMA ActorIsActive ==
  ASSUME EvidenceTypes, NEW g \in Harnesses, MeasureStep(g) \/ PublishStep(g) \/ Kill(g)
  PROVE  /\ g \in Active /\ crowded' = crowded /\ ident' = ident /\ stamp' = stamp
         /\ \A h \in Harnesses : h # g => step'[h] = step[h]
  <1>1. CASE Kill(g)
    BY <1>1 DEF EvidenceTypes, Kill, memory
  <1>2. CASE MeasureStep(g)
    <2>1. /\ crowded' = crowded /\ ident' = ident /\ stamp' = stamp
          /\ \A h \in Harnesses : h # g => step'[h] = step[h]
      BY <1>2 DEF EvidenceTypes, MeasureStep, OpenFile, WriteConfig, WriteArtifact, FillFile,
                  LoadJournal, ReuseRow, MeasureRow, AppendFails, MovesIf, Moves, memory, counters
    <2>2. \/ \E f : step[g] = <<"open", f>> \/ step[g] = <<"fill", f>> \/ step[g] = <<"row", f>>
          \/ step[g] = <<"load">>
      BY <1>2 DEF MeasureStep, OpenFile, WriteConfig, WriteArtifact, FillFile, LoadJournal, ReuseRow,
                  MeasureRow, AppendFails, MovesIf, Moves
    <2> QED BY <2>1, <2>2 DEF Active, AtRest
  <1>3. CASE PublishStep(g)
    <2>1. /\ crowded' = crowded /\ ident' = ident /\ stamp' = stamp
          /\ \A h \in Harnesses : h # g => step'[h] = step[h]
      BY <1>3 DEF EvidenceTypes, PublishStep, Gate, HashMembers, WriteManifest, FillFile, ClearStaging,
                  MakeStaging, StageMember, Stage, StageSums, SweepStaging, CopyTmp, Swap, MovesIf, Moves,
                  memory, counters
    <2>2. step[g][1] \in {"gate", "hash", "fill", "clear", "mkdir", "stage", "index", "copy", "swap",
                          "sweep"}
      BY <1>3 DEF PublishStep, Gate, HashMembers, WriteManifest, FillFile, ClearStaging, MakeStaging,
                  StageMember, Stage, StageSums, SweepStaging, CopyTmp, Swap, MovesIf, Moves
    <2> QED BY <2>1, <2>2 DEF Active, AtRest
  <1> QED BY <1>1, <1>2, <1>3

\* The places a process has not worked for yet: it reaches them one after the other.
LEMMA PlacesInOrder ==
  /\ \A place \in {<<"open", "config">>, <<"fill", "config">>} \cup AtRest :
       place \notin PastConfig
  /\ \A place \in {<<"load">>} \cup CollectingPlaces : place \notin PastArtifact
  /\ \A place \in {<<"gate">>, <<"hash">>} : place \notin PastHash
  /\ \A place \in {<<"open", "manifest">>, <<"fill", "manifest">>} : place \notin PastManifest
  /\ \A place \in {<<"clear">>, <<"mkdir">>} : place \notin PastMkdir
  /\ <<"stage", "artifact">> \notin PastArtifactStaged
  /\ <<"stage", "config">> \notin PastConfigStaged /\ <<"index">> \notin PastIndex
  <1>1. <<"index">> \notin PastIndex
    BY DEF PastIndex
  <1>2. <<"stage", "config">> \notin PastConfigStaged
    BY DEF PastConfigStaged, PastIndex
  <1>3. <<"stage", "artifact">> \notin PastArtifactStaged
    BY DEF PastArtifactStaged, PastConfigStaged, PastIndex
  <1>4. \A place \in {<<"clear">>, <<"mkdir">>} : place \notin PastMkdir
    BY DEF PastMkdir, PastArtifactStaged, PastConfigStaged, PastIndex
  <1>5. \A place \in {<<"open", "manifest">>, <<"fill", "manifest">>} : place \notin PastManifest
    BY DEF PastManifest, PastMkdir, PastArtifactStaged, PastConfigStaged, PastIndex
  <1>6. \A place \in {<<"gate">>, <<"hash">>} : place \notin PastHash
    BY DEF PastHash, PastManifest, PastMkdir, PastArtifactStaged, PastConfigStaged, PastIndex
  <1>7. \A place \in {<<"load">>} \cup CollectingPlaces : place \notin PastArtifact
    BY DEF CollectingPlaces, PastArtifact, PastHash, PastManifest, PastMkdir, PastArtifactStaged,
           PastConfigStaged, PastIndex
  <1>8. \A place \in {<<"open", "config">>, <<"fill", "config">>} \cup AtRest : place \notin PastConfig
    BY DEF AtRest, CollectingPlaces, PastConfig, PastArtifact, PastHash, PastManifest, PastMkdir,
           PastArtifactStaged, PastConfigStaged, PastIndex
  <1> QED BY <1>1, <1>2, <1>3, <1>4, <1>5, <1>6, <1>7, <1>8

\* And who has come to a later one has passed the earlier ones.
LEMMA PlacesNest ==
  /\ PastIndex \subseteq PastConfigStaged /\ PastConfigStaged \subseteq PastArtifactStaged
  /\ PastArtifactStaged \subseteq PastMkdir /\ PastMkdir \subseteq PastManifest
  /\ PastManifest \subseteq PastHash /\ PastHash \subseteq PastArtifact
  /\ PastArtifact \subseteq PastConfig
  BY DEF PastConfig, PastArtifact, PastHash, PastManifest, PastMkdir, PastArtifactStaged,
         PastConfigStaged

\* Nothing is in the root before the first rename.
LEMMA NoneReplacedBefore ==
  ASSUME NEW place, place \notin PastIndex
  PROVE  Replaced(place) = {} /\ \A f \in Family : place # <<"swap", f>>
  BY DEF Replaced, PastIndex, Family, Members

\* Up to the staging directory only the workspace matters.
LEMMA OnlyWorkspaceMatters ==
  ASSUME NEW h \in Harnesses, step'[h] \notin PastMkdir, WorkspaceIsOwn(h)'
  PROVE  OwnWork(h)'
  <1>1. StagingIsOwn(h)'
    BY PlacesNest DEF StagingIsOwn
  <1>2. RootIsOwn(h)'
    BY PlacesNest, NoneReplacedBefore DEF RootIsOwn
  <1> QED BY <1>1, <1>2 DEF OwnWork

\* A file of the workspace is written: only that one changes.
LEMMA FileIsWritten ==
  ASSUME EvidenceTypes, NEW h \in Harnesses, NEW f \in Members \cup {"manifest"}, NEW content,
         NEW to, FillFile(h, f, content, to) \/ (OpenFile(h, f) /\ content = Torn)
  PROVE  /\ work'[ident'[h]][f] = content
         /\ \A m \in (Members \cup {"manifest"}) \ {f} : work'[ident'[h]][m] = work[ident[h]][m]
         /\ f \notin Members => Digests(work'[ident'[h]]) = Digests(work[ident[h]])
  <1>1. /\ ident[h] \in Identities /\ ident' = ident
        /\ work' = [work EXCEPT ![ident[h]][f] = content]
    BY DEF EvidenceTypes, FillFile, OpenFile, memory
  <1>2. work'[ident[h]] = [work[ident[h]] EXCEPT ![f] = content]
    BY <1>1 DEF EvidenceTypes
  <1>3. /\ work'[ident[h]][f] = content
        /\ \A m \in (Members \cup {"manifest"}) \ {f} : work'[ident[h]][m] = work[ident[h]][m]
    BY <1>1, <1>2 DEF EvidenceTypes
  <1>4. f \notin Members => Digests(work'[ident[h]]) = Digests(work[ident[h]])
    BY <1>3 DEF Digests
  <1> QED BY <1>1, <1>3, <1>4

\* The steps in the workspace.
LEMMA WorkspaceStepKeepsWork ==
  ASSUME EvidenceTypes, NEW h \in Harnesses, OwnWork(h),
         MeasureStep(h) \/ Gate(h) \/ HashMembers(h) \/ WriteManifest(h)
  PROVE  OwnWork(h)'
  <1>0. WorkspaceIsOwn(h)
    BY DEF OwnWork
  <1>1. ASSUME step'[h] \notin PastConfig PROVE OwnWork(h)'
    <2>1. WorkspaceIsOwn(h)' /\ step'[h] \notin PastMkdir
      BY <1>1, PlacesNest DEF WorkspaceIsOwn
    <2> QED BY <2>1, OnlyWorkspaceMatters
  <1>2. ASSUME NEW f \in Members \cup {"manifest"}, OpenFile(h, f) PROVE OwnWork(h)'
    <2>1. step[h] = <<"open", f>> /\ step'[h] = <<"fill", f>> /\ ident' = ident /\ held' = held
      BY <1>2 DEF EvidenceTypes, OpenFile, Moves, memory
    <2>2. CASE f = "config"
      BY <1>1, <2>1, <2>2, PlacesInOrder
    <2>3. CASE f = "artifact"
      <3>1. step[h] \in PastConfig /\ step'[h] \notin PastArtifact
        BY <2>1, <2>3, PlacesInOrder DEF PastConfig, CollectingPlaces
      <3>2. work'[ident'[h]]["config"] = work[ident[h]]["config"]
        BY <1>2, <2>3, FileIsWritten DEF Members
      <3>3. WorkspaceIsOwn(h)' /\ step'[h] \notin PastMkdir
        BY <1>0, <2>1, <3>1, <3>2, PlacesNest DEF WorkspaceIsOwn
      <3> QED BY <3>3, OnlyWorkspaceMatters
    <2>4. CASE f = "manifest"
      <3>1. step[h] \in PastHash /\ step'[h] \notin PastManifest
        BY <2>1, <2>4, PlacesInOrder DEF PastHash
      <3>2. /\ work'[ident'[h]]["config"] = work[ident[h]]["config"]
            /\ work'[ident'[h]]["artifact"] = work[ident[h]]["artifact"]
            /\ Digests(work'[ident'[h]]) = Digests(work[ident[h]])
        BY <1>2, <2>4, FileIsWritten DEF Members
      <3>3. stamp' = stamp
        BY <1>2 DEF OpenFile, memory
      <3>4. WorkspaceIsOwn(h)' /\ step'[h] \notin PastMkdir
        BY <1>0, <2>1, <3>1, <3>2, <3>3, PlacesNest DEF WorkspaceIsOwn, Digests
      <3> QED BY <3>4, OnlyWorkspaceMatters
    <2> QED BY <2>2, <2>3, <2>4 DEF Members
  <1>3. CASE WriteConfig(h)
    <2>1. step'[h] = <<"load">> /\ ident' = ident
      BY <1>3 DEF EvidenceTypes, WriteConfig, FillFile, Moves, memory
    <2>2. work'[ident'[h]]["config"] = Config(ident[h])
      BY <1>3, FileIsWritten DEF WriteConfig, Members
    <2>3. WorkspaceIsOwn(h)' /\ step'[h] \notin PastMkdir
      BY <2>1, <2>2, PlacesInOrder, PlacesNest DEF WorkspaceIsOwn
    <2> QED BY <2>3, OnlyWorkspaceMatters
  <1>4. ASSUME step[h] \in PastConfig, step'[h] \notin PastArtifact, work' = work, ident' = ident
        PROVE  OwnWork(h)'
    <2>1. WorkspaceIsOwn(h)' /\ step'[h] \notin PastMkdir
      BY <1>0, <1>4, PlacesNest DEF WorkspaceIsOwn
    <2> QED BY <2>1, OnlyWorkspaceMatters
  <1>5. CASE LoadJournal(h)
    <2>1. /\ step[h] = <<"load">> /\ step'[h] \in {<<"row", 1>>, <<"raised">>}
          /\ work' = work /\ ident' = ident
      BY <1>5 DEF EvidenceTypes, LoadJournal, MovesIf, Moves
    <2>2. <<"row", 1>> \in CollectingPlaces
      BY EvidenceAssumption DEF CollectingPlaces
    <2>3. step'[h] \notin PastArtifact
      BY <2>1, <2>2, PlacesInOrder, PlacesNest DEF AtRest
    <2> QED BY <1>4, <2>1, <2>3 DEF PastConfig
  <1>6. ASSUME NEW i \in 1 .. NumRows, ReuseRow(h, i) \/ MeasureRow(h, i) \/ AppendFails(h, i)
        PROVE  OwnWork(h)'
    <2>1. /\ step[h] = <<"row", i>> /\ step'[h] \in {AfterRow(i), <<"raised">>}
          /\ work' = work /\ ident' = ident
      BY <1>6 DEF EvidenceTypes, ReuseRow, MeasureRow, AppendFails, Moves, memory
    <2>2. step'[h] \notin PastArtifact
      BY <2>1, NextRow, PlacesInOrder, PlacesNest DEF AtRest
    <2> QED BY <1>4, <2>1, <2>2 DEF PastConfig, CollectingPlaces
  <1>7. CASE WriteArtifact(h)
    <2> PICK a : a = [is |-> "artifact", id |-> ident[h], rows |-> draft[h], by |-> stamp[h]]
      OBVIOUS
    <2>1. /\ step[h] = <<"fill", "artifact">> /\ step'[h] = <<"gate">>
          /\ UNCHANGED <<ident, stamp>> /\ FillFile(h, "artifact", a, <<"gate">>)
      BY <1>7 DEF EvidenceTypes, WriteArtifact, FillFile, Moves, memory
    <2>2. /\ work'[ident'[h]]["artifact"] = a
          /\ work'[ident'[h]]["config"] = work[ident[h]]["config"]
      BY <2>1, FileIsWritten DEF Members
    <2>3. step[h] \in PastConfig
      BY <2>1 DEF PastConfig, CollectingPlaces
    <2>4. a.is = "artifact" /\ a.id = ident[h] /\ a.by = stamp[h]
      OBVIOUS
    <2>5. WorkspaceIsOwn(h)' /\ step'[h] \notin PastMkdir
      BY <1>0, <2>1, <2>2, <2>3, <2>4, PlacesInOrder, PlacesNest DEF WorkspaceIsOwn
    <2> QED BY <2>5, OnlyWorkspaceMatters
  <1>8. CASE Gate(h)
    <2>1. /\ step[h] = <<"gate">> /\ step'[h] \in {<<"hash">>, <<"raised">>}
          /\ UNCHANGED <<work, ident, stamp>>
      BY <1>8 DEF EvidenceTypes, Gate, MovesIf, Moves, memory
    <2>2. step[h] \in PastArtifact /\ step[h] \in PastConfig /\ step'[h] \notin PastHash
      BY <2>1, PlacesInOrder, PlacesNest DEF PastArtifact, AtRest
    <2>3. WorkspaceIsOwn(h)' /\ step'[h] \notin PastMkdir
      BY <1>0, <2>1, <2>2, PlacesNest DEF WorkspaceIsOwn
    <2> QED BY <2>3, OnlyWorkspaceMatters
  <1>9. CASE HashMembers(h)
    <2>1. /\ step[h] = <<"hash">> /\ step'[h] = <<"open", "manifest">>
          /\ held' = [held EXCEPT ![h] = Digests(work[ident[h]])] /\ UNCHANGED <<work, ident, stamp>>
      BY <1>9 DEF EvidenceTypes, HashMembers, Moves
    <2>2. held'[h] = Digests(work'[ident'[h]])
      BY <2>1 DEF EvidenceTypes
    <2>3. /\ step[h] \in PastArtifact /\ step[h] \in PastConfig /\ step'[h] \notin PastManifest
      BY <2>1, PlacesInOrder, PlacesNest DEF PastArtifact
    <2>4. WorkspaceIsOwn(h)' /\ step'[h] \notin PastMkdir
      BY <1>0, <2>1, <2>2, <2>3, PlacesNest DEF WorkspaceIsOwn, Digests
    <2> QED BY <2>4, OnlyWorkspaceMatters
  <1>10. CASE WriteManifest(h)
    <2> PICK c : c = [is |-> "manifest", id |-> ident[h], digests |-> held[h]]
      OBVIOUS
    <2>1. /\ step[h] = <<"fill", "manifest">> /\ step'[h] = <<"clear">>
          /\ UNCHANGED <<ident, stamp, held>> /\ FillFile(h, "manifest", c, <<"clear">>)
      BY <1>10 DEF EvidenceTypes, WriteManifest, FillFile, Moves, memory
    <2>2. /\ work'[ident'[h]]["manifest"] = c
          /\ work'[ident'[h]]["config"] = work[ident[h]]["config"]
          /\ work'[ident'[h]]["artifact"] = work[ident[h]]["artifact"]
          /\ Digests(work'[ident'[h]]) = Digests(work[ident[h]])
      BY <2>1, FileIsWritten DEF Members
    <2>3. step[h] \in PastHash /\ step[h] \in PastArtifact /\ step[h] \in PastConfig
      BY <2>1, PlacesNest DEF PastHash
    <2>4. WorkspaceIsOwn(h)' /\ step'[h] \notin PastMkdir
      BY <1>0, <2>1, <2>2, <2>3, PlacesInOrder DEF WorkspaceIsOwn, Digests
    <2> QED BY <2>4, OnlyWorkspaceMatters
  <1> QED BY <1>2, <1>3, <1>5, <1>6, <1>7, <1>8, <1>9, <1>10 DEF MeasureStep

\* A directory with a file is not none.
LEMMA DirectoryIsThere ==
  \A dir : DOMAIN dir = Members \cup {"sums"} => dir # NoDir
  <1>1. DOMAIN NoDir = {} /\ "sums" \in Members \cup {"sums"}
    BY DEF NoDir
  <1> QED BY <1>1

\* Past the manifest the workspace is left alone.
LEMMA WorkspaceIsLeftAlone ==
  ASSUME NEW h \in Harnesses, WorkspaceIsOwn(h), step[h] \in PastManifest,
         UNCHANGED <<work, ident, held, stamp>>
  PROVE  WorkspaceIsOwn(h)'
  BY PlacesNest DEF WorkspaceIsOwn, Digests

\* The steps in the staging directory.
LEMMA StagingStepKeepsWork ==
  ASSUME EvidenceTypes, NEW h \in Harnesses, OwnWork(h),
         ClearStaging(h) \/ MakeStaging(h) \/ StageMember(h) \/ StageSums(h)
  PROVE  OwnWork(h)'
  <1>0. UNCHANGED <<work, part, public, ident, held, stamp>> /\ WorkspaceIsOwn(h) /\ StagingIsOwn(h)
    BY DEF ClearStaging, MakeStaging, StageMember, Stage, StageSums, memory, OwnWork
  <1>1. ASSUME step[h] \in PastManifest, step'[h] \notin PastMkdir PROVE OwnWork(h)'
    BY <1>0, <1>1, WorkspaceIsLeftAlone, OnlyWorkspaceMatters
  <1>2. ASSUME step[h] \in PastManifest, step'[h] \notin PastIndex, StagingIsOwn(h)' PROVE OwnWork(h)'
    BY <1>0, <1>2, WorkspaceIsLeftAlone, NoneReplacedBefore DEF OwnWork, RootIsOwn
  <1>3. <<"raised">> \notin PastMkdir
    BY PlacesInOrder, PlacesNest DEF AtRest
  <1>4. CASE ClearStaging(h)
    <2>1. step[h] = <<"clear">> /\ step'[h] = <<"mkdir">>
      BY <1>4 DEF EvidenceTypes, ClearStaging, Moves
    <2> QED BY <1>1, <2>1, PlacesInOrder DEF PastManifest
  <1>5. CASE MakeStaging(h)
    <2>1. /\ step[h] = <<"mkdir">> /\ step'[h] \in {<<"stage", "artifact">>, <<"raised">>}
          /\ step'[h] # <<"raised">> => DOMAIN staging' = Members \cup {"sums"}
      BY <1>5 DEF EvidenceTypes, MakeStaging, MovesIf, Moves
    <2>2. step[h] \in PastManifest
      BY <2>1 DEF PastManifest
    <2>3. CASE step'[h] = <<"raised">>
      BY <1>1, <1>3, <2>2, <2>3
    <2>4. CASE step'[h] = <<"stage", "artifact">>
      <3>1. staging' # NoDir
        BY <2>1, <2>4, DirectoryIsThere
      <3>2. StagingIsOwn(h)' /\ step'[h] \notin PastIndex
        BY <2>4, <3>1, PlacesInOrder, PlacesNest DEF StagingIsOwn
      <3> QED BY <1>2, <2>2, <3>2
    <2> QED BY <2>1, <2>3, <2>4
  <1>6. ASSUME NEW m \in Members, NEW to, Stage(h, m, work[ident[h]][m], to),
               <<"stage", m>> \in PastMkdir
        PROVE  /\ step[h] = <<"stage", m>> /\ step[h] \in PastManifest
               /\ \/ step'[h] = to
                  \/ step'[h] = <<"raised">>
               /\ staging' # NoDir /\ staging'[m] = work'[ident'[h]][m]
               /\ \A n \in Members \ {m} : staging'[n] = staging[n]
    <2>1. step[h] = <<"stage", m>> /\ step'[h] \in {to, <<"raised">>}
      BY <1>6 DEF EvidenceTypes, Stage, MovesIf, Moves
    <2>2. staging # NoDir
      BY <1>0, <1>6, <2>1 DEF StagingIsOwn
    <2>3. staging' = [staging EXCEPT ![m] = work[ident[h]][m]] /\ DOMAIN staging = Members \cup {"sums"}
      BY <1>6, <2>2 DEF EvidenceTypes, Stage
    <2>4. DOMAIN staging' = Members \cup {"sums"}
      BY <2>3
    <2> QED BY <1>0, <1>6, <2>1, <2>3, <2>4, DirectoryIsThere, PlacesNest
  <1>7. CASE Stage(h, "artifact", work[ident[h]]["artifact"], <<"stage", "config">>)
    <2>1. "artifact" \in Members /\ <<"stage", "artifact">> \in PastMkdir
      BY DEF Members, PastMkdir
    <2>2. /\ step[h] \in PastManifest /\ step'[h] \in {<<"stage", "config">>, <<"raised">>}
          /\ staging' # NoDir /\ staging'["artifact"] = work'[ident'[h]]["artifact"]
      BY <1>6, <1>7, <2>1
    <2>3. StagingIsOwn(h)' /\ step'[h] \notin PastIndex
      BY <1>3, <2>2, PlacesInOrder, PlacesNest DEF StagingIsOwn
    <2> QED BY <1>2, <2>2, <2>3
  <1>8. CASE Stage(h, "config", work[ident[h]]["config"], <<"index">>)
    <2>1. "config" \in Members /\ <<"stage", "config">> \in PastArtifactStaged
      BY DEF Members, PastArtifactStaged
    <2>2. /\ step[h] = <<"stage", "config">> /\ step[h] \in PastManifest
          /\ step'[h] \in {<<"index">>, <<"raised">>}
          /\ staging' # NoDir /\ staging'["config"] = work'[ident'[h]]["config"]
          /\ staging'["artifact"] = staging["artifact"]
      BY <1>6, <1>8, <2>1, PlacesNest DEF Members
    <2>3. staging'["artifact"] = work'[ident'[h]]["artifact"]
      BY <1>0, <2>1, <2>2 DEF StagingIsOwn
    <2>4. StagingIsOwn(h)' /\ step'[h] \notin PastIndex
      BY <1>3, <2>2, <2>3, PlacesInOrder, PlacesNest DEF StagingIsOwn
    <2> QED BY <1>2, <2>2, <2>4
  <1>9. CASE StageSums(h)
    <2>1. step[h] = <<"index">> /\ step'[h] \in {<<"copy", "artifact">>, <<"raised">>}
      BY <1>9 DEF EvidenceTypes, StageSums, MovesIf, Moves
    <2>2. step[h] \in PastConfigStaged /\ step[h] \in PastManifest
      BY <2>1, PlacesNest DEF PastConfigStaged
    <2>3. CASE step'[h] = <<"raised">>
      BY <1>1, <1>3, <2>2, <2>3
    <2>4. CASE step'[h] = <<"copy", "artifact">>
      <3>1. staging # NoDir /\ DOMAIN staging = Members \cup {"sums"}
        BY <1>0, <2>2, PlacesNest DEF StagingIsOwn, EvidenceTypes
      <3>2. /\ staging["artifact"] = work[ident[h]]["artifact"]
            /\ staging["config"] = work[ident[h]]["config"]
        BY <1>0, <2>2, PlacesNest DEF StagingIsOwn
      <3>3. Digests(staging) = Digests(work[ident[h]])
        BY <3>2 DEF Digests, Members
      <3> PICK c : c = [is |-> "sums", digests |-> Digests(work[ident[h]])]
        OBVIOUS
      <3>4. staging' = [staging EXCEPT !["sums"] = c]
        BY <1>9, <2>4, <3>3 DEF EvidenceTypes, StageSums, MovesIf, Moves
      <3>5. /\ DOMAIN staging' = Members \cup {"sums"} /\ staging'["sums"] = c
            /\ staging'["artifact"] = staging["artifact"] /\ staging'["config"] = staging["config"]
        BY <3>1, <3>4 DEF Members
      <3>6. StagingIsOwn(h)'
        BY <1>0, <3>2, <3>5, DirectoryIsThere DEF StagingIsOwn, Digests
      <3>7. RootIsOwn(h)'
        <4>1. Replaced(step'[h]) = {} /\ \A f \in Family : step'[h] # <<"swap", f>>
          BY <2>4 DEF Replaced
        <4> QED BY <4>1 DEF RootIsOwn
      <3> QED BY <1>0, <2>2, <3>6, <3>7, WorkspaceIsLeftAlone DEF OwnWork
    <2> QED BY <2>1, <2>3, <2>4
  <1> QED BY <1>4, <1>5, <1>7, <1>8, <1>9 DEF StageMember

\* After a rename the member is in the root, with those before it.
LEMMA SwapReplaces ==
  ASSUME NEW f \in Family
  PROVE  /\ Replaced(<<"swap", f>>) = Replaced(<<"copy", f>>) /\ f \notin Replaced(<<"copy", f>>)
         /\ Replaced(AfterSwap(f)) = Replaced(<<"copy", f>>) \cup {f}
         /\ <<"copy", f>> \in PastIndex /\ <<"swap", f>> \in PastIndex /\ AfterSwap(f) \in PastIndex
         /\ \A m \in Family : AfterSwap(f) # <<"swap", m>>
         /\ Replaced(<<"copy", f>>) \subseteq Family
  <1>1. CASE f = "artifact"
    BY <1>1 DEF Replaced, AfterSwap, PastIndex, Family, Members
  <1>2. CASE f = "config"
    BY <1>2 DEF Replaced, AfterSwap, PastIndex, Family, Members
  <1>3. CASE f = "sums"
    BY <1>3 DEF Replaced, AfterSwap, PastIndex, Family, Members
  <1>4. CASE f = "manifest"
    BY <1>4 DEF Replaced, AfterSwap, PastIndex, Family, Members
  <1> QED BY <1>1, <1>2, <1>3, <1>4 DEF Family, Members

\* The steps in the root.
LEMMA RootStepKeepsWork ==
  ASSUME EvidenceTypes, NEW h \in Harnesses, OwnWork(h),
         SweepStaging(h) \/ \E f \in Family : CopyTmp(h, f) \/ Swap(h, f)
  PROVE  OwnWork(h)'
  <1>0. /\ UNCHANGED <<work, ident, held, stamp>>
        /\ WorkspaceIsOwn(h) /\ StagingIsOwn(h) /\ RootIsOwn(h)
    BY DEF SweepStaging, CopyTmp, Swap, memory, OwnWork
  <1>1. ASSUME step'[h] \in AtRest PROVE OwnWork(h)'
    <2>1. step'[h] \notin PastConfig
      BY <1>1, PlacesInOrder
    <2>2. WorkspaceIsOwn(h)' /\ step'[h] \notin PastMkdir
      BY <2>1, PlacesNest DEF WorkspaceIsOwn
    <2> QED BY <2>2, OnlyWorkspaceMatters
  <1>2. ASSUME step[h] \in PastIndex, staging' = staging, RootIsOwn(h)' PROVE OwnWork(h)'
    <2>1. StagingIsOwn(h)'
      BY <1>0, <1>2, PlacesNest DEF StagingIsOwn, Digests
    <2> QED BY <1>0, <1>2, <2>1, PlacesNest, WorkspaceIsLeftAlone DEF OwnWork
  <1>3. CASE SweepStaging(h)
    BY <1>1, <1>3 DEF SweepStaging, Moves, AtRest, EvidenceTypes
  <1>4. ASSUME NEW f \in Family, CopyTmp(h, f) PROVE OwnWork(h)'
    <2>1. /\ step[h] = <<"copy", f>> /\ step'[h] \in {<<"swap", f>>, <<"raised">>}
          /\ UNCHANGED <<staging, public>>
      BY <1>4 DEF CopyTmp, MovesIf, Moves, EvidenceTypes
    <2>2. step[h] \in PastIndex
      BY <2>1, SwapReplaces
    <2>3. staging # NoDir
      BY <1>0, <2>2, PlacesNest DEF StagingIsOwn
    <2>4. CASE step'[h] = <<"swap", f>>
      <3>1. part' = [part EXCEPT ![f] = SourceOf(h, f)]
        BY <1>4, <2>3, <2>4 DEF CopyTmp, MovesIf, Moves, SourceOf, EvidenceTypes
      <3>2. part'[f] = SourceOf(h, f) /\ \A m \in Family \ {f} : part'[m] = part[m]
        BY <3>1 DEF EvidenceTypes
      <3>3. \A m \in Family : SourceOf(h, m)' = SourceOf(h, m)
        BY <1>0, <2>1 DEF SourceOf
      <3>4. \A m \in Replaced(step'[h]) : m \in Family \ {f} /\ m \in Replaced(step[h])
        BY <2>1, <2>4, SwapReplaces
      <3>5. \A m \in Replaced(step'[h]) : public'[m] = SourceOf(h, m)' /\ part'[m] = Absent
        BY <1>0, <2>1, <3>2, <3>3, <3>4 DEF RootIsOwn
      <3>6. \A m \in Family : step'[h] = <<"swap", m>> => part'[m] = SourceOf(h, m)'
        BY <2>4, <3>2, <3>3
      <3> QED BY <1>2, <2>1, <2>2, <3>5, <3>6 DEF RootIsOwn
    <2>5. CASE step'[h] = <<"raised">>
      BY <1>1, <2>5 DEF AtRest
    <2> QED BY <2>1, <2>4, <2>5
  <1>5. ASSUME NEW f \in Family, Swap(h, f) PROVE OwnWork(h)'
    <2>1. /\ step[h] = <<"swap", f>> /\ step'[h] \in {AfterSwap(f), <<"raised">>}
          /\ staging' = staging
      BY <1>5 DEF Swap, MovesIf, Moves, EvidenceTypes
    <2>2. step[h] \in PastIndex /\ part[f] = SourceOf(h, f)
      BY <1>0, <2>1, SwapReplaces DEF RootIsOwn
    <2>3. CASE step'[h] = <<"raised">>
      BY <1>1, <2>3 DEF AtRest
    <2>4. CASE step'[h] = AfterSwap(f) /\ step'[h] # <<"raised">>
      <3>1. public' = [public EXCEPT ![f] = part[f]] /\ part' = [part EXCEPT ![f] = Absent]
        BY <1>5, <2>4 DEF Swap, MovesIf, Moves, EvidenceTypes
      <3>2. /\ public'[f] = SourceOf(h, f) /\ part'[f] = Absent
            /\ \A m \in Family \ {f} : public'[m] = public[m] /\ part'[m] = part[m]
        BY <2>2, <3>1 DEF EvidenceTypes
      <3>3. \A m \in Family : SourceOf(h, m)' = SourceOf(h, m)
        BY <1>0, <2>1 DEF SourceOf
      <3>4. /\ Replaced(step'[h]) = Replaced(step[h]) \cup {f}
            /\ Replaced(step[h]) \subseteq Family /\ f \notin Replaced(step[h])
        <4>1. Replaced(step'[h]) = Replaced(AfterSwap(f))
          BY <2>4
        <4>2. Replaced(step[h]) = Replaced(<<"swap", f>>)
          BY <2>1
        <4>3. Replaced(step[h]) = Replaced(<<"copy", f>>)
          BY <4>2, SwapReplaces
        <4> QED BY <4>1, <4>3, SwapReplaces
      <3>5. \A m \in Replaced(step'[h]) : public'[m] = SourceOf(h, m)' /\ part'[m] = Absent
        BY <1>0, <3>2, <3>3, <3>4 DEF RootIsOwn
      <3>6. \A m \in Family : step'[h] # <<"swap", m>>
        BY <2>4, SwapReplaces
      <3> QED BY <1>2, <2>1, <2>2, <3>5, <3>6 DEF RootIsOwn
    <2> QED BY <2>1, <2>3, <2>4
  <1> QED BY <1>3, <1>4, <1>5

\* What a process that keeps to itself does leaves it alone with its work.
LEMMA OwnStep ==
  ASSUME EvidenceTypes, NEW h \in Harnesses, OwnWork(h), MeasureStep(h) \/ PublishStep(h)
  PROVE  OwnWork(h)'
  BY WorkspaceStepKeepsWork, StagingStepKeepsWork, RootStepKeepsWork DEF PublishStep

\* A start crowds whoever is under way, and nothing else brings a process up.
LEMMA NoneBesideStep == LoneInv /\ [EvidenceNext]_evidenceVars => NoneBeside'
  <1> SUFFICES ASSUME LoneInv, [EvidenceNext]_evidenceVars PROVE NoneBeside'
    OBVIOUS
  <1> USE DEF LoneInv
  <1>1. ASSUME NEW g \in Harnesses, NEW id \in Identities, Start(g, id) PROVE NoneBeside'
    <2>1. /\ \A h \in Harnesses : h # g => step'[h] = step[h]
          /\ crowded' = IF Active = {} THEN crowded \ {g} ELSE crowded \cup Active \cup {g}
      BY <1>1 DEF Start, EvidenceTypes
    <2>2. Active' \subseteq Active \cup {g}
      BY <2>1 DEF Active
    <2> QED BY <2>1, <2>2 DEF NoneBeside
  <1>2. ASSUME NEW g \in Harnesses, MeasureStep(g) \/ PublishStep(g) \/ Kill(g) PROVE NoneBeside'
    <2>1. /\ g \in Active /\ crowded' = crowded
          /\ \A h \in Harnesses : h # g => step'[h] = step[h]
      BY <1>2, ActorIsActive
    <2>2. Active' \subseteq Active
      BY <2>1 DEF Active
    <2> QED BY <2>1, <2>2 DEF NoneBeside
  <1>3. CASE UNCHANGED evidenceVars
    BY <1>3 DEF evidenceVars, counters, NoneBeside, Active
  <1> QED BY <1>1, <1>2, <1>3 DEF EvidenceNext

\* So a process that is not crowded has made every step since its start itself.
LEMMA OwnWorkStep ==
  ASSUME LoneInv, [EvidenceNext]_evidenceVars, NEW h \in Harnesses, step'[h] \notin AtRest,
         h \notin crowded'
  PROVE  OwnWork(h)'
  <1> USE DEF LoneInv
  <1>1. ASSUME NEW g \in Harnesses, NEW id \in Identities, Start(g, id) PROVE OwnWork(h)'
    <2>1. CASE g = h
      <3>1. step'[h] = <<"open", "config">>
        BY <1>1, <2>1 DEF Start, EvidenceTypes
      <3>2. step'[h] \notin PastConfig
        BY <3>1, PlacesInOrder
      <3>3. WorkspaceIsOwn(h)' /\ step'[h] \notin PastMkdir
        BY <3>2, PlacesNest DEF WorkspaceIsOwn
      <3> QED BY <3>3, OnlyWorkspaceMatters
    <2>2. CASE g # h
      <3>1. step'[h] = step[h] /\ h \in Active
        BY <1>1, <2>2 DEF Start, EvidenceTypes, Active
      <3>2. h \in crowded'
        BY <1>1, <3>1 DEF Start
      <3> QED BY <3>2
    <2> QED BY <2>1, <2>2
  <1>2. ASSUME NEW g \in Harnesses, MeasureStep(g) \/ PublishStep(g) \/ Kill(g) PROVE OwnWork(h)'
    <2>1. /\ g \in Active /\ crowded' = crowded
          /\ g # h => step'[h] = step[h]
      BY <1>2, ActorIsActive
    <2>2. CASE g = h
      <3>1. ~Kill(h)
        BY DEF Kill, AtRest, EvidenceTypes
      <3>2. OwnWork(h)
        BY <2>1, <2>2
      <3> QED BY <1>2, <2>2, <3>1, <3>2, OwnStep
    <2>3. CASE g # h
      <3>1. h \in Active \ crowded
        BY <2>1, <2>3 DEF Active
      <3> QED BY <2>1, <2>3, <3>1 DEF NoneBeside
    <2> QED BY <2>2, <2>3
  <1>3. CASE UNCHANGED evidenceVars
    <2>1. OwnWork(h)
      BY <1>3 DEF evidenceVars, counters, Active
    <2>2. UNCHANGED <<work, staging, part, public, step, ident, held, stamp>>
      BY <1>3 DEF evidenceVars, folders, memory
    <2>3. WorkspaceIsOwn(h)' /\ StagingIsOwn(h)'
      BY <2>1, <2>2 DEF OwnWork, WorkspaceIsOwn, StagingIsOwn, Digests
    <2>4. RootIsOwn(h)'
      BY <2>1, <2>2 DEF OwnWork, RootIsOwn, SourceOf
    <2> QED BY <2>3, <2>4 DEF OwnWork
  <1> QED BY <1>1, <1>2, <1>3 DEF EvidenceNext

\* The invariant about such a process, and that it is inductive.
LEMMA LoneStep == LoneInv /\ [EvidenceNext]_evidenceVars => LoneInv'
  <1> SUFFICES ASSUME LoneInv, [EvidenceNext]_evidenceVars PROVE LoneInv'
    OBVIOUS
  <1>1. EvidenceTypes' /\ NoneBeside'
    BY EvidenceTypesStep, NoneBesideStep DEF LoneInv
  <1>2. ASSUME NEW h \in Harnesses, step'[h] \notin AtRest, h \notin crowded' PROVE OwnWork(h)'
    BY <1>2, OwnWorkStep
  <1> QED BY <1>1, <1>2 DEF LoneInv, Active

\* A process at its last place has replaced every member by its own, and they agree.
LEMMA OwnFamilyIsAccepted ==
  ASSUME NEW h \in Harnesses, OwnWork(h), step[h] = <<"sweep">>
  PROVE  Accepted /\ public["artifact"].id = ident[h] /\ public["artifact"].by = stamp[h]
  <1>1. step[h] \in PastIndex /\ Replaced(step[h]) = Family
    BY DEF PastIndex, Replaced
  <1> PICK id, w : id = ident[h] /\ w = work[ident[h]]
    OBVIOUS
  <1>2. /\ w["config"] = Config(id)
        /\ w["artifact"].is = "artifact" /\ w["artifact"].id = id /\ w["artifact"].by = stamp[h]
        /\ w["manifest"] = [is |-> "manifest", id |-> id, digests |-> Digests(w)]
    BY <1>1, PlacesNest DEF OwnWork, WorkspaceIsOwn
  <1>3. /\ staging["artifact"] = w["artifact"] /\ staging["config"] = w["config"]
        /\ staging["sums"] = [is |-> "sums", digests |-> Digests(w)]
    BY <1>1, PlacesNest DEF OwnWork, StagingIsOwn
  <1>4. \A f \in Family : public[f] = SourceOf(h, f) /\ part[f] = Absent
    BY <1>1 DEF OwnWork, RootIsOwn
  <1>5. /\ public["artifact"] = w["artifact"] /\ public["config"] = w["config"]
        /\ public["sums"] = [is |-> "sums", digests |-> Digests(w)]
        /\ public["manifest"] = [is |-> "manifest", id |-> id, digests |-> Digests(w)]
    BY <1>2, <1>3, <1>4 DEF SourceOf, Family, Members
  <1>6. Digests(public) = Digests(w)
    BY <1>5 DEF Digests, Members
  <1>7. /\ public["config"].is = "config" /\ public["config"].id = id
        /\ public["sums"].is = "sums" /\ public["sums"].digests = Digests(w)
        /\ public["manifest"].is = "manifest" /\ public["manifest"].id = id
        /\ public["manifest"].digests = Digests(w)
    BY <1>2, <1>5 DEF Config
  <1>8. Closed(public, id)
    BY <1>2, <1>5, <1>7 DEF Closed, Members
  <1>9. \A f \in Family : public[f].is = f
    BY <1>2, <1>5, <1>7 DEF Family, Members
  <1> QED BY <1>2, <1>4, <1>5, <1>6, <1>7, <1>8, <1>9 DEF Accepted, Family

\* Only the last step of a publication ends it.
LEMMA PublishedFromSweep ==
  ASSUME EvidenceTypes, NEW h \in Harnesses, [EvidenceNext]_evidenceVars,
         step'[h] = <<"published">>, step[h] # step'[h]
  PROVE  SweepStaging(h)
  <1>1. PICK g \in Harnesses :
          (\E id \in Identities : Start(g, id)) \/ MeasureStep(g) \/ PublishStep(g) \/ Kill(g)
    BY DEF EvidenceNext, evidenceVars
  <1>2. g = h
    BY <1>1, ActorIsActive DEF Start, EvidenceTypes
  <1>3. ~\E id \in Identities : Start(h, id)
    BY DEF Start, EvidenceTypes
  <1>4. ~Kill(h)
    BY DEF Kill, EvidenceTypes
  <1>5. ~MeasureStep(h)
    <2>1. \A i \in 1 .. NumRows : AfterRow(i)[1] \in {"open", "row"}
      BY DEF AfterRow
    <2>2. ~\E f \in Members \cup {"manifest"} : OpenFile(h, f)
      BY DEF OpenFile, Moves, EvidenceTypes
    <2>3. ~WriteConfig(h) /\ ~LoadJournal(h) /\ ~WriteArtifact(h)
      BY DEF WriteConfig, WriteArtifact, FillFile, LoadJournal, MovesIf, Moves, EvidenceTypes
    <2>4. ~\E i \in 1 .. NumRows : ReuseRow(h, i) \/ MeasureRow(h, i)
      <3>1. ASSUME NEW i \in 1 .. NumRows, ReuseRow(h, i) \/ MeasureRow(h, i) PROVE FALSE
        <4>1. Moves(h, <<"row", i>>, AfterRow(i))
          BY <3>1 DEF ReuseRow, MeasureRow
        <4>2. step'[h] = AfterRow(i)
          BY <4>1 DEF Moves, EvidenceTypes
        <4>3. step'[h][1] = "published"
          OBVIOUS
        <4> QED BY <2>1, <4>2, <4>3
      <3> QED BY <3>1
    <2>5. ~\E i \in 1 .. NumRows : AppendFails(h, i)
      BY DEF AppendFails, Moves, EvidenceTypes
    <2> QED BY <2>2, <2>3, <2>4, <2>5 DEF MeasureStep
  <1>6. CASE PublishStep(h)
    <2>1. \A f \in Family : AfterSwap(f)[1] \in {"copy", "sweep"}
      BY DEF AfterSwap, Family, Members
    <2> QED BY <1>6, <2>1 DEF PublishStep, Gate, HashMembers, WriteManifest, FillFile, ClearStaging,
                  MakeStaging, StageMember, Stage, StageSums, CopyTmp, Swap, MovesIf, Moves,
                  EvidenceTypes
  <1> QED BY <1>1, <1>2, <1>3, <1>4, <1>5, <1>6

\* A publication that nothing ran beside ends with its own family in the root, and one that
\* the verifier accepts, whatever was there before and wherever earlier ones broke off.
THEOREM PublicationAccepted == EvidenceSpec => PublicationIsAccepted
  <1>1. EvidenceInit => LoneInv
    <2>1. EvidenceInit => EvidenceTypes
      BY EvidenceStarts DEF EvidenceInv
    <2>2. EvidenceInit => Active = {}
      BY DEF EvidenceInit, Active, AtRest
    <2> QED BY <2>1, <2>2 DEF LoneInv, NoneBeside
  <1>2. ASSUME LoneInv, [EvidenceNext]_evidenceVars
        PROVE  [\A h \in Harnesses \ crowded :
                  step'[h] = <<"published">> /\ step[h] # step'[h] =>
                    Accepted' /\ public'["artifact"].id = ident[h]
                      /\ public'["artifact"].by = stamp[h]]_evidenceVars
    <2> SUFFICES ASSUME NEW h \in Harnesses \ crowded, step'[h] = <<"published">>,
                        step[h] # step'[h]
                 PROVE  /\ Accepted' /\ public'["artifact"].id = ident[h]
                        /\ public'["artifact"].by = stamp[h]
      OBVIOUS
    <2>1. SweepStaging(h)
      BY <1>2, PublishedFromSweep DEF LoneInv
    <2>2. step[h] = <<"sweep">> /\ UNCHANGED <<part, public>>
      BY <2>1 DEF SweepStaging, Moves
    <2>3. OwnWork(h)
      BY <1>2, <2>2 DEF LoneInv, Active, AtRest
    <2>4. Accepted /\ public["artifact"].id = ident[h] /\ public["artifact"].by = stamp[h]
      BY <2>2, <2>3, OwnFamilyIsAccepted
    <2>5. Accepted'
      BY <2>2, <2>4 DEF Accepted, Closed, Digests
    <2> QED BY <2>2, <2>4, <2>5
  <1> QED BY <1>1, <1>2, LoneStep, PTL DEF EvidenceSpec, PublicationIsAccepted

-----------------------------------------------------------------------------
(* The decisions                                                               *)

\* What is asked of the pure modules.
CaseInv ==
  /\ case.kind = "grid" =>
       /\ case.w \in Nat \ {0} /\ case.h \in Nat \ {0} /\ case.size \in Nat \ {0}
       /\ case.parts \in Nat \ {0} /\ case.halo \in Nat
  /\ case.kind = "overlap" =>
       /\ case.extent \in Nat \ {0} /\ case.size \in Nat \ {0, 1}
       /\ case.overlap \in 0 .. case.size - 1
  /\ case.kind = "halo" =>
       /\ case.known \in SUBSET {"node", "model"} /\ case.size \in Nat \ {0, 1}
       /\ case.oir \in Nat /\ case.rf \in Nat
  /\ case.kind = "request" => case.request \in Requests(Sizes, Budgets)
  /\ case.kind = "layout" =>
       \E t \in Triangles, o \in Others : case.polys = Layout(t, o) /\ case.band = BandHeight

\* Every question is one of these.
LEMMA CaseStep == CaseInv /\ [MCNext]_<<evidenceVars, promotionVars, case, vars>> => CaseInv'
  <1> SUFFICES ASSUME CaseInv, [MCNext]_<<evidenceVars, promotionVars, case, vars>> PROVE CaseInv'
    OBVIOUS
  <1>1. CASE UNCHANGED case
    BY <1>1 DEF CaseInv
  <1>2. CASE PoseLayout
    <2>1. PICK t \in Triangles, o \in Others :
            case' = [kind |-> "layout", polys |-> Layout(t, o), band |-> BandHeight]
      BY <1>2 DEF PoseLayout
    <2> QED BY <2>1 DEF CaseInv
  <1>3. CASE PoseGrid
    <2>1. PICK w \in 1 .. MaxSide + 1, h \in 1 .. MaxSide + 1 :
            \E size \in 1 .. MaxSide, parts \in 2 .. 3, halo \in 0 .. 2 :
              case' = [kind |-> "grid", w |-> w, h |-> h, size |-> size, parts |-> parts, halo |-> halo]
      BY <1>3 DEF PoseGrid
    <2>2. PICK size \in 1 .. MaxSide, parts \in 2 .. 3, halo \in 0 .. 2 :
            case' = [kind |-> "grid", w |-> w, h |-> h, size |-> size, parts |-> parts, halo |-> halo]
      BY <2>1
    <2>3. /\ w \in Nat \ {0} /\ h \in Nat \ {0} /\ size \in Nat \ {0} /\ parts \in Nat \ {0}
          /\ halo \in Nat
      BY DecisionsAssumption
    <2> QED BY <2>2, <2>3 DEF CaseInv
  <1>4. CASE PoseOverlap
    <2>1. PICK extent \in 1 .. MaxExtent, size \in 2 .. MaxExtent :
            \E overlap \in 0 .. size - 1 :
              case' = [kind |-> "overlap", extent |-> extent, size |-> size, overlap |-> overlap]
      BY <1>4 DEF PoseOverlap
    <2>2. PICK overlap \in 0 .. size - 1 :
            case' = [kind |-> "overlap", extent |-> extent, size |-> size, overlap |-> overlap]
      BY <2>1
    <2>3. extent \in Nat \ {0} /\ size \in Nat \ {0, 1}
      BY DecisionsAssumption
    <2> QED BY <2>2, <2>3 DEF CaseInv
  <1>6. CASE PoseHalo
    <2>1. PICK given \in SUBSET {"node", "model"}, oir \in {0, 3, 20, 65, 400}, rf \in {0, 1, 9, 40},
              size \in {2, 8, 9, 33, 128, 129, 256} :
            case' = [kind |-> "halo", known |-> given, oir |-> oir, rf |-> rf, size |-> size]
      BY <1>6 DEF PoseHalo
    <2> QED BY <2>1 DEF CaseInv
  <1>5. CASE PoseRequest
    <2>1. PICK r \in Requests(Sizes, Budgets) : case' = [kind |-> "request", request |-> r]
      BY <1>5 DEF PoseRequest
    <2> QED BY <2>1 DEF CaseInv
  <1> QED BY <1>1, <1>2, <1>3, <1>4, <1>5, <1>6 DEF MCNext, PoseNext

\* A plan is what a policy says of the request, for every request and policy.
LEMMA PlanIsOfRequest ==
  ASSUME CaseInv, case.kind = "request"
  PROVE  PlanIsSound
  <1> PICK r : r = case.request
    OBVIOUS
  <1>1. /\ r.input \in {"npy", "pt", "tensor", "gds"} /\ r.bytes \in Nat /\ r.budget \in Nat
        /\ r.klayout \in BOOLEAN /\ r.aligned \in BOOLEAN /\ r.modelOk \in BOOLEAN
        /\ r.output \in {"oasis", "raster-npy", "tensor-mask"} /\ r.writer \in {"mbmw", "vsb"}
        /\ r.mode \in {"auto", "dense", "streaming"}
    BY DecisionsAssumption DEF CaseInv, Requests
  <1>2. ASSUME NEW excused \in BOOLEAN
        PROVE  /\ Blockers(r, excused) = <<>> <=>
                    /\ Probe(r).streams \/ (excused /\ Probe(r).explicit)
                    /\ OutputSupport(r).streams \/ (excused /\ OutputSupport(r).explicit)
                    /\ r.modelOk
               /\ Blockers(r, excused) # <<>> =>
                    \/ /\ Head(Blockers(r, excused)) = "UNSUPPORTED_INPUT"
                       /\ ~(Probe(r).streams \/ (excused /\ Probe(r).explicit))
                    \/ /\ Head(Blockers(r, excused)) = "UNSUPPORTED_OUTPUT"
                       /\ ~(OutputSupport(r).streams \/ (excused /\ OutputSupport(r).explicit))
                    \/ Head(Blockers(r, excused)) = "UNSUPPORTED_MODEL" /\ ~r.modelOk
    <2> DEFINE input == Probe(r).streams \/ (excused /\ Probe(r).explicit)
               output == OutputSupport(r).streams \/ (excused /\ OutputSupport(r).explicit)
               a == IF input THEN <<>> ELSE <<"UNSUPPORTED_INPUT">>
               b == IF output THEN <<>> ELSE <<"UNSUPPORTED_OUTPUT">>
               c == IF r.modelOk THEN <<>> ELSE <<"UNSUPPORTED_MODEL">>
    <2>1. Blockers(r, excused) = a \o b \o c
      BY DEF Blockers
    <2> HIDE DEF input, output
    <2>2. a \o b \o c = <<>> <=> input /\ output /\ r.modelOk
      OBVIOUS
    <2>3. a \o b \o c # <<>> =>
            \/ Head(a \o b \o c) = "UNSUPPORTED_INPUT" /\ ~input
            \/ Head(a \o b \o c) = "UNSUPPORTED_OUTPUT" /\ ~output
            \/ Head(a \o b \o c) = "UNSUPPORTED_MODEL" /\ ~r.modelOk
      OBVIOUS
    <2> QED BY <2>1, <2>2, <2>3 DEF input, output
  <1> DEFINE Agrees == /\ Under(r, "auto", r.budget).mode = "streaming"
                            => Under(r, "streaming", r.budget).mode = "streaming"
                       /\ Under(r, "auto", r.budget).mode = "refused"
                            => \A b \in Budgets : 0 < b /\ b <= r.budget
                                                    => Under(r, "auto", b).mode = "refused"
  <1>6. Agrees
    <2>1. r \in Requests(Sizes, Budgets)
      BY DEF CaseInv
    <2> DEFINE As(m, b) == [r EXCEPT !.mode = m, !.budget = b]
    <2>2. ASSUME NEW m, NEW b
          PROVE  /\ Probe(As(m, b)) = Probe(r) /\ As(m, b).mode = m /\ As(m, b).budget = b
                 /\ \A excused \in BOOLEAN : Blockers(As(m, b), excused) = Blockers(r, excused)
                 /\ PlanExecution(As(m, b)) = Under(r, m, b)
      <3> PICK s : s = As(m, b)
        OBVIOUS
      <3>1. /\ s.input = r.input /\ s.bytes = r.bytes /\ s.klayout = r.klayout
            /\ s.aligned = r.aligned /\ s.output = r.output /\ s.writer = r.writer
            /\ s.modelOk = r.modelOk /\ s.mode = m /\ s.budget = b
        BY <2>1 DEF Requests
      <3>2. Probe(s) = Probe(r) /\ OutputSupport(s) = OutputSupport(r)
        BY <3>1 DEF Probe, OutputSupport
      <3>3. \A excused \in BOOLEAN : Blockers(s, excused) = Blockers(r, excused)
        BY <3>1, <3>2 DEF Blockers
      <3> QED BY <3>1, <3>2, <3>3 DEF Under
    <2> DEFINE Refuses(b) == b > 0 /\ Probe(r).estimate > b /\ Blockers(r, FALSE) # <<>>
    <2> HIDE DEF As
    <2>3. ASSUME NEW b
          PROVE  /\ Under(r, "auto", b).mode = "refused" <=> Refuses(b)
                 /\ Under(r, "auto", b).mode = "streaming" => Blockers(r, FALSE) = <<>>
      <3>1. PICK s : s = As("auto", b)
        OBVIOUS
      <3>2. /\ Probe(s) = Probe(r) /\ s.mode = "auto" /\ s.budget = b
            /\ Blockers(s, FALSE) = Blockers(r, FALSE) /\ PlanExecution(s) = Under(r, "auto", b)
        BY <2>2, <3>1
      <3>3. OverPolicy(s) <=> b > 0 /\ Probe(r).estimate > b
        BY <3>2 DEF OverPolicy
      <3>4. PlanExecution(s) = IF ~OverPolicy(s) THEN Decision("dense", "SMALL_LAYOUT")
                               ELSE IF Blockers(r, FALSE) = <<>>
                                    THEN Decision("streaming", "REQUIRED_BY_MEMORY_POLICY")
                                    ELSE Decision("refused", Head(Blockers(r, FALSE)))
        BY <3>2 DEF PlanExecution
      <3> DEFINE why == Head(Blockers(r, FALSE))
                 over == OverPolicy(s)
                 clear == Blockers(r, FALSE) = <<>>
                 verdict == Under(r, "auto", b)
      <3>5. verdict = IF ~over THEN Decision("dense", "SMALL_LAYOUT")
                      ELSE IF clear THEN Decision("streaming", "REQUIRED_BY_MEMORY_POLICY")
                      ELSE Decision("refused", why)
        BY <3>2, <3>4
      <3>6. (over <=> b > 0 /\ Probe(r).estimate > b) /\ (clear <=> Blockers(r, FALSE) = <<>>)
        BY <3>3
      <3> HIDE DEF why, over, clear, verdict
      <3>7. (verdict.mode = "refused" <=> over /\ ~clear) /\ (verdict.mode = "streaming" => clear)
        BY ONLY <3>5 DEF Decision
      <3> QED BY ONLY <3>6, <3>7 DEF verdict, Refuses
    <2>4. ASSUME Blockers(r, FALSE) = <<>>
          PROVE  Under(r, "streaming", r.budget).mode = "streaming"
      <3>1. PICK s : s = As("streaming", r.budget)
        OBVIOUS
      <3>2. /\ s.mode = "streaming" /\ Blockers(s, TRUE) = Blockers(r, TRUE)
            /\ PlanExecution(s) = Under(r, "streaming", r.budget)
        BY <2>2, <3>1
      <3>3. Blockers(r, TRUE) = <<>>
        BY <1>2, <2>4
      <3>4. PlanExecution(s) = Decision("streaming", "SUPPORTED")
        BY <3>2, <3>3 DEF PlanExecution
      <3> QED BY <3>2, <3>4 DEF Decision
    <2>5. ASSUME Refuses(r.budget), NEW b \in Budgets, 0 < b, b <= r.budget PROVE Refuses(b)
      <3>1. b \in Nat /\ r.budget \in Nat
        BY <1>1, DecisionsAssumption
      <3> DEFINE estimate == Probe(r).estimate
      <3>2. estimate \in Nat
        BY <1>1 DEF Probe
      <3> HIDE DEF estimate
      <3>3. r.budget > 0 /\ estimate > r.budget /\ Blockers(r, FALSE) # <<>>
        BY <2>5 DEF estimate
      <3>4. b > 0 /\ estimate > b
        BY ONLY <2>5, <3>1, <3>2, <3>3
      <3> QED BY <3>3, <3>4 DEF estimate
    <2>6. \A b \in Budgets : b \in Nat
      BY DecisionsAssumption
    <2> HIDE DEF Refuses
    <2> QED BY <1>1, <2>3, <2>4, <2>5, <2>6
  <1>7. Agrees => /\ Under(case.request, "auto", case.request.budget).mode = "streaming"
                       => Under(case.request, "streaming", case.request.budget).mode = "streaming"
                  /\ Under(case.request, "auto", case.request.budget).mode = "refused"
                       => \A b \in Budgets : 0 < b /\ b <= case.request.budget
                                               => Under(case.request, "auto", b).mode = "refused"
    OBVIOUS
  <1> HIDE DEF Agrees
  <1>3. CASE r.mode = "dense"
    <2>1. PlanExecution(r).mode = "dense"
      BY <1>3 DEF PlanExecution, Decision
    <2> QED BY <1>3, <2>1, <1>6, <1>7 DEF PlanIsSound
  <1>4. CASE r.mode = "streaming"
    <2>1. CASE Blockers(r, TRUE) = <<>>
      <3>1. PlanExecution(r).mode = "streaming"
        BY <1>4, <2>1 DEF PlanExecution, Decision
      <3>2. Probe(r).streams \/ Probe(r).explicit
        BY <1>2, <2>1
      <3>3. OutputSupport(r).streams \/ OutputSupport(r).explicit
        BY <1>2, <2>1
      <3> QED BY <1>1, <1>2, <1>4, <2>1, <3>1, <3>2, <3>3, <1>6, <1>7 DEF PlanIsSound, Probe, OutputSupport
    <2>2. CASE Blockers(r, TRUE) # <<>>
      <3>1. PlanExecution(r) = Decision("refused", Head(Blockers(r, TRUE)))
        BY <1>4, <2>2 DEF PlanExecution
      <3>2. PlanExecution(r).mode = "refused" /\ PlanExecution(r).reason = Head(Blockers(r, TRUE))
        BY <3>1 DEF Decision
      <3> QED BY <1>1, <1>2, <1>4, <2>2, <3>2, <1>6, <1>7 DEF PlanIsSound, Probe, OutputSupport
    <2> QED BY <2>1, <2>2
  <1>5. CASE r.mode = "auto"
    <2>1. CASE ~OverPolicy(r)
      <3>1. PlanExecution(r).mode = "dense"
        BY <1>5, <2>1 DEF PlanExecution, Decision
      <3> QED BY <1>1, <1>5, <2>1, <3>1, <1>6, <1>7 DEF PlanIsSound, OverPolicy, Probe
    <2>2. CASE OverPolicy(r) /\ Blockers(r, FALSE) = <<>>
      <3>1. PlanExecution(r).mode = "streaming"
        BY <1>5, <2>2 DEF PlanExecution, Decision
      <3> QED BY <1>1, <1>2, <1>5, <2>2, <3>1, <1>6, <1>7 DEF PlanIsSound, OverPolicy, Probe, OutputSupport
    <2>3. CASE OverPolicy(r) /\ Blockers(r, FALSE) # <<>>
      <3>1. PlanExecution(r) = Decision("refused", Head(Blockers(r, FALSE)))
        BY <1>5, <2>3 DEF PlanExecution
      <3>2. PlanExecution(r).mode = "refused" /\ PlanExecution(r).reason = Head(Blockers(r, FALSE))
        BY <3>1 DEF Decision
      <3>3. r.budget > 0 /\ r.bytes > r.budget
        BY <1>1, <2>3 DEF OverPolicy, Probe
      <3> QED BY <1>1, <1>2, <1>5, <2>3, <3>2, <3>3, <1>6, <1>7 DEF PlanIsSound, Probe, OutputSupport
    <2> QED BY <2>1, <2>2, <2>3
  <1> QED BY <1>1, <1>3, <1>4, <1>5

\* Every plan can be carried out and is the one asked for, whatever the size of the layout and
\* the memory policy; and a refusal names what is missing.
THEOREM PlansAreSound == MCSpec => []PlanIsSound
  <1>1. MCInit => CaseInv
    BY DEF MCInit, PoseInit, CaseInv
  <1>2. CaseInv => PlanIsSound
    <2>1. case.kind # "request" => PlanIsSound
      BY DEF PlanIsSound
    <2> QED BY <2>1, PlanIsOfRequest
  <1> QED BY <1>1, <1>2, CaseStep, PTL DEF MCSpec

\* A sum of numbers that are not negative is as large as each of them.
LEMMA SumIsNoLess ==
  ASSUME NEW S, IsFiniteSet(S), NEW f \in [S -> Nat], NEW x \in S
  PROVE  SumFunction(f) \in Nat /\ f[x] <= SumFunction(f)
  <1> DEFINE One(T) == CHOOSE y \in T : TRUE
             Value(h, T) == IF T = {} THEN 0 ELSE f[One(T)] + h[T \ {One(T)}]
             Adds(h) == h = [T \in SUBSET S |-> Value(h, T)]
             Upto(h, n) == \A T \in SUBSET S : Cardinality(T) <= n => h[T] = Value(h, T)
             NoHeights == {n \in Nat : ~\E h \in [SUBSET S -> Nat] : Upto(h, n)}
  <1>1. \A T \in SUBSET S : /\ IsFiniteSet(T) /\ Cardinality(T) \in Nat /\ Cardinality(T) <= Cardinality(S)
                            /\ Cardinality(T) = 0 <=> T = {}
    BY FS_Subset, FS_CardinalityType, FS_EmptySet
  <1>2. \A T \in SUBSET S : T # {} => /\ One(T) \in T /\ One(T) \in S /\ T \ {One(T)} \in SUBSET S
                                      /\ Cardinality(T \ {One(T)}) = Cardinality(T) - 1
    BY <1>1, FS_RemoveElement
  <1> HIDE DEF One
  <1>3. NoHeights = {}
    <2> SUFFICES ASSUME NoHeights # {} PROVE FALSE
      OBVIOUS
    <2>1. PICK n \in NoHeights : \A m \in NoHeights : n <= m
      BY LeastNumber
    <2>2. CASE n = 0
      <3>1. PICK h : h = [T \in SUBSET S |-> 0]
        OBVIOUS
      <3>2. h \in [SUBSET S -> Nat] /\ Upto(h, 0)
        BY <1>1, <3>1
      <3> QED BY <2>1, <2>2, <3>2
    <2>3. CASE n # 0
      <3>1. n - 1 \in Nat /\ n - 1 \notin NoHeights
        <4>1. n \in Nat /\ n - 1 \in Nat /\ ~(n <= n - 1)
          BY <2>3
        <4> HIDE DEF NoHeights
        <4> QED BY <2>1, <4>1
      <3>2. PICK h \in [SUBSET S -> Nat] : Upto(h, n - 1)
        BY <3>1
      <3>3. PICK g : g = [T \in SUBSET S |-> Value(h, T)]
        OBVIOUS
      <3>4. g \in [SUBSET S -> Nat]
        <4>1. ASSUME NEW T \in SUBSET S PROVE Value(h, T) \in Nat
          <5>1. CASE T = {}
            BY <5>1
          <5>2. CASE T # {}
            <6>1. f[One(T)] \in Nat /\ h[T \ {One(T)}] \in Nat
              BY <1>2, <5>2
            <6> QED BY <5>2, <6>1
          <5> QED BY <5>1, <5>2
        <4> HIDE DEF Value
        <4> QED BY <3>3, <4>1
      <3>5. \A T \in SUBSET S : Cardinality(T) <= n - 1 => g[T] = h[T]
        BY <3>2, <3>3
      <3>6. ASSUME NEW T \in SUBSET S, Cardinality(T) <= n, T # {}
            PROVE  g[T] = f[One(T)] + g[T \ {One(T)}]
        <4>1. T \ {One(T)} \in SUBSET S /\ Cardinality(T \ {One(T)}) <= n - 1
          BY <1>1, <1>2, <2>1, <3>6
        <4>2. g[T \ {One(T)}] = h[T \ {One(T)}]
          BY <3>5, <4>1
        <4> QED BY <3>3, <3>6, <4>2
      <3>7. Upto(g, n)
        BY <3>3, <3>6
      <3> QED BY <2>1, <3>4, <3>7
    <2> QED BY <2>2, <2>3
  <1>4. \E h : Adds(h)
    <2>1. Cardinality(S) \in Nat
      BY <1>1
    <2>2. PICK h \in [SUBSET S -> Nat] : Upto(h, Cardinality(S))
      BY <1>3, <2>1
    <2>3. \A T \in SUBSET S : h[T] = Value(h, T)
      BY <1>1, <2>2
    <2> HIDE DEF Value
    <2>4. h = [T \in SUBSET S |-> Value(h, T)]
      BY <2>3
    <2> QED BY <2>4
  <1> DEFINE sum == CHOOSE h : Adds(h)
  <1>5. Adds(sum)
    BY <1>4
  <1> PICK g : g = sum
    OBVIOUS
  <1>6. \A T \in SUBSET S : g[T] = Value(g, T)
    BY <1>5
  <1> HIDE DEF sum
  <1> DEFINE Small == {n \in Nat : \E T \in SUBSET S :
                         Cardinality(T) = n /\ ~(g[T] \in Nat /\ \A y \in T : f[y] <= g[T])}
  <1>7. Small = {}
    <2> SUFFICES ASSUME Small # {} PROVE FALSE
      OBVIOUS
    <2>1. PICK n \in Small : \A m \in Small : n <= m
      BY LeastNumber
    <2>2. PICK T \in SUBSET S : Cardinality(T) = n /\ ~(g[T] \in Nat /\ \A y \in T : f[y] <= g[T])
      BY <2>1
    <2>3. T # {}
      BY <1>6, <2>2
    <2> PICK U, o : U = T \ {One(T)} /\ o = One(T)
      OBVIOUS
    <2>4. U \in SUBSET S /\ Cardinality(U) = n - 1 /\ n - 1 \in Nat /\ o \in T /\ T = U \cup {o}
      BY <1>1, <1>2, <2>2, <2>3
    <2>5. n - 1 \notin Small
      BY <2>1, <2>4
    <2>6. g[U] \in Nat /\ \A y \in U : f[y] <= g[U]
      BY <2>4, <2>5
    <2>7. g[T] = f[o] + g[U] /\ f[o] \in Nat
      BY <1>2, <1>6, <2>3
    <2>8. g[T] \in Nat /\ f[o] <= g[T] /\ g[U] <= g[T]
      BY <2>6, <2>7
    <2>9. ASSUME NEW y \in U PROVE f[y] <= g[T]
      <3>1. f[y] \in Nat /\ f[y] <= g[U]
        BY <2>4, <2>6
      <3> QED BY <2>6, <2>8, <3>1
    <2> QED BY <2>2, <2>4, <2>8, <2>9
  <1>8. g[S] \in Nat /\ f[x] <= g[S]
    BY <1>1, <1>7
  <1>9. SumFunction(f) = g[S]
    BY DEF SumFunction, SumFunctionOnSet, FoldFunctionOnSet, MapThenFoldSet, One, sum
  <1> QED BY <1>8, <1>9

\* A halo that is less than a tile and, unless it is all the tile leaves, as wide as what is
\* known asks for.
IsWide(halo, given, oir, rf, size) ==
  /\ halo < size
  /\ \/ halo = size - 1
     \/ /\ "node" \in given => halo * 2 >= oir
        /\ "model" \in given => halo >= rf
        /\ given = {} => halo = DEFAULT_HALO_PX

\* The halo is less than a tile, and as wide as optics and model need unless that is too wide.
LEMMA HaloIsWide ==
  ASSUME NEW given, NEW oir \in Nat, NEW rf \in Nat, NEW size \in Nat \ {0, 1},
         NEW halo, halo = HaloPx(given, oir, 2, rf, size)
  PROVE  IsWide(halo, given, oir, rf, size)
  <1> DEFINE half == IF "node" \in given THEN Steps(oir, 2) ELSE 0
             field == IF "model" \in given THEN rf ELSE 0
             raw == Greater(half, field)
             round == 8 * Steps(raw, 8)
             wide == IF given = {} THEN DEFAULT_HALO_PX ELSE round
  <1>1. half \in Nat /\ ("node" \in given => half * 2 >= oir)
    BY DEF Steps
  <1>2. field \in Nat /\ ("model" \in given => field >= rf)
    OBVIOUS
  <1>3. halo = IF wide < size - 1 THEN wide ELSE size - 1
    BY DEF HaloPx, HALO_ROUND_PX, Lesser
  <1> HIDE DEF half, field
  <1>4. raw \in Nat /\ raw >= half /\ raw >= field
    BY <1>1, <1>2 DEF Greater
  <1> HIDE DEF raw
  <1>5. round \in Nat /\ round >= raw
    BY <1>4 DEF Steps
  <1> HIDE DEF round
  <1>6. wide \in Nat /\ (given # {} => wide >= raw) /\ (given = {} => wide = DEFAULT_HALO_PX)
    BY <1>5 DEF DEFAULT_HALO_PX
  <1> HIDE DEF wide
  <1>7. halo < size /\ (halo = size - 1 \/ halo = wide)
    BY <1>3, <1>6
  <1>8. CASE given = {}
    BY <1>6, <1>7, <1>8 DEF IsWide
  <1>9. CASE given # {} /\ halo = wide
    <2>1. halo \in Nat /\ halo >= half /\ halo >= field
      BY <1>1, <1>2, <1>4, <1>6, <1>9
    <2> QED BY <1>1, <1>2, <1>7, <1>9, <2>1 DEF IsWide
  <1> QED BY <1>7, <1>8, <1>9 DEF IsWide

\* The pieces of an axis: one that is the axis if that is shorter than a tile, and otherwise
\* one of the size of a tile for each step that begins inside, pulled back at the end.
LEMMA PiecesOfAxis ==
  ASSUME NEW extent \in Nat \ {0}, NEW size \in Nat \ {0, 1}, NEW overlap \in 0 .. size - 1,
         NEW stride, stride = size - overlap
  PROVE  /\ IsFiniteSet(Pieces(extent, size, overlap))
         /\ extent < size => Pieces(extent, size, overlap) = {[at |-> 0, len |-> extent]}
         /\ extent >= size =>
              /\ \A p \in Pieces(extent, size, overlap) :
                   p.at \in 0 .. extent - size /\ p.len = size
              /\ \A q \in Nat : q * stride < extent =>
                   [at |-> IF q * stride + size > extent THEN extent - size ELSE q * stride, len |-> size]
                     \in Pieces(extent, size, overlap)
  <1> DEFINE cap == IF extent < size THEN 1 ELSE extent
             At(p) == IF p + size > extent /\ extent >= size THEN extent - size ELSE p
             Piece(p) == [at |-> At(p * stride), len |-> Lesser(size, extent)]
  <1>1. stride \in Nat \ {0} /\ cap \in Nat \ {0}
    OBVIOUS
  <1> PICK n : n = Steps(cap, stride)
    OBVIOUS
  <1>2. n \in Int /\ cap <= stride * n /\ stride * (n - 1) < cap
    <2> HIDE DEF cap
    <2> QED BY <1>1 DEF Steps
  <1>3. n \in Nat \ {0}
    <2> HIDE DEF cap
    <2> QED BY <1>1, <1>2
  <1>4. Pieces(extent, size, overlap) = {Piece(p) : p \in 0 .. n - 1}
    BY DEF Pieces
  <1>5. IsFiniteSet(Pieces(extent, size, overlap))
    <2>1. PICK f : f = [p \in 0 .. n - 1 |-> Piece(p)]
      OBVIOUS
    <2> HIDE DEF Piece
    <2>2. f \in Surjection(0 .. n - 1, Pieces(extent, size, overlap))
      BY <1>4, <2>1 DEF Surjection
    <2>3. IsFiniteSet(0 .. n - 1)
      BY <1>3, FS_Interval
    <2> QED BY <2>2, <2>3, FS_Surjection
  <1>6. ASSUME extent < size PROVE Pieces(extent, size, overlap) = {[at |-> 0, len |-> extent]}
    <2>1. n = 1
      <3>1. cap = 1
        BY <1>6
      <3>2. n >= 2 => stride * (n - 1) >= 1
        BY <1>1, <1>3
      <3> QED BY <1>2, <1>3, <3>1, <3>2
    <2>2. Piece(0) = [at |-> 0, len |-> extent]
      BY <1>1, <1>6 DEF Lesser
    <2> HIDE DEF Piece
    <2> QED BY <1>4, <2>1, <2>2
  <1>7. ASSUME extent >= size, NEW q \in Nat
        PROVE  Piece(q) = [at |-> IF q * stride + size > extent THEN extent - size ELSE q * stride, len |-> size]
    <2>1. Lesser(size, extent) = size
      BY <1>7 DEF Lesser
    <2> QED BY <1>7, <2>1
  <1>8. ASSUME extent >= size, NEW q \in Nat
        PROVE  q \in 0 .. n - 1 <=> q * stride < extent
    <2>1. cap = extent
      BY <1>8
    <2>2. q <= n - 1 => q * stride <= stride * (n - 1)
      BY <1>1, <1>3
    <2>3. n <= q => stride * n <= q * stride
      BY <1>1, <1>3
    <2> PICK a, b, c : a = q * stride /\ b = stride * (n - 1) /\ c = stride * n
      OBVIOUS
    <2>4. a \in Int /\ b \in Int /\ c \in Int
      BY <1>1, <1>3
    <2> HIDE DEF cap
    <2> QED BY <1>2, <1>3, <2>1, <2>2, <2>3, <2>4
  <1>9. ASSUME extent >= size, NEW q \in 0 .. n - 1
        PROVE  Piece(q).at \in 0 .. extent - size /\ Piece(q).len = size
    <2>1. q \in Nat
      OBVIOUS
    <2> PICK a : a = q * stride
      OBVIOUS
    <2>2. a \in Nat
      BY <1>1, <2>1
    <2>3. Piece(q) = [at |-> IF a + size > extent THEN extent - size ELSE a, len |-> size]
      BY <1>7, <1>9, <2>1
    <2> HIDE DEF Piece
    <2> QED BY <1>9, <2>2, <2>3
  <1> HIDE DEF Piece, cap
  <1>10. ASSUME extent >= size, NEW q \in Nat, q * stride < extent
         PROVE  Piece(q) \in Pieces(extent, size, overlap)
    BY <1>4, <1>8, <1>10
  <1>11. ASSUME extent >= size, NEW q \in Nat, q * stride < extent
         PROVE  [at |-> IF q * stride + size > extent THEN extent - size ELSE q * stride, len |-> size]
                  \in Pieces(extent, size, overlap)
    BY <1>7, <1>10, <1>11
  <1>12. ASSUME extent >= size, NEW p \in Pieces(extent, size, overlap)
         PROVE  p.at \in 0 .. extent - size /\ p.len = size
    BY <1>4, <1>9, <1>12
  <1> QED BY <1>5, <1>6, <1>11, <1>12

\* Whatever the overlap, some piece over a pixel counts there: the last that begins before it.
LEMMA PixelHasAPiece ==
  ASSUME NEW extent \in Nat \ {0}, NEW size \in Nat \ {0, 1}, NEW overlap \in 0 .. size - 1,
         NEW x \in 0 .. extent - 1
  PROVE  \E p \in Holding(extent, size, overlap, x) : Weight(p, x, extent, overlap) > 0
  <1> DEFINE all == Pieces(extent, size, overlap)
             full == IF overlap > 1 THEN overlap - 1 ELSE 1
             Side(neighbour, i) == IF overlap > 1 /\ neighbour /\ i < overlap THEN i ELSE full
  <1>1. ASSUME NEW p \in all, NEW at \in Nat, NEW len \in Nat, p.at = at, p.len = len,
               at <= x, x < at + len,
               \/ overlap <= 1
               \/ (at > 0 => at < x) /\ (at + len < extent => x + 1 < at + len)
        PROVE  p \in Holding(extent, size, overlap, x) /\ Weight(p, x, extent, overlap) > 0
    <2>1. p \in Holding(extent, size, overlap, x)
      BY <1>1 DEF Holding
    <2> PICK l, r : l = Side(at > 0, x - at) /\ r = Side(at + len < extent, at + len - 1 - x)
      OBVIOUS
    <2>2. l \in Nat \ {0} /\ r \in Nat \ {0}
      BY <1>1
    <2>3. Weight(p, x, extent, overlap) = l * r
      BY <1>1 DEF Weight, Ramped
    <2>4. l * r > 0
      BY <2>2
    <2> QED BY <2>1, <2>3, <2>4
  <1>2. CASE extent < size
    <2> PICK p : p = [at |-> 0, len |-> extent]
      OBVIOUS
    <2>1. p \in all
      BY <1>2, PiecesOfAxis
    <2>2. p.at = 0 /\ p.len = extent
      OBVIOUS
    <2> HIDE DEF all, Side
    <2> QED BY <1>1, <1>2, <2>1, <2>2
  <1>3. CASE extent >= size
    <2> PICK stride : stride = size - overlap
      OBVIOUS
    <2>1. stride \in Nat \ {0} /\ stride <= size
      OBVIOUS
    \* The step to take begins before y, and y is not beyond x.
    <2>2. ASSUME NEW y \in Nat, y <= x,
                 IF overlap <= 1 THEN y = x ELSE y = x - 1 \/ (x = 0 /\ y = 0)
          PROVE  \E p \in Holding(extent, size, overlap, x) : Weight(p, x, extent, overlap) > 0
      <3> PICK q, a : q = y \div stride /\ a = q * stride
        OBVIOUS
      <3>1. q \in Nat /\ a \in Nat /\ a <= y /\ y < a + stride
        <4> PICK r : r = y % stride
          OBVIOUS
        <4>1. q \in Nat /\ r \in 0 .. stride - 1 /\ y = stride * q + r /\ a = stride * q
          BY <2>1
        <4> QED BY <2>1, <4>1
      <3> PICK at : at = IF a + size > extent THEN extent - size ELSE a
        OBVIOUS
      <3> PICK p : p = [at |-> at, len |-> size]
        OBVIOUS
      <3>2. a < extent
        BY <2>2, <3>1
      <3>3. p \in all
        BY <1>3, <3>1, <3>2, PiecesOfAxis
      <3>4. p.at = at /\ p.len = size /\ at \in Nat
        BY <1>3, <3>1
      <3>5. at <= x /\ x < at + size
        BY <1>3, <2>1, <2>2, <3>1
      <3>6. overlap > 1 => (at > 0 => at < x) /\ (at + size < extent => x + 1 < at + size)
        <4> SUFFICES ASSUME overlap > 1
                     PROVE  (at > 0 => at < x) /\ (at + size < extent => x + 1 < at + size)
          OBVIOUS
        <4>1. stride <= size - 2 /\ (y = x - 1 \/ (x = 0 /\ y = 0)) /\ at <= a
          BY <1>3, <2>2, <3>1
        <4>2. at + size < extent => at = a
          BY <1>3, <3>1
        <4>3. CASE x = 0
          <5>1. a = 0 /\ at = 0 /\ size >= 2
            BY <2>2, <3>1, <3>4, <4>1, <4>3
          <5> QED BY <4>3, <5>1
        <4>4. CASE x # 0
          BY <1>3, <2>1, <3>1, <3>4, <4>1, <4>2, <4>4
        <4> QED BY <4>3, <4>4
      <3> HIDE DEF all, Side
      <3> QED BY <1>1, <3>3, <3>4, <3>5, <3>6
    <2>3. CASE overlap <= 1
      BY <2>2, <2>3
    <2>4. CASE overlap > 1 /\ x = 0
      BY <2>2, <2>4
    <2>5. CASE overlap > 1 /\ x # 0
      <3>1. x - 1 \in Nat
        BY <2>5
      <3> QED BY <2>2, <2>5, <3>1
    <2> QED BY <2>3, <2>4, <2>5
  <1> QED BY <1>2, <1>3

\* The blend of the dense executor leaves no pixel black: the weights over it do not add up to
\* zero, for any extent, tile size and overlap.
THEOREM NoPixelIsBlack ==
  ASSUME NEW extent \in Nat \ {0}, NEW size \in Nat \ {0, 1}, NEW overlap \in 0 .. size - 1,
         NEW x \in 0 .. extent - 1
  PROVE  TotalWeight(extent, size, overlap, x) > 0
  <1> PICK S, f : /\ S = Holding(extent, size, overlap, x)
                  /\ f = [p \in S |-> Weight(p, x, extent, overlap)]
    OBVIOUS
  <1>1. IsFiniteSet(S)
    <2>1. S \subseteq Pieces(extent, size, overlap)
      BY DEF Holding
    <2> QED BY <2>1, PiecesOfAxis, FS_Subset
  <1>2. f \in [S -> Nat]
    <2>1. ASSUME NEW p \in S PROVE Weight(p, x, extent, overlap) \in Nat
      <3> PICK l, r : /\ l = (IF Ramped(overlap) /\ p.at > 0 /\ x - p.at < overlap THEN x - p.at
                              ELSE IF overlap > 1 THEN overlap - 1 ELSE 1)
                      /\ r = (IF Ramped(overlap) /\ p.at + p.len < extent /\ p.at + p.len - 1 - x < overlap
                              THEN p.at + p.len - 1 - x ELSE IF overlap > 1 THEN overlap - 1 ELSE 1)
        OBVIOUS
      <3>1. p \in Pieces(extent, size, overlap) /\ p.at <= x /\ x < p.at + p.len
        BY DEF Holding
      <3>2. p.at \in Nat /\ p.len \in Nat
        <4>1. CASE extent < size
          BY <3>1, <4>1, PiecesOfAxis
        <4>2. CASE extent >= size
          BY <3>1, <4>2, PiecesOfAxis
        <4> QED BY <4>1, <4>2
      <3>3. l \in Nat /\ r \in Nat
        BY <3>1, <3>2
      <3>4. Weight(p, x, extent, overlap) = l * r
        BY DEF Weight
      <3> QED BY <3>3, <3>4
    <2> QED BY <2>1
  <1>3. PICK p \in S : f[p] > 0
    BY PixelHasAPiece
  <1>4. SumFunction(f) \in Nat /\ f[p] <= SumFunction(f)
    BY <1>1, <1>2, SumIsNoLess
  <1>5. TotalWeight(extent, size, overlap, x) = SumFunction(f)
    BY DEF TotalWeight
  <1> QED BY <1>2, <1>3, <1>4, <1>5

\* A core is read with a window around it that stays inside the chip, and is wider than the
\* core by the halo at most.
LEMMA WindowIsAround ==
  ASSUME NEW w \in Nat \ {0}, NEW h \in Nat \ {0}, NEW halo \in Nat,
         NEW core \in Boxes, Covers(Box(0, 0, w, h), core),
         NEW read, read = ReadBox(core, Uniform(halo), w, h)
  PROVE  /\ Covers(Box(0, 0, w, h), read) /\ Covers(read, core)
         /\ WidestSide(HaloActual(core, read)) <= halo
  <1>1. /\ core.x0 \in Nat /\ core.y0 \in Nat /\ core.x1 \in Nat /\ core.y1 \in Nat
        /\ core.x1 <= w /\ core.y1 <= h
    BY DEF Covers, Box, Boxes, Nonempty
  <1> PICK x0, y0, x1, y1 : /\ x0 = (IF 0 < core.x0 - halo THEN core.x0 - halo ELSE 0)
                            /\ y0 = (IF 0 < core.y0 - halo THEN core.y0 - halo ELSE 0)
                            /\ x1 = (IF w < core.x1 + halo THEN w ELSE core.x1 + halo)
                            /\ y1 = (IF h < core.y1 + halo THEN h ELSE core.y1 + halo)
    OBVIOUS
  <1>2. read = Box(x0, y0, x1, y1)
    BY DEF ReadBox, Uniform, Greater, Lesser
  <1>3. read.x0 = x0 /\ read.y0 = y0 /\ read.x1 = x1 /\ read.y1 = y1
    BY <1>2 DEF Box
  <1>4. /\ 0 <= x0 /\ x0 <= core.x0 /\ core.x0 - x0 \in 0 .. halo
        /\ 0 <= y0 /\ y0 <= core.y0 /\ core.y0 - y0 \in 0 .. halo
        /\ core.x1 <= x1 /\ x1 <= w /\ x1 - core.x1 \in 0 .. halo
        /\ core.y1 <= y1 /\ y1 <= h /\ y1 - core.y1 \in 0 .. halo
    BY <1>1
  <1>5. Covers(Box(0, 0, w, h), read) /\ Covers(read, core)
    BY <1>3, <1>4 DEF Covers, Box
  <1>6. WidestSide(HaloActual(core, read)) <= halo
    <2> PICK a, b, c, d : /\ a = core.x0 - x0 /\ b = core.y0 - y0
                          /\ c = x1 - core.x1 /\ d = y1 - core.y1
      OBVIOUS
    <2>1. a \in 0 .. halo /\ b \in 0 .. halo /\ c \in 0 .. halo /\ d \in 0 .. halo
      BY <1>4
    <2>2. WidestSide(HaloActual(core, read)) = Max({a, b, c, d})
      BY <1>3 DEF WidestSide, HaloActual
    <2>3. \E m \in {a, b, c, d} : \A n \in {a, b, c, d} : m >= n
      BY <2>1
    <2>4. Max({a, b, c, d}) \in {a, b, c, d}
      BY <2>3 DEF Max
    <2> QED BY <2>1, <2>2, <2>4
  <1> QED BY <1>5, <1>6

\* Cores and their parts are exact covers and are read from inside the chip; every pixel of
\* the dense path has a tile that counts, and the halo is wide enough, for every extent.
THEOREM PixelsAreTiled == MCSpec => []EveryPixelIsTiled
  <1>1. MCInit => CaseInv
    BY DEF MCInit, PoseInit, CaseInv
  <1>2. ASSUME CaseInv PROVE EveryPixelIsTiled
    <2>1. ASSUME case.kind = "grid"
          PROVE  LET grid == CoreGrid(case.w, case.h, case.size)
                     chip == Box(0, 0, case.w, case.h)
                 IN  /\ ExactCover(grid, Pixels(chip))
                     /\ \A i \in DOMAIN grid :
                          LET parts == PartitionCore(grid[i], case.parts)
                              read  == ReadBox(grid[i], Uniform(case.halo), case.w, case.h)
                          IN  /\ ExactCover(parts, Pixels(grid[i]))
                              /\ CheckPartition(grid[i], parts)
                              /\ Covers(chip, read) /\ Covers(read, grid[i])
                              /\ WidestSide(HaloActual(grid[i], read)) <= case.halo
      <3> DEFINE grid == CoreGrid(case.w, case.h, case.size)
      <3>1. /\ case.w \in Nat \ {0} /\ case.h \in Nat \ {0} /\ case.size \in Nat \ {0}
            /\ case.parts \in Nat \ {0} /\ case.halo \in Nat
        BY <1>2, <2>1 DEF CaseInv
      <3>2. ExactCover(grid, Pixels(Box(0, 0, case.w, case.h)))
        BY <3>1, CoreGridCovers
      <3>3. \A i \in DOMAIN grid : grid[i] \in Boxes /\ Covers(Box(0, 0, case.w, case.h), grid[i])
        BY <3>1, CoreGridTiles DEF Tiles
      <3> HIDE DEF grid
      <3>4. ASSUME NEW i \in DOMAIN grid
            PROVE  LET parts == PartitionCore(grid[i], case.parts)
                       read  == ReadBox(grid[i], Uniform(case.halo), case.w, case.h)
                   IN  /\ ExactCover(parts, Pixels(grid[i]))
                       /\ CheckPartition(grid[i], parts)
                       /\ Covers(Box(0, 0, case.w, case.h), read) /\ Covers(read, grid[i])
                       /\ WidestSide(HaloActual(grid[i], read)) <= case.halo
        BY <3>1, <3>3, SplitConserves, WindowIsAround
      <3> QED BY <3>2, <3>4 DEF grid
    <2>2. ASSUME case.kind = "overlap"
          PROVE  /\ \A x \in 0 .. case.extent - 1 :
                      TotalWeight(case.extent, case.size, case.overlap, x) > 0
                 /\ \A p \in Pieces(case.extent, case.size, case.overlap) :
                      0 <= p.at /\ p.at + p.len <= case.extent
      <3>1. /\ case.extent \in Nat \ {0} /\ case.size \in Nat \ {0, 1}
            /\ case.overlap \in 0 .. case.size - 1
        BY <1>2, <2>2 DEF CaseInv
      <3> PICK extent, size, overlap :
            extent = case.extent /\ size = case.size /\ overlap = case.overlap
        OBVIOUS
      <3>2. \A x \in 0 .. extent - 1 : TotalWeight(extent, size, overlap, x) > 0
        BY <3>1, NoPixelIsBlack
      <3>3. ASSUME NEW p \in Pieces(extent, size, overlap)
            PROVE  0 <= p.at /\ p.at + p.len <= extent
        <4>1. CASE extent < size
          <5>1. p = [at |-> 0, len |-> extent]
            BY <3>1, <3>3, <4>1, PiecesOfAxis
          <5> QED BY <3>1, <5>1
        <4>2. CASE extent >= size
          <5>1. p.at \in 0 .. extent - size /\ p.len = size
            BY <3>1, <3>3, <4>2, PiecesOfAxis
          <5> QED BY <3>1, <4>2, <5>1
        <4> QED BY <3>1, <4>1, <4>2
      <3> QED BY <3>2, <3>3
    <2>3. ASSUME case.kind = "halo"
          PROVE  LET halo == HaloPx(case.known, case.oir, 2, case.rf, case.size)
                 IN  /\ halo < case.size
                     /\ \/ halo = case.size - 1
                        \/ /\ "node" \in case.known => halo * 2 >= case.oir
                           /\ "model" \in case.known => halo >= case.rf
                           /\ case.known = {} => halo = DEFAULT_HALO_PX
      <3>1. case.size \in Nat \ {0, 1} /\ case.oir \in Nat /\ case.rf \in Nat
        BY <1>2, <2>3 DEF CaseInv
      <3> PICK given, oir, rf, size :
            given = case.known /\ oir = case.oir /\ rf = case.rf /\ size = case.size
        OBVIOUS
      <3>2. size \in Nat \ {0, 1} /\ oir \in Nat /\ rf \in Nat
        BY <3>1
      <3>3. \A halo : halo = HaloPx(given, oir, 2, rf, size) => IsWide(halo, given, oir, rf, size)
        BY ONLY <3>2, HaloIsWide
      <3>4. IsWide(HaloPx(given, oir, 2, rf, size), given, oir, rf, size)
        BY <3>3
      <3> QED BY <3>4 DEF IsWide
    <2> QED BY <2>1, <2>2, <2>3 DEF EveryPixelIsTiled
  <1> QED BY <1>1, <1>2, CaseStep, PTL DEF MCSpec

\* Every layout that is asked about is a finite set of polygons.
LEMMA LayoutsAreLayouts ==
  ASSUME NEW t \in Triangles, NEW o \in Others
  PROVE  IsLayout(Layout(t, o))
  <1>1. MaxSide \in Nat /\ 0 .. MaxSide \subseteq Int
    BY DecisionsAssumption
  <1>2. \A x0, y0, x1, y1 \in Int :
          Rectangle(x0, y0, x1, y1) \in Seq(Points) /\ Rectangle(x0, y0, x1, y1) # <<>>
    <2> SUFFICES ASSUME NEW x0 \in Int, NEW y0 \in Int, NEW x1 \in Int, NEW y1 \in Int
                 PROVE  Rectangle(x0, y0, x1, y1) \in Seq(Points) /\ Rectangle(x0, y0, x1, y1) # <<>>
      OBVIOUS
    <2>1. <<x0, y0>> \in Points /\ <<x1, y0>> \in Points /\ <<x1, y1>> \in Points /\ <<x0, y1>> \in Points
      BY DEF Points
    <2> QED BY <2>1 DEF Rectangle
  <1>3. t \in Seq(Points) /\ t # <<>>
    <2>1. t \in Vertices \X Vertices \X Vertices
      BY DEF Triangles
    <2>2. t = <<t[1], t[2], t[3]>> /\ t[1] \in Vertices /\ t[2] \in Vertices /\ t[3] \in Vertices
      BY <2>1
    <2>3. Vertices \subseteq Points
      BY <1>1 DEF Vertices, Points
    <2> PICK a \in Points, b \in Points, c \in Points : t = <<a, b, c>>
      BY <2>2, <2>3
    <2> QED OBVIOUS
  <1>4. /\ o.outer \in Seq(Points) /\ o.outer # <<>>
        /\ o.holes \in Seq(Seq(Points))
    <2>1. <<>> \in Seq(Seq(Points))
      OBVIOUS
    <2>2. CASE o = [outer |-> Rectangle(0, 0, 3, 3), holes |-> <<Rectangle(1, 1, 2, 2)>>]
      <3>1. Rectangle(0, 0, 3, 3) \in Seq(Points) /\ Rectangle(0, 0, 3, 3) # <<>>
        BY <1>2
      <3>2. Rectangle(1, 1, 2, 2) \in Seq(Points)
        BY <1>2
      <3>3. <<Rectangle(1, 1, 2, 2)>> \in Seq(Seq(Points))
        BY <3>2
      <3> QED BY <2>2, <3>1, <3>3
    <2>3. CASE o = [outer |-> Rectangle(-1, 1, MaxSide + 2, 2), holes |-> <<>>]
      <3>1. Rectangle(-1, 1, MaxSide + 2, 2) \in Seq(Points) /\ Rectangle(-1, 1, MaxSide + 2, 2) # <<>>
        BY <1>1, <1>2
      <3> QED BY <2>1, <2>3, <3>1
    <2>4. CASE o = [outer |-> <<<<0, 0>>, <<3, 0>>, <<3, 1>>, <<1, 1>>, <<1, 3>>, <<0, 3>>>>, holes |-> <<>>]
      <3>1. /\ <<0, 0>> \in Points /\ <<3, 0>> \in Points /\ <<3, 1>> \in Points
            /\ <<1, 1>> \in Points /\ <<1, 3>> \in Points /\ <<0, 3>> \in Points
        BY DEF Points
      <3>2. \A a, b, c, d, e, f \in Points :
              <<a, b, c, d, e, f>> \in Seq(Points) /\ <<a, b, c, d, e, f>> # <<>>
        OBVIOUS
      <3>3. /\ <<<<0, 0>>, <<3, 0>>, <<3, 1>>, <<1, 1>>, <<1, 3>>, <<0, 3>>>> \in Seq(Points)
            /\ <<<<0, 0>>, <<3, 0>>, <<3, 1>>, <<1, 1>>, <<1, 3>>, <<0, 3>>>> # <<>>
        BY <3>1, <3>2
      <3> QED BY <2>1, <2>4, <3>3
    <2>5. CASE o = [outer |-> <<<<0, 0>>, <<3, 3>>, <<3, 0>>, <<0, 3>>>>, holes |-> <<>>]
      <3>1. <<0, 0>> \in Points /\ <<3, 3>> \in Points /\ <<3, 0>> \in Points /\ <<0, 3>> \in Points
        BY DEF Points
      <3>2. \A a, b, c, d \in Points : <<a, b, c, d>> \in Seq(Points) /\ <<a, b, c, d>> # <<>>
        OBVIOUS
      <3> QED BY <2>1, <2>5, <3>1, <3>2
    <2>6. CASE o = [outer |-> Rectangle(0, 0, 4, 2),
                    holes |-> <<Rectangle(0, 0, 2, 1), Rectangle(1, 0, 3, 2)>>]
      <3>1. Rectangle(0, 0, 4, 2) \in Seq(Points) /\ Rectangle(0, 0, 4, 2) # <<>>
        BY <1>2
      <3>2. Rectangle(0, 0, 2, 1) \in Seq(Points) /\ Rectangle(1, 0, 3, 2) \in Seq(Points)
        BY <1>2
      <3>3. <<Rectangle(0, 0, 2, 1), Rectangle(1, 0, 3, 2)>> \in Seq(Seq(Points))
        BY <3>2
      <3> QED BY <2>6, <3>1, <3>3
    <2> QED BY <2>2, <2>3, <2>4, <2>5, <2>6 DEF Others
  <1> PICK p, q : /\ p = [id |-> 1, outer |-> t, holes |-> <<>>]
                  /\ q = [id |-> 2, outer |-> o.outer, holes |-> o.holes]
    OBVIOUS
  <1>5. IsPolygon(p)
    BY <1>3 DEF IsPolygon
  <1>6. IsPolygon(q)
    BY <1>4 DEF IsPolygon
  <1>7. Layout(t, o) = {p, q}
    BY DEF Layout
  <1>8. IsFiniteSet({p, q})
    <2>1. IsFiniteSet({p}) /\ {p} \cup {q} = {p, q}
      BY FS_Singleton
    <2>2. IsFiniteSet({p} \cup {q})
      BY <2>1, FS_AddElement
    <2> QED BY <2>1, <2>2
  <1> QED BY <1>5, <1>6, <1>7, <1>8 DEF IsLayout

\* A pixel with owners is in one run of its row, which has them, and one without in none.
IsMarked(row, polys, x, y) ==
  LET here == {r \in row : r.x0 <= x /\ x < r.x1}
  IN  IF Owners(polys, x, y) = {} THEN here = {}
      ELSE \E r \in here : here = {r} /\ r.owners = Owners(polys, x, y)

\* So it is in a row of canonical runs.
LEMMA RowIsTheMask ==
  ASSUME NEW polys, NEW y \in Int, NEW w \in Nat, NEW row, IsRowOf(row, polys, y, w),
         NEW x \in 0 .. w - 1
  PROVE  IsMarked(row, polys, x, y)
  <1> PICK here : here = {r \in row : r.x0 <= x /\ x < r.x1}
    OBVIOUS
  <1>1. Owners(polys, x, y) = Over(polys, x, y)
    BY DEF Owners, Over
  <1>2. x \in Int /\ 0 <= x /\ x < w
    OBVIOUS
  <1>3. \A r \in here : r.owners # {} /\ r.owners = Over(polys, x, y)
    BY <1>2 DEF IsRowOf
  <1>4. \A r, s \in here : r = s
    BY <1>2 DEF IsRowOf
  <1>5. Over(polys, x, y) # {} => here # {}
    BY <1>2 DEF IsRowOf
  <1>6. IF Owners(polys, x, y) = {} THEN here = {}
        ELSE \E r \in here : here = {r} /\ r.owners = Owners(polys, x, y)
    BY <1>1, <1>3, <1>4, <1>5
  <1> QED BY <1>6 DEF IsMarked

\* What a core of the chip reads and writes.
LEMMA CoreIsTheMask ==
  ASSUME NEW polys, IsLayout(polys), NEW height \in Nat \ {0},
         NEW core \in Boxes, Covers(Square, core),
         NEW read, read = ReadBox(core, Uniform(1), MaxSide, MaxSide),
         NEW seen, seen = ReadWindow(polys, read, MaxSide, height)
  PROVE  /\ seen = Foreground(polys) \cap Pixels(read)
         /\ ExactCover(SetToSeq(ManhattanBoxes(seen \cap Pixels(core), core)), seen \cap Pixels(core))
  <1>1. MaxSide \in Nat \ {0} /\ MaxSide \in Nat
    BY DecisionsAssumption
  <1>2. Covers(Square, read)
    BY <1>1, WindowIsAround, 1 \in Nat DEF Square
  <1>3. /\ core.x0 \in Int /\ core.x1 \in Int /\ core.y0 \in Int /\ core.y1 \in Int
    BY DEF Boxes
  <1>4. /\ read.x0 \in Int /\ read.x1 \in Int /\ read.y0 \in Int /\ read.y1 \in Int
    BY <1>1, <1>3 DEF ReadBox, Box, Uniform, Greater, Lesser
  <1>5. 0 <= read.x0 /\ 0 <= read.y0 /\ read.x1 <= MaxSide /\ read.y1 <= MaxSide
    BY <1>2 DEF Covers, Square, Box
  <1>6. seen = {p \in Pixels(read) : \E q \in polys : Inside(q, p[1], p[2])}
    BY <1>1, <1>4, <1>5, WindowIsExact
  <1>7. Pixels(read) \subseteq Pixels(Square)
    BY <1>1, <1>4, <1>5 DEF Pixels, Square, Box
  <1>8. seen = Foreground(polys) \cap Pixels(read)
    BY <1>6, <1>7 DEF Foreground
  <1>9. seen \cap Pixels(core) \in SUBSET Pixels(core)
    OBVIOUS
  <1> QED BY <1>8, <1>9, BoxesCoverForeground

\* The scanlines, the union, the windows and the sink agree with exact geometry: for every
\* layout that is asked about, on a chip of any side.
THEOREM RunsAreMasked == MCSpec => []RunsAreTheMask
  <1>1. MCInit => CaseInv
    BY DEF MCInit, PoseInit, CaseInv
  <1>2. ASSUME CaseInv PROVE RunsAreTheMask
    <2> SUFFICES ASSUME case.kind = "layout" PROVE RunsAreTheMask
      BY DEF RunsAreTheMask
    <2> DEFINE polys == case.polys
               W     == MaxSide
               rows  == [y \in 0 .. W - 1 |-> OwnedRow(polys, y, W, case.band)]
               grid  == CoreGrid(W, W, 2)
    <2>1. IsLayout(polys) /\ case.band \in Nat \ {0}
      <3>1. PICK t \in Triangles, o \in Others : case.polys = Layout(t, o) /\ case.band = BandHeight
        BY <1>2 DEF CaseInv
      <3> QED BY <3>1, LayoutsAreLayouts DEF BandHeight
    <2>2. W \in Nat \ {0} /\ W \in Nat /\ 2 \in Nat \ {0}
      BY DecisionsAssumption
    <2>3. ASSUME NEW y \in 0 .. W - 1 PROVE IsRowOf(rows[y], polys, y, W) /\ y \in Int
      BY <2>1, <2>2, OwnedRowIsExact
    <2>4. \A i \in DOMAIN grid : grid[i] \in Boxes /\ Covers(Square, grid[i])
      BY <2>2, CoreGridTiles DEF Tiles, Square
    <2> HIDE DEF rows, grid
    <2>5. ASSUME NEW y \in 0 .. W - 1, NEW x \in 0 .. W - 1
          PROVE  IsMarked(rows[y], polys, x, y)
      BY <2>2, <2>3, RowIsTheMask
    <2>6. ASSUME NEW y \in 0 .. W - 1
          PROVE  \A r, s \in rows[y] : r.x1 = s.x0 => r.owners # s.owners
      BY <2>3 DEF IsRowOf
    <2>7. ASSUME NEW i \in DOMAIN grid
          PROVE  LET read == ReadBox(grid[i], Uniform(1), W, W)
                     seen == ReadWindow(polys, read, W, case.band)
                     core == seen \cap Pixels(grid[i])
                     boxes == SetToSeq(ManhattanBoxes(core, grid[i]))
                 IN  seen = Foreground(polys) \cap Pixels(read) /\ ExactCover(boxes, core)
      <3> PICK read, seen : /\ read = ReadBox(grid[i], Uniform(1), W, W)
                            /\ seen = ReadWindow(polys, read, W, case.band)
        OBVIOUS
      <3>1. /\ seen = Foreground(polys) \cap Pixels(read)
            /\ ExactCover(SetToSeq(ManhattanBoxes(seen \cap Pixels(grid[i]), grid[i])),
                          seen \cap Pixels(grid[i]))
        <4>1. IsLayout(polys) /\ case.band \in Nat \ {0} /\ grid[i] \in Boxes /\ Covers(Square, grid[i])
          BY <2>1, <2>4
        <4> HIDE DEF polys, W
        <4>2. /\ read = ReadBox(grid[i], Uniform(1), MaxSide, MaxSide)
              /\ seen = ReadWindow(polys, read, MaxSide, case.band)
          BY DEF W
        <4> QED BY ONLY <4>1, <4>2, CoreIsTheMask
      <3> QED BY <3>1
    <2>8. RunsAreTheMask
      BY <2>5, <2>6, <2>7, Zenon DEF RunsAreTheMask, IsMarked, rows, grid
    <2> QED BY <2>8
  <1> QED BY <1>1, <1>2, CaseStep, PTL DEF MCSpec
=============================================================================
