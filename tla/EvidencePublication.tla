------------------------ MODULE EvidencePublication ------------------------
(***************************************************************************)
(* The industrial benchmark harness (benchmarks/industrial): a process         *)
(* measures rows, each kept in the checkpoint journal of its run identity,      *)
(* writes its artifact into the workspace of that identity and publishes the    *)
(* family of artifact, run configuration, SHA256SUMS and manifest to the public *)
(* root, which all identities share.  It may be killed or meet a full disk and  *)
(* be started again; nothing keeps two of them apart.                          *)
(*                                                                           *)
(* Two members stand for the five: "artifact" for the three measured ones,     *)
(* "config" for the two that say what was run.  A digest is the content.       *)
(***************************************************************************)
EXTENDS Naturals, Sequences

CONSTANTS
  Harnesses,       \* processes
  Identities,      \* run identities
  NumRows,         \* rows of the measurement plan
  MaxStarts,       \* bound: how often a process is started
  MaxFaults        \* bound: kills and full disks

ASSUME EvidenceAssumption ==
  Identities # {} /\ NumRows \in Nat \ {0} /\ MaxStarts \in Nat /\ MaxFaults \in Nat

Members == {"artifact", "config"}
Family == Members \cup {"sums", "manifest"}

Absent == [is |-> "absent"]
Torn == [is |-> "torn"]
Config(id) == [is |-> "config", id |-> id]
NoDir == <<>>

VARIABLES
  journal,         \* checkpoints/runtime.jsonl of each identity
  broken,          \* identities whose journal has a line cut short
  work,            \* run_dir of each identity
  staging,         \* .publish-staging of the root
  part,            \* the .tmp files of the root
  public,          \* the root
  step, ident,     \* each process: where it is, and its run identity
  known,           \* the rows it has in memory
  draft,           \* the results it has collected
  held,            \* the digests of its manifest
  stamp,           \* which start each process is: it tells what it wrote from all else
  starts, faults,
  crowded          \* ghost: processes that others ran beside

evidenceVars == <<journal, broken, work, staging, part, public, step, ident, known, draft, held,
                  stamp, starts, faults, crowded>>
folders == <<staging, part, public>>
memory == <<ident, known, draft, held, stamp>>
counters == <<starts, faults, crowded>>

AtRest == {<<"new">>, <<"published">>, <<"raised">>, <<"killed">>}

EvidenceInit ==
  /\ journal = [id \in Identities |-> <<>>] /\ broken = {}
  /\ work = [id \in Identities |-> [f \in Members \cup {"manifest"} |-> Absent]]
  /\ staging = NoDir /\ part = [f \in Family |-> Absent] /\ public = [f \in Family |-> Absent]
  /\ step = [h \in Harnesses |-> <<"new">>]
  /\ ident \in [Harnesses -> {CHOOSE id \in Identities : TRUE}]
  /\ known = [h \in Harnesses |-> <<>>] /\ draft = [h \in Harnesses |-> <<>>]
  /\ held = [h \in Harnesses |-> Absent]
  /\ stamp = [h \in Harnesses |-> 0] /\ starts = 0 /\ faults = 0 /\ crowded = {}

Active == {h \in Harnesses : step[h] \notin AtRest}
Moves(h, from, to) == step[h] = from /\ step' = [step EXCEPT ![h] = to]
\* What a process does at from, or an exception that ends it.
MovesIf(h, from, ok, to) == Moves(h, from, IF ok THEN to ELSE <<"raised">>)

-----------------------------------------------------------------------------
(* The run workspace                                                           *)

Start(h, id) ==
  /\ step[h] \in AtRest /\ starts < MaxStarts
  /\ step' = [step EXCEPT ![h] = <<"open", "config">>] /\ ident' = [ident EXCEPT ![h] = id]
  /\ starts' = starts + 1 /\ stamp' = [stamp EXCEPT ![h] = starts + 1]
  /\ crowded' = IF Active = {} THEN crowded \ {h} ELSE crowded \cup Active \cup {h}
  /\ UNCHANGED <<journal, broken, work, folders, known, draft, held, faults>>

\* Path.write_text: the file is cut to nothing, and filled.
OpenFile(h, f) ==
  /\ Moves(h, <<"open", f>>, <<"fill", f>>)
  /\ work' = [work EXCEPT ![ident[h]][f] = Torn]
  /\ UNCHANGED <<journal, broken, folders, memory, counters>>

FillFile(h, f, content, to) ==
  /\ Moves(h, <<"fill", f>>, to)
  /\ work' = [work EXCEPT ![ident[h]][f] = content]
  /\ UNCHANGED <<journal, broken, folders, memory, counters>>

WriteConfig(h) == FillFile(h, "config", Config(ident[h]), <<"load">>)

\* Checkpoint.__init__: a line that does not parse raises, whatever comes after it.
LoadJournal(h) ==
  /\ MovesIf(h, <<"load">>, ident[h] \notin broken, <<"row", 1>>)
  /\ known' = [known EXCEPT ![h] = journal[ident[h]]] /\ draft' = [draft EXCEPT ![h] = <<>>]
  /\ UNCHANGED <<journal, broken, work, folders, ident, held, stamp, counters>>

\* Checkpoint.get: the first row of the key.
Recorded(h, i) == {n \in DOMAIN known[h] : known[h][n].key = i}
First(S) == CHOOSE n \in S : \A m \in S : n <= m

AfterRow(i) == IF i = NumRows THEN <<"open", "artifact">> ELSE <<"row", i + 1>>

\* Seeded fault: a row that is skipped on resume is not collected.
ReuseRowForgets(h, i) ==
  /\ Recorded(h, i) # {} /\ Moves(h, <<"row", i>>, AfterRow(i))
  /\ UNCHANGED <<journal, broken, work, folders, memory, counters>>
ReuseRow(h, i) ==
  /\ Recorded(h, i) # {} /\ Moves(h, <<"row", i>>, AfterRow(i))
  /\ draft' = [draft EXCEPT ![h] = Append(@, known[h][First(Recorded(h, i))].payload)]
  /\ UNCHANGED <<journal, broken, work, folders, ident, known, held, stamp, counters>>

\* The worker's result is appended and synced.  Behind a line cut short it joins that line.
MeasureRow(h, i) ==
  LET row == [key |-> i, payload |-> stamp[h]]
  IN  /\ Recorded(h, i) = {} /\ Moves(h, <<"row", i>>, AfterRow(i))
      /\ known' = [known EXCEPT ![h] = Append(@, row)]
      /\ draft' = [draft EXCEPT ![h] = Append(@, stamp[h])]
      /\ journal' = IF ident[h] \in broken THEN journal
                    ELSE [journal EXCEPT ![ident[h]] = Append(@, row)]
      /\ UNCHANGED <<broken, work, folders, ident, held, stamp, counters>>

\* A full disk, or a loss of power: part of the line is in the journal.
AppendFails(h, i) ==
  /\ Recorded(h, i) = {} /\ faults < MaxFaults
  /\ Moves(h, <<"row", i>>, <<"raised">>)
  /\ broken' = broken \cup {ident[h]} /\ faults' = faults + 1
  /\ UNCHANGED <<journal, work, folders, memory, starts, crowded>>

WriteArtifact(h) ==
  FillFile(h, "artifact", [is |-> "artifact", id |-> ident[h], rows |-> draft[h], by |-> stamp[h]],
           <<"gate">>)

-----------------------------------------------------------------------------
(* publish_family                                                              *)

\* Every member is there, parses, has the schema of its role and the one identity.
Closed(dir, id) == \A m \in Members : dir[m].is = m /\ dir[m].id = id
Digests(dir) == [m \in Members |-> dir[m]]

Gate(h) ==
  /\ MovesIf(h, <<"gate">>, Closed(work[ident[h]], ident[h]), <<"hash">>)
  /\ UNCHANGED <<journal, broken, work, folders, memory, counters>>

\* Seeded fault: a manifest that the workspace has from an earlier publication is kept.
HashMembersOnce(h) ==
  /\ Moves(h, <<"hash">>, IF work[ident[h]]["manifest"].is = "manifest" THEN <<"clear">>
                          ELSE <<"open", "manifest">>)
  /\ held' = [held EXCEPT ![h] = Digests(work[ident[h]])]
  /\ UNCHANGED <<journal, broken, work, folders, ident, known, draft, stamp, counters>>
HashMembers(h) ==
  /\ Moves(h, <<"hash">>, <<"open", "manifest">>)
  /\ held' = [held EXCEPT ![h] = Digests(work[ident[h]])]
  /\ UNCHANGED <<journal, broken, work, folders, ident, known, draft, stamp, counters>>

WriteManifest(h) ==
  FillFile(h, "manifest", [is |-> "manifest", id |-> ident[h], digests |-> held[h]], <<"clear">>)

ClearStaging(h) ==
  /\ Moves(h, <<"clear">>, <<"mkdir">>) /\ staging' = NoDir
  /\ UNCHANGED <<journal, broken, work, part, public, memory, counters>>

MakeStaging(h) ==
  /\ MovesIf(h, <<"mkdir">>, staging = NoDir, <<"stage", "artifact">>)
  /\ staging' = IF staging = NoDir THEN [f \in Members \cup {"sums"} |-> Absent] ELSE staging
  /\ UNCHANGED <<journal, broken, work, part, public, memory, counters>>

\* A file of the staging directory, unless another process took the directory away.
Stage(h, f, content, to) ==
  /\ MovesIf(h, <<"stage", f>>, staging # NoDir, to)
  /\ staging' = IF staging = NoDir THEN staging ELSE [staging EXCEPT ![f] = content]
  /\ UNCHANGED <<journal, broken, work, part, public, memory, counters>>

StageMember(h) ==
  \/ Stage(h, "artifact", work[ident[h]]["artifact"], <<"stage", "config">>)
  \/ Stage(h, "config", work[ident[h]]["config"], <<"index">>)

\* The digests are of the staged copies.
StageSums(h) ==
  LET ok == staging # NoDir /\ \A m \in Members : staging[m] # Absent
  IN  /\ MovesIf(h, <<"index">>, ok, <<"copy", "artifact">>)
      /\ staging' = IF ok THEN [staging EXCEPT !["sums"] = [is |-> "sums", digests |-> Digests(staging)]]
                    ELSE staging
      /\ UNCHANGED <<journal, broken, work, part, public, memory, counters>>

AfterSwap(f) == CASE f = "artifact" -> <<"copy", "config">> [] f = "config" -> <<"copy", "sums">>
                  [] f = "sums" -> <<"copy", "manifest">> [] f = "manifest" -> <<"sweep">>

\* shutil.copyfile to the .tmp name, and fsync.
CopyTmp(h, f) ==
  LET source == IF f = "manifest" THEN work[ident[h]][f]
                ELSE IF staging = NoDir THEN Absent ELSE staging[f]
  IN  /\ MovesIf(h, <<"copy", f>>, source # Absent, <<"swap", f>>)
      /\ part' = IF source = Absent THEN part ELSE [part EXCEPT ![f] = source]
      /\ UNCHANGED <<journal, broken, work, staging, public, memory, counters>>

\* os.replace.
Swap(h, f) ==
  /\ MovesIf(h, <<"swap", f>>, part[f] # Absent, AfterSwap(f))
  /\ public' = IF part[f] = Absent THEN public ELSE [public EXCEPT ![f] = part[f]]
  /\ part' = [part EXCEPT ![f] = Absent]
  /\ UNCHANGED <<journal, broken, work, staging, memory, counters>>

SweepStaging(h) ==
  /\ Moves(h, <<"sweep">>, <<"published">>) /\ staging' = NoDir
  /\ UNCHANGED <<journal, broken, work, part, public, memory, counters>>

\* Whatever a process was writing may be left half written.
Kill(h) ==
  /\ h \in Active /\ faults < MaxFaults /\ faults' = faults + 1
  /\ step' = [step EXCEPT ![h] = <<"killed">>]
  /\ \/ UNCHANGED part
     \/ step[h][1] = "copy" /\ part' = [part EXCEPT ![step[h][2]] = Torn]
  /\ UNCHANGED <<journal, broken, work, staging, public, memory, starts, crowded>>

MeasureStep(h) ==
  \/ \E f \in Members \cup {"manifest"} : OpenFile(h, f)
  \/ WriteConfig(h) \/ LoadJournal(h) \/ WriteArtifact(h)
  \/ \E i \in 1 .. NumRows : ReuseRow(h, i) \/ MeasureRow(h, i) \/ AppendFails(h, i)
PublishStep(h) ==
  \/ Gate(h) \/ HashMembers(h) \/ WriteManifest(h) \/ ClearStaging(h) \/ MakeStaging(h)
  \/ StageMember(h) \/ StageSums(h) \/ SweepStaging(h)
  \/ \E f \in Family : CopyTmp(h, f) \/ Swap(h, f)

EvidenceNext ==
  \E h \in Harnesses :
    (\E id \in Identities : Start(h, id)) \/ MeasureStep(h) \/ PublishStep(h) \/ Kill(h)

EvidenceSpec == EvidenceInit /\ [][EvidenceNext]_evidenceVars

-----------------------------------------------------------------------------

\* What scripts/verify_industrial_artifacts.py asks of a root: all members and nothing else
\* of their kind, the manifest and SHA256SUMS both true of the bytes, and one identity.
Accepted ==
  /\ \A f \in Family : public[f].is = f
  /\ Closed(public, public["manifest"].id)
  /\ public["sums"].digests = Digests(public) /\ public["manifest"].digests = Digests(public)
  /\ \A m \in Members : part[m] = Absent

\* Whatever processes were killed or ran beside each other, a family that the verifier
\* accepts has all the rows of its plan, and each of its numbers is the one that the
\* journal of its identity has on record, as long as no line there was cut short.
AcceptedFamilyIsOnRecord ==
  Accepted =>
    LET a == public["artifact"]
    IN  /\ Len(a.rows) = NumRows
        /\ a.id \notin broken =>
             \A i \in 1 .. NumRows :
               \E n \in DOMAIN journal[a.id] : journal[a.id][n] = [key |-> i, payload |-> a.rows[i]]

\* A publication that no other process ran beside leaves its own family in the root, and
\* one that the verifier accepts, whatever earlier ones left there half done.
PublicationIsAccepted ==
  [][\A h \in Harnesses \ crowded :
       step'[h] = <<"published">> /\ step[h] # step'[h] =>
         Accepted' /\ public'["artifact"].id = ident[h] /\ public'["artifact"].by = stamp[h]]_evidenceVars

\* write_artifact: a partial or mixed-run family can never appear in the public root.  The
\* code replaces the members one by one.
MixedFamilyNeverAppears ==
  \A m, n \in Members : public[m] # Absent /\ public[n] # Absent => public[m].id = public[n].id
=============================================================================
