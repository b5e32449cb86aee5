----------------------------- MODULE Leaderboard -----------------------------
(***************************************************************************)
(* The leaderboard file (leaderboard/tracker.py), shared by processes that     *)
(* submit under an advisory lock and processes that query without one.  A      *)
(* submission reads, migrates and appends, writes a temporary file and renames  *)
(* it; it may fail or be killed at any point, and the kernel frees its lock.    *)
(***************************************************************************)
EXTENDS Naturals, FiniteSets, SequencesExt

CONSTANTS
  Submitters, Readers,
  ScoreOf,         \* l2_error_pixels of what each submits
  Legacy           \* the files other releases may have left

None == "none"
SCHEMA_VERSION == 3

\* A score is a set of one number, or of none.  Summed: it adds up samples that were not
\* counted, as releases before version 3 did.
Entry(id, l2, summed) == [id |-> id, l2 |-> l2, summed |-> summed]

\* A path without a file reads as an empty list.
NoFile == [version |-> 0, entries |-> <<>>]

Ids(entries) == {entries[i].id : i \in DOMAIN entries}
Scores == {score \in SUBSET Nat : \A m, n \in score : m = n}
Entries ==
  [id : Submitters \cup UNION {Ids(f.entries) : f \in Legacy},
   l2 : Scores, summed : BOOLEAN]

ASSUME LeaderboardAssumption ==
  /\ Submitters \cap Readers = {} /\ None \notin Submitters
  /\ \A s \in Submitters : ScoreOf[s] \in Scores
  /\ \A f \in Legacy :
       /\ f \in [version : Nat, entries : Seq(Entries)]
       /\ f.version = SCHEMA_VERSION => \A i \in DOMAIN f.entries : ~f.entries[i].summed

VARIABLES
  file,            \* what is at the path: a version and its entries
  lock,            \* holder of the sidecar lock
  temp,            \* temporary files left or being written
  pc,              \* submitters and readers
  draft,           \* the entries a submitter has read
  seen,            \* what a query has returned, in rank order
  acked,           \* ghost: submissions whose id was returned
  before           \* ghost: those acknowledged when a query began

vars == <<file, lock, temp, pc, draft, seen, acked, before>>

Init ==
  /\ file \in Legacy /\ lock = None /\ temp = {}
  /\ pc = [p \in Submitters \cup Readers |-> "begin"]
  /\ draft = [s \in Submitters |-> <<>>] /\ seen = [r \in Readers |-> <<>>]
  /\ acked = {} /\ before = [r \in Readers |-> {}]

Goto(p, from, to) == pc[p] = from /\ pc' = [pc EXCEPT ![p] = to]

-----------------------------------------------------------------------------

\* _migrate_entries: sums of older versions are dropped, they cannot be compared.
\* Seeded fault: only the envelope is brought up to date.
MigrateEnvelope(version, entries) == entries
Migrate(version, entries) ==
  [i \in DOMAIN entries |->
     IF version <= 2 /\ entries[i].summed THEN [entries[i] EXCEPT !.l2 = {}, !.summed = FALSE]
     ELSE entries[i]]

\* _read_entries: raises on a file of a newer release.
Readable == file.version <= SCHEMA_VERSION
ReadEntries == Migrate(file.version, file.entries)

\* _ranking_key, whose first component is the score, and infinite where that is missing.  Two
\* further components order entries of one score, which are left in the order of the file here.
RanksBefore(e, f) == \E score \in e.l2 : \A other \in f.l2 : score < other

\* list.sort is stable: of two that tie the earlier one stays ahead.
Ahead(entries, i, j) ==
  \/ RanksBefore(entries[i], entries[j])
  \/ ~RanksBefore(entries[j], entries[i]) /\ i < j
Standing(entries, j) == 1 + Cardinality({i \in DOMAIN entries : Ahead(entries, i, j)})
Ranked(entries) ==
  [place \in DOMAIN entries |->
     entries[CHOOSE j \in DOMAIN entries : Standing(entries, j) = place]]

-----------------------------------------------------------------------------
(* submit                                                                      *)

\* A submission without a simulated score, or with a diffusing resist (whose score counts as
\* none here), is rejected before anything is touched.
Validate(s) ==
  /\ Goto(s, "begin", IF ScoreOf[s] = {} THEN "rejected" ELSE "lock")
  /\ UNCHANGED <<file, lock, temp, draft, seen, acked, before>>

\* Seeded fault: nobody waits for the lock.
TakeLockUnguarded(s) ==
  /\ Goto(s, "lock", "read") /\ lock' = s
  /\ UNCHANGED <<file, temp, draft, seen, acked, before>>
TakeLock(s) ==
  /\ Goto(s, "lock", "read") /\ lock = None /\ lock' = s
  /\ UNCHANGED <<file, temp, draft, seen, acked, before>>

Read(s) ==
  /\ Readable /\ Goto(s, "read", "create")
  /\ draft' = [draft EXCEPT ![s] = Append(ReadEntries, Entry(s, ScoreOf[s], FALSE))]
  /\ UNCHANGED <<file, lock, temp, seen, acked, before>>

CreateTemp(s) ==
  /\ Goto(s, "create", "write") /\ temp' = temp \cup {s}
  /\ UNCHANGED <<file, lock, draft, seen, acked, before>>

\* The payload is written and closed, then os.replace puts it at the path.
WriteAndReplace(s) ==
  /\ Goto(s, "write", "unlock") /\ temp' = temp \ {s}
  /\ file' = [version |-> SCHEMA_VERSION, entries |-> draft[s]]
  /\ UNCHANGED <<lock, draft, seen, acked, before>>

Unlock(s) == lock' = IF lock = s THEN None ELSE lock

ReturnId(s) ==
  /\ Goto(s, "unlock", "returned") /\ Unlock(s) /\ acked' = acked \cup {s}
  /\ UNCHANGED <<file, temp, draft, seen, before>>

\* A newer file, or an error of the file system: the temporary file is unlinked.
SubmitRaises(s) ==
  /\ (pc[s] = "read" /\ ~Readable) \/ pc[s] \in {"create", "write"}
  /\ pc' = [pc EXCEPT ![s] = "raised"] /\ temp' = temp \ {s} /\ Unlock(s)
  /\ UNCHANGED <<file, draft, seen, acked, before>>

\* Killed, or interrupted (which is no Exception): the temporary file stays.
Dies(s) ==
  /\ pc[s] \in {"lock", "read", "create", "write", "unlock"}
  /\ pc' = [pc EXCEPT ![s] = "dead"] /\ Unlock(s)
  /\ UNCHANGED <<file, temp, draft, seen, acked, before>>

-----------------------------------------------------------------------------
(* query                                                                       *)

BeginQuery(r) ==
  /\ Goto(r, "begin", "read") /\ before' = [before EXCEPT ![r] = acked]
  /\ UNCHANGED <<file, lock, temp, draft, seen, acked>>

\* The file is opened and read whole: a replacement meanwhile does not change it.
Query(r) ==
  /\ Goto(r, "read", IF Readable THEN "returned" ELSE "raised")
  /\ seen' = [seen EXCEPT ![r] = IF Readable THEN Ranked(ReadEntries) ELSE <<>>]
  /\ UNCHANGED <<file, lock, temp, draft, acked, before>>

SubmitStep(s) ==
  \/ Validate(s) \/ TakeLock(s) \/ Read(s) \/ CreateTemp(s) \/ WriteAndReplace(s)
  \/ ReturnId(s) \/ SubmitRaises(s)
Next ==
  \/ \E s \in Submitters : SubmitStep(s) \/ Dies(s)
  \/ \E r \in Readers : BeginQuery(r) \/ Query(r)

Spec == Init /\ [][Next]_vars

-----------------------------------------------------------------------------

\* Type correctness.
TypeOK ==
  /\ lock \in Submitters \cup {None} /\ temp \subseteq Submitters /\ acked \subseteq Submitters
  /\ file \in [version : Nat, entries : Seq(Entries)]
  /\ draft \in [Submitters -> Seq(Entries)]

\* No acknowledged submission is lost, whatever submitters do between reading the file and
\* replacing it, and no step drops an entry that is in the file.
SubmissionsAreKept ==
  /\ acked \subseteq Ids(file.entries)
  /\ \A s \in Submitters : pc[s] \in {"create", "write"} => Ids(file.entries) \subseteq Ids(draft[s])

\* A query returns every submission acknowledged before it began, and ranks nothing by a
\* sum of samples, however often the file was rewritten by releases that know better.
RankingIsSound ==
  \A r \in Readers : pc[r] = "returned" =>
    /\ before[r] \subseteq Ids(seen[r])
    /\ \A i \in DOMAIN seen[r] : seen[r][i].l2 = {} \/ ~seen[r][i].summed
    /\ \A i, j \in DOMAIN seen[r] : RanksBefore(seen[r][i], seen[r][j]) => i < j
=============================================================================
