--------------------------- MODULE Protocols_proofs ---------------------------
(***************************************************************************)
(* Theorems about the protocols between the workers and processes of one host: *)
(* Leaderboard, for any submitters and readers and any file that earlier        *)
(* releases may have left; TilePool, for any number of tiles and of workers;    *)
(* WorkerStream, for any number of tiles and workers and any depth of the queue. *)
(***************************************************************************)
EXTENDS Leaderboard, TilePool, WorkerStream, FiniteSetTheorems, TLAPS

-----------------------------------------------------------------------------
(* Leaderboard                                                               *)

Places ==
  {"begin", "rejected", "lock", "read", "create", "write", "unlock", "returned", "raised", "dead"}

PlacesInv == pc \in [Submitters \cup Readers -> Places]

\* Between the lock and its release a submitter has the lock to itself, so that what it has
\* read is still all there is when it replaces the file.
SubmitInv ==
  /\ \A s \in Submitters : pc[s] \in {"read", "create", "write", "unlock"} => lock = s
  /\ \A s \in Submitters :
       pc[s] \in {"create", "write"} => Ids(file.entries) \cup {s} \subseteq Ids(draft[s])
  /\ \A s \in Submitters : pc[s] = "unlock" => s \in Ids(file.entries)
  /\ acked \subseteq Ids(file.entries)

BoardInv == PlacesInv /\ TypeOK /\ SubmitInv

-----------------------------------------------------------------------------
(* Entries                                                                     *)

\* Migration changes scores and no identity.
LEMMA MigrationKeepsIds ==
  ASSUME NEW version \in Nat, NEW entries \in Seq(Entries)
  PROVE  Migrate(version, entries) \in Seq(Entries) /\ Ids(Migrate(version, entries)) = Ids(entries)
  <1> DEFINE new(i) == IF version <= 2 /\ entries[i].summed
                         THEN [entries[i] EXCEPT !.l2 = {}, !.summed = FALSE] ELSE entries[i]
  <1>0. \A e \in Entries : /\ [e EXCEPT !.l2 = {}, !.summed = FALSE] \in Entries
                          /\ [e EXCEPT !.l2 = {}, !.summed = FALSE].id = e.id
    BY DEF Entries, Scores
  <1>1. \A i \in 1 .. Len(entries) : new(i) \in Entries /\ new(i).id = entries[i].id
    <2> TAKE i \in 1 .. Len(entries)
    <2>1. entries[i] \in Entries
      OBVIOUS
    <2> QED BY <1>0, <2>1
  <1>2. Migrate(version, entries) = [i \in 1 .. Len(entries) |-> new(i)]
    BY DEF Migrate
  <1> HIDE DEF new
  <1>3. Migrate(version, entries) \in Seq(Entries)
    BY <1>1, <1>2
  <1>4. Ids(Migrate(version, entries)) = Ids(entries)
    BY <1>1, <1>2 DEF Ids
  <1> QED BY <1>3, <1>4

\* An entry at the end adds its identity.
LEMMA AppendedId ==
  ASSUME NEW entries \in Seq(Entries), NEW e \in Entries
  PROVE  Append(entries, e) \in Seq(Entries) /\ Ids(Append(entries, e)) = Ids(entries) \cup {e.id}
  <1>1. /\ Append(entries, e) \in Seq(Entries) /\ Len(Append(entries, e)) = Len(entries) + 1
        /\ \A i \in 1 .. Len(entries) : Append(entries, e)[i] = entries[i]
        /\ Append(entries, e)[Len(entries) + 1] = e /\ Len(entries) \in Nat
    OBVIOUS
  <1>2. /\ DOMAIN Append(entries, e) = 1 .. Len(entries) + 1 /\ DOMAIN entries = 1 .. Len(entries)
    BY <1>1
  <1> QED BY <1>1, <1>2 DEF Ids

-----------------------------------------------------------------------------
(* The steps                                                                   *)

\* Nothing is acknowledged at first, and nobody has begun.
LEMMA BoardStarts == Init => BoardInv
  <1> SUFFICES ASSUME Init PROVE BoardInv
    OBVIOUS
  <1>1. \A s \in Submitters : pc[s] = "begin"
    BY DEF Init
  <1>2. TypeOK
    BY LeaderboardAssumption DEF Init, TypeOK
  <1> QED BY <1>1, <1>2 DEF Init, BoardInv, PlacesInv, Places, SubmitInv

\* Whoever moves is alone in moving.
LEMMA Moved ==
  ASSUME PlacesInv, NEW p \in Submitters \cup Readers, NEW to \in Places,
         pc' = [pc EXCEPT ![p] = to]
  PROVE  PlacesInv' /\ pc'[p] = to /\ \A q \in Submitters \cup Readers : q # p => pc'[q] = pc[q]
  BY DEF PlacesInv

\* Submitters that leave the file and what they have read of it alone.
LEMMA FileStays ==
  ASSUME BoardInv, NEW s \in Submitters,
         Validate(s) \/ TakeLock(s) \/ CreateTemp(s) \/ ReturnId(s) \/ SubmitRaises(s) \/ Dies(s)
  PROVE  BoardInv'
  <1> USE LeaderboardAssumption
  <1>1. file' = file /\ draft' = draft
    BY DEF Validate, TakeLock, CreateTemp, ReturnId, SubmitRaises, Dies
  <1>2. PICK to \in Places : pc' = [pc EXCEPT ![s] = to]
    BY DEF Validate, TakeLock, CreateTemp, ReturnId, SubmitRaises, Dies, Goto, Places
  <1>3. PlacesInv' /\ pc'[s] = to /\ \A q \in Submitters : q # s => pc'[q] = pc[q]
    BY <1>2, Moved DEF BoardInv
  <1>4. TypeOK'
    BY <1>1 DEF BoardInv, TypeOK, Validate, TakeLock, CreateTemp, ReturnId, SubmitRaises, Dies,
                Unlock
  <1>5. lock' = lock \/ (lock = None /\ lock' = s) \/ (lock = s /\ lock' = None)
    BY DEF Validate, TakeLock, CreateTemp, ReturnId, SubmitRaises, Dies, Unlock
  <1>6. /\ to \in {"read", "create", "write", "unlock"} => lock' = s
        /\ to \in {"create", "write"} => pc[s] = "create"
        /\ to # "unlock"
        /\ acked' = acked \/ (acked' = acked \cup {s} /\ pc[s] = "unlock")
    <2>0. s \in DOMAIN pc
      BY DEF BoardInv, PlacesInv
    <2>1. CASE Validate(s)
      BY <1>3, <2>0, <2>1 DEF Validate, Goto
    <2>2. CASE TakeLock(s)
      BY <1>3, <2>0, <2>2 DEF TakeLock, Goto
    <2>3. CASE CreateTemp(s)
      BY <1>3, <2>0, <2>3 DEF CreateTemp, Goto, BoardInv, SubmitInv
    <2>4. CASE ReturnId(s)
      BY <1>3, <2>0, <2>4 DEF ReturnId, Goto
    <2>5. CASE SubmitRaises(s) \/ Dies(s)
      BY <1>3, <2>0, <2>5 DEF SubmitRaises, Dies
    <2> QED BY <2>1, <2>2, <2>3, <2>4, <2>5
  <1>7. SubmitInv'
    BY <1>1, <1>3, <1>5, <1>6 DEF BoardInv, SubmitInv
  <1> QED BY <1>3, <1>4, <1>7 DEF BoardInv

\* What is read is all there is, and the submission is put behind it.
LEMMA FileIsRead ==
  ASSUME BoardInv, NEW s \in Submitters, Read(s)
  PROVE  BoardInv'
  <1> USE LeaderboardAssumption
  <1>1. /\ pc[s] = "read" /\ pc' = [pc EXCEPT ![s] = "create"]
        /\ draft' = [draft EXCEPT ![s] = Append(ReadEntries, Entry(s, ScoreOf[s], FALSE))]
        /\ UNCHANGED <<file, lock, temp, acked>>
    BY DEF Read, Goto
  <1>2. PlacesInv' /\ pc'[s] = "create" /\ \A q \in Submitters : q # s => pc'[q] = pc[q]
    BY <1>1, Moved DEF BoardInv, Places
  <1>3. file.version \in Nat /\ file.entries \in Seq(Entries)
    BY DEF BoardInv, TypeOK
  <1>4. Entry(s, ScoreOf[s], FALSE) \in Entries /\ Entry(s, ScoreOf[s], FALSE).id = s
    BY DEF Entry, Entries
  <1>5. ReadEntries \in Seq(Entries) /\ Ids(ReadEntries) = Ids(file.entries)
    BY <1>3, MigrationKeepsIds DEF ReadEntries
  <1>6. /\ draft'[s] \in Seq(Entries) /\ Ids(draft'[s]) = Ids(file.entries) \cup {s}
        /\ \A q \in Submitters : q # s => draft'[q] = draft[q]
        /\ draft' \in [Submitters -> Seq(Entries)]
    BY <1>1, <1>4, <1>5, AppendedId DEF BoardInv, TypeOK
  <1>7. TypeOK'
    BY <1>1, <1>6 DEF BoardInv, TypeOK
  <1>8. SubmitInv'
    BY <1>1, <1>2, <1>6 DEF BoardInv, SubmitInv
  <1> QED BY <1>2, <1>7, <1>8 DEF BoardInv

\* Nobody else has read the file it replaces.
LEMMA FileIsReplaced ==
  ASSUME BoardInv, NEW s \in Submitters, WriteAndReplace(s)
  PROVE  BoardInv'
  <1> USE LeaderboardAssumption
  <1>1. /\ pc[s] = "write" /\ pc' = [pc EXCEPT ![s] = "unlock"] /\ temp' = temp \ {s}
        /\ file' = [version |-> SCHEMA_VERSION, entries |-> draft[s]]
        /\ UNCHANGED <<lock, draft, acked>>
    BY DEF WriteAndReplace, Goto
  <1>2. PlacesInv' /\ pc'[s] = "unlock" /\ \A q \in Submitters : q # s => pc'[q] = pc[q]
    BY <1>1, Moved DEF BoardInv, Places
  <1>3. file'.entries = draft[s]
    BY <1>1
  <1>4. TypeOK'
    BY <1>1 DEF BoardInv, TypeOK, SCHEMA_VERSION
  <1>5. Ids(file.entries) \cup {s} \subseteq Ids(file'.entries)
    BY <1>1, <1>3 DEF BoardInv, SubmitInv
  <1>6. \A q \in Submitters : q # s => pc[q] \notin {"read", "create", "write", "unlock"}
    BY <1>1 DEF BoardInv, SubmitInv
  <1>7. SubmitInv'
    BY <1>1, <1>2, <1>5, <1>6 DEF BoardInv, SubmitInv
  <1> QED BY <1>2, <1>4, <1>7 DEF BoardInv

\* A query changes nothing of this.
LEMMA QueryKeeps ==
  ASSUME BoardInv, NEW r \in Readers, BeginQuery(r) \/ Query(r)
  PROVE  BoardInv'
  <1>1. UNCHANGED <<file, lock, temp, draft, acked>>
    BY DEF BeginQuery, Query
  <1>2. PICK to \in Places : pc' = [pc EXCEPT ![r] = to]
    BY DEF BeginQuery, Query, Goto, Places
  <1>3. PlacesInv' /\ \A s \in Submitters : pc'[s] = pc[s]
    BY <1>2, Moved, LeaderboardAssumption DEF BoardInv
  <1> QED BY <1>1, <1>3 DEF BoardInv, TypeOK, SubmitInv

\* The invariant is inductive.
LEMMA BoardInductive == BoardInv /\ [Next]_vars => BoardInv'
  <1> SUFFICES ASSUME BoardInv, [Next]_vars PROVE BoardInv'
    OBVIOUS
  <1>1. CASE UNCHANGED vars
    BY <1>1 DEF vars, BoardInv, PlacesInv, TypeOK, SubmitInv
  <1>2. ASSUME NEW s \in Submitters, SubmitStep(s) \/ Dies(s) PROVE BoardInv'
    BY <1>2, FileStays, FileIsRead, FileIsReplaced DEF SubmitStep
  <1>3. ASSUME NEW r \in Readers, BeginQuery(r) \/ Query(r) PROVE BoardInv'
    BY <1>3, QueryKeeps
  <1> QED BY <1>1, <1>2, <1>3 DEF Next

\* Submitters that overlap, fail and die lose no submission that was acknowledged, and none
\* drops what another has put into the file.
THEOREM NoSubmissionIsLost == Spec => []SubmissionsAreKept
  <1>1. BoardInv => SubmissionsAreKept
    BY DEF BoardInv, SubmitInv, SubmissionsAreKept
  <1> QED BY <1>1, BoardStarts, BoardInductive, PTL DEF Spec

-----------------------------------------------------------------------------
(* Ranking                                                                     *)

\* The order of scores is asymmetric, and what ranks before an entry ranks before any other
\* entry or that one does.
LEMMA ScoresAreOrdered ==
  ASSUME NEW e \in Entries, NEW f \in Entries, NEW g \in Entries
  PROVE  /\ RanksBefore(e, f) => ~RanksBefore(f, e)
         /\ RanksBefore(e, g) => RanksBefore(e, f) \/ RanksBefore(f, g)
  <1>1. \A x \in {e, f, g} : x.l2 \subseteq Nat /\ \A m, n \in x.l2 : m = n
    BY DEF Entries, Scores
  <1>2. RanksBefore(e, f) => ~RanksBefore(f, e)
    BY <1>1 DEF RanksBefore
  <1>3. ASSUME RanksBefore(e, g), ~RanksBefore(f, g) PROVE RanksBefore(e, f)
    <2>1. PICK score \in e.l2 : \A other \in g.l2 : score < other
      BY <1>3 DEF RanksBefore
    <2>2. ASSUME NEW mine \in f.l2 PROVE score < mine
      <3>1. PICK other \in g.l2 : ~(mine < other)
        BY <1>3 DEF RanksBefore
      <3> QED BY <1>1, <2>1, <3>1
    <2> QED BY <2>1, <2>2 DEF RanksBefore
  <1> QED BY <1>2, <1>3

\* One of two entries is ahead, and whoever is ahead is ahead of those behind.
LEMMA AheadIsAnOrder ==
  ASSUME NEW entries \in Seq(Entries),
         NEW i \in DOMAIN entries, NEW j \in DOMAIN entries, NEW k \in DOMAIN entries
  PROVE  /\ ~Ahead(entries, i, i)
         /\ i # j => Ahead(entries, i, j) \/ Ahead(entries, j, i)
         /\ Ahead(entries, i, j) /\ Ahead(entries, j, k) => Ahead(entries, i, k)
  <1>0. /\ entries[i] \in Entries /\ entries[j] \in Entries /\ entries[k] \in Entries
        /\ i \in Nat /\ j \in Nat /\ k \in Nat
    OBVIOUS
  <1> DEFINE first(a, b) == RanksBefore(entries[a], entries[b])
  <1>1. \A a, b, c \in {i, j, k} :
          /\ first(a, b) => ~first(b, a)
          /\ first(a, c) => first(a, b) \/ first(b, c)
    BY <1>0, ScoresAreOrdered
  <1>2. \A a, b \in {i, j, k} : Ahead(entries, a, b) <=> first(a, b) \/ (~first(b, a) /\ a < b)
    BY DEF Ahead
  <1> HIDE DEF first
  <1>3. ~Ahead(entries, i, i)
    BY <1>0, <1>1, <1>2
  <1>4. i # j => Ahead(entries, i, j) \/ Ahead(entries, j, i)
    BY <1>0, <1>1, <1>2
  <1>5. Ahead(entries, i, j) /\ Ahead(entries, j, k) => Ahead(entries, i, k)
    BY <1>0, <1>1, <1>2
  <1> QED BY <1>3, <1>4, <1>5

\* Each entry stands at a place of its own, behind those that are ahead of it.
LEMMA StandingsAreTheOrder ==
  ASSUME NEW entries \in Seq(Entries)
  PROVE  /\ \A j \in DOMAIN entries : Standing(entries, j) \in DOMAIN entries
         /\ \A i, j \in DOMAIN entries :
              Ahead(entries, i, j) => Standing(entries, i) < Standing(entries, j)
  <1> DEFINE ahead(j) == {i \in DOMAIN entries : Ahead(entries, i, j)}
  <1>0. PICK n \in Nat : n = Len(entries) /\ DOMAIN entries = 1 .. n
    OBVIOUS
  <1>1. IsFiniteSet(DOMAIN entries) /\ Cardinality(DOMAIN entries) = n
    <2>1. IsFiniteSet(1 .. n) /\ Cardinality(1 .. n) = n
      <3>1. 1 \in Int /\ n \in Int
        OBVIOUS
      <3>2. /\ IsFiniteSet(1 .. n)
            /\ Cardinality(1 .. n) = IF 1 > n THEN 0 ELSE n - 1 + 1
        BY <3>1, FS_Interval
      <3> QED BY <3>2
    <2> QED BY <1>0, <2>1
  <1>2. ASSUME NEW j \in DOMAIN entries
        PROVE  /\ IsFiniteSet(ahead(j)) /\ Cardinality(ahead(j)) \in Nat
               /\ j \notin ahead(j)
               /\ IsFiniteSet(ahead(j) \cup {j})
               /\ Cardinality(ahead(j) \cup {j}) = Cardinality(ahead(j)) + 1
    <2>1. j \notin ahead(j)
      BY AheadIsAnOrder
    <2>2. IsFiniteSet(ahead(j))
      BY <1>1, FS_Subset
    <2> HIDE DEF ahead
    <2> QED BY <2>1, <2>2, FS_CardinalityType, FS_AddElement
  <1>3. ASSUME NEW j \in DOMAIN entries PROVE Standing(entries, j) \in DOMAIN entries
    <2>1. Cardinality(ahead(j)) + 1 <= n
      <3>1. ahead(j) \cup {j} \in SUBSET DOMAIN entries
        OBVIOUS
      <3> HIDE DEF ahead
      <3>2. Cardinality(ahead(j) \cup {j}) <= Cardinality(DOMAIN entries)
        BY <1>1, <3>1, FS_Subset
      <3> QED BY <1>1, <1>2, <3>2
    <2>2. Standing(entries, j) = 1 + Cardinality(ahead(j))
      BY DEF Standing
    <2> HIDE DEF ahead
    <2>3. Cardinality(ahead(j)) \in Nat
      BY <1>2
    <2> QED BY <1>0, <2>1, <2>2, <2>3
  <1>4. ASSUME NEW i \in DOMAIN entries, NEW j \in DOMAIN entries, Ahead(entries, i, j)
        PROVE  Standing(entries, i) < Standing(entries, j)
    <2>1. ahead(i) \cup {i} \in SUBSET ahead(j)
      BY <1>4, AheadIsAnOrder
    <2>2. Cardinality(ahead(i)) + 1 <= Cardinality(ahead(j))
      <3> HIDE DEF ahead
      <3>1. Cardinality(ahead(i) \cup {i}) <= Cardinality(ahead(j))
        BY <1>2, <2>1, FS_Subset
      <3> QED BY <1>2, <3>1
    <2>3. /\ Standing(entries, i) = 1 + Cardinality(ahead(i))
          /\ Standing(entries, j) = 1 + Cardinality(ahead(j))
      BY DEF Standing
    <2> HIDE DEF ahead
    <2>4. Cardinality(ahead(i)) \in Nat /\ Cardinality(ahead(j)) \in Nat
      BY <1>2
    <2> QED BY <2>2, <2>3, <2>4
  <1> QED BY <1>3, <1>4

\* A ranked list has the entries of the list, and a better score comes first.
LEMMA RankingIsASort ==
  ASSUME NEW entries \in Seq(Entries)
  PROVE  /\ DOMAIN Ranked(entries) = DOMAIN entries
         /\ Ids(Ranked(entries)) = Ids(entries)
         /\ \A a \in DOMAIN entries : \E i \in DOMAIN entries : Ranked(entries)[a] = entries[i]
         /\ \A a, b \in DOMAIN entries :
              RanksBefore(Ranked(entries)[a], Ranked(entries)[b]) => a < b
  <1> DEFINE S == DOMAIN entries
             of(a) == CHOOSE j \in S : Standing(entries, j) = a
             standings == [j \in S |-> Standing(entries, j)]
  <1>0. PICK n \in Nat : S = 1 .. n
    OBVIOUS
  <1>1. /\ \A j \in S : Standing(entries, j) \in S
        /\ \A i, j \in S : Ahead(entries, i, j) => Standing(entries, i) < Standing(entries, j)
    BY StandingsAreTheOrder
  <1>2. \A i, j \in S : i # j => Standing(entries, i) # Standing(entries, j)
    <2>1. \A i, j \in S : i # j => Ahead(entries, i, j) \/ Ahead(entries, j, i)
      BY AheadIsAnOrder
    <2> QED BY <1>0, <1>1, <2>1
  <1>3. standings \in Injection(S, S)
    BY <1>1, <1>2 DEF Injection, IsInjective
  <1>4. standings \in Surjection(S, S)
    <2>1. IsFiniteSet(S)
      BY <1>0, FS_Interval
    <2> HIDE DEF S, standings
    <2> QED BY <1>3, <2>1, FS_Injection
  <1>5. \A a \in S : of(a) \in S /\ Standing(entries, of(a)) = a
    <2>1. \A a \in S : \E j \in S : Standing(entries, j) = a
      BY <1>4 DEF Surjection
    <2> QED BY <2>1
  <1>6. \A j \in S : of(Standing(entries, j)) = j
    BY <1>1, <1>2, <1>5
  <1>7. DOMAIN Ranked(entries) = S /\ \A a \in S : Ranked(entries)[a] = entries[of(a)]
    BY DEF Ranked
  <1> HIDE DEF of, S
  <1>8. Ids(Ranked(entries)) = Ids(entries)
    BY <1>1, <1>5, <1>6, <1>7 DEF Ids, S
  <1>9. ASSUME NEW a \in S, NEW b \in S, RanksBefore(Ranked(entries)[a], Ranked(entries)[b])
        PROVE  a < b
    <2>1. Ahead(entries, of(a), of(b))
      BY <1>7, <1>9 DEF Ahead
    <2> QED BY <1>1, <1>5, <2>1
  <1> QED BY <1>5, <1>7, <1>8, <1>9 DEF S

-----------------------------------------------------------------------------
(* Queries                                                                     *)

\* Entries that may be ranked together: none has a sum for its score.
Comparable(entries) == \A i \in DOMAIN entries : entries[i].l2 = {} \/ ~entries[i].summed

\* A file of this release and what is about to become one have been migrated, and what a
\* query has to return is acknowledged, so that it is in the file.
QueryInv ==
  /\ file.version = SCHEMA_VERSION => Comparable(file.entries)
  /\ \A s \in Submitters : pc[s] \in {"create", "write"} => Comparable(draft[s])
  /\ \A r \in Readers : pc[r] # "begin" => before[r] \subseteq acked
  /\ before \in [Readers -> SUBSET Submitters] /\ DOMAIN seen = Readers
  /\ RankingIsSound

\* Migration leaves no sum that is ranked.
LEMMA MigratedIsComparable ==
  ASSUME BoardInv, QueryInv, Readable
  PROVE  ReadEntries \in Seq(Entries) /\ Comparable(ReadEntries)
         /\ Ids(ReadEntries) = Ids(file.entries)
  <1>1. file.version \in Nat /\ file.entries \in Seq(Entries)
    BY DEF BoardInv, TypeOK
  <1>2. ReadEntries \in Seq(Entries) /\ Ids(ReadEntries) = Ids(file.entries)
    BY <1>1, MigrationKeepsIds DEF ReadEntries
  <1>3. DOMAIN ReadEntries = DOMAIN file.entries
    BY DEF ReadEntries, Migrate
  <1>4. ASSUME NEW i \in DOMAIN file.entries
        PROVE  ReadEntries[i].l2 = {} \/ ~ReadEntries[i].summed
    <2>0. file.entries[i] \in Entries
      BY <1>1
    <2>1. CASE file.version <= 2 /\ file.entries[i].summed
      <3>1. ReadEntries[i] = [file.entries[i] EXCEPT !.l2 = {}, !.summed = FALSE]
        BY <2>1 DEF ReadEntries, Migrate
      <3> QED BY <2>0, <3>1 DEF Entries
    <2>2. CASE ~(file.version <= 2 /\ file.entries[i].summed)
      <3>1. ReadEntries[i] = file.entries[i]
        BY <2>2 DEF ReadEntries, Migrate
      <3>2. ~(file.version <= 2) => file.version = SCHEMA_VERSION
        BY <1>1 DEF Readable, SCHEMA_VERSION
      <3> QED BY <2>2, <3>1, <3>2 DEF QueryInv, Comparable
    <2> QED BY <2>1, <2>2
  <1> QED BY <1>2, <1>3, <1>4 DEF Comparable

\* What is read is migrated, and a new submission has a mean for its score.
LEMMA QueryReadKeeps ==
  ASSUME BoardInv, QueryInv, NEW s \in Submitters, Read(s)
  PROVE  QueryInv'
  <1> USE LeaderboardAssumption
  <1>1. /\ Readable /\ pc' = [pc EXCEPT ![s] = "create"]
        /\ draft' = [draft EXCEPT ![s] = Append(ReadEntries, Entry(s, ScoreOf[s], FALSE))]
        /\ UNCHANGED <<file, acked, seen, before>>
    BY DEF Read, Goto
  <1>2. ReadEntries \in Seq(Entries) /\ Comparable(ReadEntries)
    BY <1>1, MigratedIsComparable
  <1>3. Comparable(draft'[s])
    <2>1. draft'[s] = Append(ReadEntries, Entry(s, ScoreOf[s], FALSE))
      BY <1>1 DEF BoardInv, TypeOK
    <2>2. Entry(s, ScoreOf[s], FALSE) \in Entries /\ ~Entry(s, ScoreOf[s], FALSE).summed
      BY DEF Entry, Entries
    <2> HIDE DEF Entry
    <2>3. PICK n \in Nat : n = Len(ReadEntries) /\ DOMAIN ReadEntries = 1 .. n
      BY <1>2
    <2> DEFINE new == Entry(s, ScoreOf[s], FALSE)
               longer == Append(ReadEntries, new)
    <2>4. /\ DOMAIN longer = 1 .. n + 1
          /\ \A i \in 1 .. n : longer[i] = ReadEntries[i]
          /\ longer[n + 1] = new
      <3>1. new \in Entries
        BY <2>2
      <3> HIDE DEF new
      <3>2. Len(longer) = Len(ReadEntries) + 1 /\ longer \in Seq(Entries)
        BY <1>2, <3>1
      <3>3. DOMAIN longer = 1 .. Len(longer)
        BY <3>2
      <3>4. /\ \A i \in 1 .. Len(ReadEntries) : longer[i] = ReadEntries[i]
            /\ longer[Len(ReadEntries) + 1] = new
        BY <1>2, <3>1
      <3> QED BY <2>3, <3>2, <3>3, <3>4
    <2>5. draft'[s] = longer
      BY <2>1
    <2>6. ~new.summed
      BY <2>2
    <2> HIDE DEF longer, new
    <2>7. \A i \in 1 .. n + 1 : i = n + 1 \/ i \in 1 .. n
      BY <2>3
    <2> QED BY <1>2, <2>3, <2>4, <2>5, <2>6, <2>7 DEF Comparable
  <1>4. \A q \in Submitters : q # s => draft'[q] = draft[q]
    BY <1>1 DEF BoardInv, TypeOK
  <1>5. pc'[s] = "create" /\ \A q \in Submitters \cup Readers : q # s => pc'[q] = pc[q]
    BY <1>1 DEF BoardInv, PlacesInv
  <1>6. s \notin Readers
    OBVIOUS
  <1> QED BY <1>1, <1>3, <1>4, <1>5, <1>6 DEF QueryInv, RankingIsSound, Comparable

\* No other step of a submitter makes an entry, and readers see none of them.
LEMMA QueryOthersKeep ==
  ASSUME BoardInv, QueryInv, NEW s \in Submitters,
         SubmitStep(s) \/ Dies(s), ~Read(s)
  PROVE  QueryInv'
  <1> USE LeaderboardAssumption
  <1>1. /\ draft' = draft /\ seen' = seen /\ before' = before /\ acked \subseteq acked'
        /\ \/ file' = file
           \/ pc[s] = "write" /\ file' = [version |-> SCHEMA_VERSION, entries |-> draft[s]]
    BY DEF SubmitStep, Validate, TakeLock, CreateTemp, WriteAndReplace, ReturnId, SubmitRaises,
           Dies, Goto
  <1>2. PICK to \in Places : /\ pc' = [pc EXCEPT ![s] = to]
                             /\ to \in {"create", "write"} => pc[s] = "create"
    BY DEF SubmitStep, Validate, TakeLock, CreateTemp, WriteAndReplace, ReturnId, SubmitRaises,
           Dies, Goto, Places
  <1>3. pc'[s] = to /\ \A q \in Submitters \cup Readers : q # s => pc'[q] = pc[q]
    BY <1>2 DEF BoardInv, PlacesInv
  <1>4. s \notin Readers
    OBVIOUS
  <1>5. /\ file'.version = SCHEMA_VERSION => Comparable(file'.entries)
        /\ \A q \in Submitters : pc'[q] \in {"create", "write"} => Comparable(draft'[q])
    BY <1>1, <1>2, <1>3 DEF QueryInv
  <1>6. RankingIsSound'
    BY <1>1, <1>3, <1>4 DEF QueryInv, RankingIsSound
  <1> QED BY <1>1, <1>3, <1>4, <1>5, <1>6 DEF QueryInv, Comparable

\* A query ranks the whole file, in which everything is that was acknowledged.
LEMMA QueryStepKeeps ==
  ASSUME BoardInv, QueryInv, NEW r \in Readers, BeginQuery(r) \/ Query(r)
  PROVE  QueryInv'
  <1> USE LeaderboardAssumption
  <1>1. UNCHANGED <<file, draft, acked>>
    BY DEF BeginQuery, Query
  <1>2. \A q \in Submitters \cup Readers : q # r => pc'[q] = pc[q]
    BY DEF BeginQuery, Query, Goto, BoardInv, PlacesInv
  <1>3. r \notin Submitters
    OBVIOUS
  <1>4. /\ file'.version = SCHEMA_VERSION => Comparable(file'.entries)
        /\ \A q \in Submitters : pc'[q] \in {"create", "write"} => Comparable(draft'[q])
    BY <1>1, <1>2, <1>3 DEF QueryInv
  <1>5. CASE BeginQuery(r)
    <2>1. /\ pc'[r] = "read" /\ seen' = seen /\ before' = [before EXCEPT ![r] = acked]
      BY <1>5 DEF BeginQuery, Goto, BoardInv, PlacesInv
    <2>2. before' \in [Readers -> SUBSET Submitters] /\ before'[r] = acked
          /\ \A q \in Readers : q # r => before'[q] = before[q]
      BY <2>1 DEF QueryInv, BoardInv, TypeOK
    <2>3. RankingIsSound'
      BY <1>2, <2>1, <2>2 DEF QueryInv, RankingIsSound
    <2> QED BY <1>1, <1>2, <1>4, <2>1, <2>2, <2>3 DEF QueryInv
  <1>6. CASE Query(r)
    <2>1. /\ pc[r] = "read" /\ pc'[r] = (IF Readable THEN "returned" ELSE "raised")
          /\ before' = before
          /\ seen' = [seen EXCEPT ![r] = IF Readable THEN Ranked(ReadEntries) ELSE <<>>]
      BY <1>6 DEF Query, Goto, BoardInv, PlacesInv
    <2>2. \A q \in Readers : q # r => seen'[q] = seen[q]
      BY <2>1
    <2>3. before[r] \subseteq Ids(file.entries)
      BY <2>1 DEF QueryInv, BoardInv, SubmitInv
    <2>4. ASSUME Readable
          PROVE  /\ before[r] \subseteq Ids(Ranked(ReadEntries))
                 /\ Comparable(Ranked(ReadEntries))
                 /\ \A i, j \in DOMAIN Ranked(ReadEntries) :
                      RanksBefore(Ranked(ReadEntries)[i], Ranked(ReadEntries)[j]) => i < j
      <3>1. /\ ReadEntries \in Seq(Entries) /\ Comparable(ReadEntries)
            /\ Ids(ReadEntries) = Ids(file.entries)
        BY <2>4, MigratedIsComparable
      <3>2. /\ DOMAIN Ranked(ReadEntries) = DOMAIN ReadEntries
            /\ Ids(Ranked(ReadEntries)) = Ids(ReadEntries)
            /\ \A a \in DOMAIN ReadEntries :
                 \E i \in DOMAIN ReadEntries : Ranked(ReadEntries)[a] = ReadEntries[i]
            /\ \A a, b \in DOMAIN ReadEntries :
                 RanksBefore(Ranked(ReadEntries)[a], Ranked(ReadEntries)[b]) => a < b
        BY <3>1, RankingIsASort
      <3> HIDE DEF Ranked
      <3>3. Comparable(Ranked(ReadEntries))
        BY <3>1, <3>2 DEF Comparable
      <3> QED BY <2>3, <3>1, <3>2, <3>3
    <2>5. pc'[r] = "returned" => Readable
      BY <2>1
    <2>6. /\ Readable => seen'[r] = Ranked(ReadEntries)
          /\ DOMAIN seen' = Readers
      BY <2>1 DEF QueryInv
    <2>7. ASSUME NEW q \in Readers, pc'[q] = "returned"
          PROVE  /\ before'[q] \subseteq Ids(seen'[q]) /\ Comparable(seen'[q])
                 /\ \A i, j \in DOMAIN seen'[q] : RanksBefore(seen'[q][i], seen'[q][j]) => i < j
      <3>1. CASE q = r
        BY <2>1, <2>4, <2>5, <2>6, <2>7, <3>1
      <3>2. CASE q # r
        BY <1>2, <2>1, <2>2, <2>7, <3>2 DEF QueryInv, RankingIsSound, Comparable
      <3> QED BY <3>1, <3>2
    <2>8. RankingIsSound'
      BY <2>7 DEF RankingIsSound, Comparable
    <2>9. \A q \in Readers : pc'[q] # "begin" => before'[q] \subseteq acked'
      BY <1>1, <1>2, <2>1 DEF QueryInv
    <2> QED BY <1>4, <2>1, <2>6, <2>8, <2>9 DEF QueryInv
  <1> QED BY <1>5, <1>6

\* A query returns what was acknowledged before it began, best scores first, and ranks no
\* sum of samples, whatever file an older release had left.
THEOREM RankingHolds == Spec => []RankingIsSound
  <1>1. BoardInv /\ Init => QueryInv
    <2> SUFFICES ASSUME Init PROVE QueryInv
      OBVIOUS
    <2>1. \A r \in Readers : pc[r] = "begin"
      BY DEF Init
    <2>2. \A s \in Submitters : pc[s] = "begin"
      BY DEF Init
    <2>3. file.version = SCHEMA_VERSION => Comparable(file.entries)
      BY LeaderboardAssumption DEF Init, Comparable
    <2> QED BY <2>1, <2>2, <2>3 DEF Init, QueryInv, RankingIsSound
  <1>2. BoardInv /\ QueryInv /\ [Next]_vars => QueryInv'
    <2> SUFFICES ASSUME BoardInv, QueryInv, [Next]_vars PROVE QueryInv'
      OBVIOUS
    <2>1. CASE UNCHANGED vars
      BY <2>1 DEF vars, QueryInv, RankingIsSound, Comparable
    <2>2. ASSUME NEW s \in Submitters, SubmitStep(s) \/ Dies(s) PROVE QueryInv'
      BY <2>2, QueryReadKeeps, QueryOthersKeep
    <2>3. ASSUME NEW r \in Readers, BeginQuery(r) \/ Query(r) PROVE QueryInv'
      BY <2>3, QueryStepKeeps
    <2> QED BY <2>1, <2>2, <2>3 DEF Next
  <1>3. QueryInv => RankingIsSound
    BY DEF QueryInv
  <1> QED BY <1>1, <1>2, <1>3, BoardStarts, BoardInductive, PTL DEF Spec

-----------------------------------------------------------------------------
(* TilePool                                                                  *)

USE DEF parent

Messages == [kind : {"result", "error"}, tiles : SUBSET Tiles]

PoolTypes ==
  /\ call \in {"tiles", "predict"} /\ todo \in [Workers -> SUBSET Tiles]
  /\ wpc \in [Workers -> {"absent", "setup", "working", "exiting", "dead"}]
  /\ buffer \in [Workers -> Seq(Messages)] /\ pipe \in Seq(Messages)
  /\ results \subseteq Tiles /\ answers \in Nat /\ faults \subseteq Workers

Gone == {w \in Workers : wpc[w] \in {"exiting", "dead"}}
Unsent == {w \in Workers : buffer[w] # <<>>}

\* What each call may be at; it looks at its workers when all have been started.
ParentInv ==
  /\ outcome = "abandoned" => ppc = "ended"
  /\ ppc \notin {"start", "ended"} => \A w \in Workers : wpc[w] # "absent"
  /\ call = "tiles" =>
       /\ weights /\ ppc \in {"start", "get", "workers", "queue", "finally", "ended"}
       /\ ppc = "queue" \/ (ppc = "ended" /\ outcome # "abandoned")
            => \A w \in Workers : wpc[w] = "dead"
       /\ ppc \in {"start", "get", "workers", "queue"} => outcome = "none" /\ results # Tiles
  /\ call = "predict" =>
       /\ ppc \in {"start", "get", "join", "ended"}
       /\ outcome # "abandoned" => (ppc = "ended" <=> ~weights)
       /\ ppc # "ended" => outcome = "none"

\* The parent of multiproc_predict has all the answers.
Gathered == ppc = "join" \/ (ppc = "ended" /\ outcome # "abandoned")

\* Each worker of multiproc_predict puts one message, when it has gone, and the parent
\* joins when it has one of each.
CountInv ==
  call = "predict" =>
    /\ answers + Len(pipe) + Cardinality(Unsent) <= Cardinality(Gone)
    /\ \A w \in Unsent : w \in Gone /\ Len(buffer[w]) = 1
    /\ Gathered => answers = NumWorkers

\* The tiles and the kinds of the messages in a sequence of them.
TilesIn(s) == UNION {s[k].tiles : k \in DOMAIN s}
NoErrorIn(s) == \A k \in DOMAIN s : s[k].kind = "result"

\* The tiles a worker is still to send a message about.
Owed(w) ==
  IF call = "tiles" THEN todo[w] ELSE IF w \in Gone THEN {} ELSE ShardOf(w)

\* Where nothing has failed each tile is with a worker, on its way or there.
LossInv ==
  (faults = {} /\ ppc \in {"start", "get", "workers", "queue", "join"}) =>
    /\ \A i \in Tiles : \/ i \in results \cup TilesIn(pipe)
                        \/ \E w \in Workers : i \in TilesIn(buffer[w]) \cup Owed(w)
    /\ call = "tiles" => \A w \in Gone : todo[w] = {}
    /\ \A w \in Workers : wpc[w] = "dead" => buffer[w] = <<>>
    /\ NoErrorIn(pipe) /\ \A w \in Workers : NoErrorIn(buffer[w])

PoolInv == PoolTypes /\ ParentInv /\ CountInv /\ LossInv /\ OutcomeIsJust

-----------------------------------------------------------------------------
(* Shards and messages                                                         *)

\* There are workers, finitely many, and tiles.
LEMMA PoolConstants ==
  /\ NumTiles \in Nat \ {0} /\ NumWorkers \in Nat \ {0} /\ 1 \in Tiles
  /\ IsFiniteSet(Workers) /\ Cardinality(Workers) = NumWorkers
  <1>1. NumTiles \in Nat \ {0} /\ NumWorkers \in Nat \ {0} /\ 1 \in Tiles
    BY PoolAssumption DEF Tiles
  <1> QED BY <1>1, FS_Interval DEF Workers

\* Round robin leaves no tile out.
LEMMA EveryTileHasAWorker == \A i \in Tiles : \E w \in Workers : i \in ShardOf(w)
  <1> TAKE i \in Tiles
  <1> DEFINE w == ((i - 1) % NumWorkers) + 1
  <1>1. i \in Int /\ NumWorkers \in Nat \ {0}
    BY PoolConstants DEF Tiles
  <1>2. (i - 1) % NumWorkers \in 0 .. NumWorkers - 1
    BY <1>1
  <1>3. w \in Workers /\ w - 1 = (i - 1) % NumWorkers
    BY <1>1, <1>2 DEF Workers
  <1> QED BY <1>3 DEF ShardOf

\* A message at the end.
LEMMA MessageIsPut ==
  ASSUME NEW s \in Seq(Messages), NEW m \in Messages
  PROVE  /\ Append(s, m) \in Seq(Messages) /\ Append(s, m) # <<>>
         /\ Len(Append(s, m)) = Len(s) + 1
         /\ TilesIn(Append(s, m)) = TilesIn(s) \cup m.tiles
         /\ NoErrorIn(Append(s, m)) <=> NoErrorIn(s) /\ m.kind = "result"
  <1>1. /\ Append(s, m) \in Seq(Messages) /\ Len(Append(s, m)) = Len(s) + 1 /\ Len(s) \in Nat
        /\ DOMAIN s = 1 .. Len(s) /\ DOMAIN Append(s, m) = 1 .. Len(s) + 1
        /\ \A k \in 1 .. Len(s) : Append(s, m)[k] = s[k]
        /\ Append(s, m)[Len(s) + 1] = m
    OBVIOUS
  <1>2. Append(s, m) # <<>>
    BY <1>1
  <1>3. TilesIn(Append(s, m)) = TilesIn(s) \cup m.tiles
    BY <1>1 DEF TilesIn
  <1>4. NoErrorIn(Append(s, m)) <=> NoErrorIn(s) /\ m.kind = "result"
    BY <1>1 DEF NoErrorIn
  <1> QED BY <1>1, <1>2, <1>3, <1>4

\* A message from the front.
LEMMA MessageIsTaken ==
  ASSUME NEW s \in Seq(Messages), s # <<>>
  PROVE  /\ Tail(s) \in Seq(Messages) /\ Head(s) \in Messages /\ Len(Tail(s)) = Len(s) - 1
         /\ Len(s) \in Nat \ {0}
         /\ TilesIn(s) = Head(s).tiles \cup TilesIn(Tail(s))
         /\ NoErrorIn(s) => NoErrorIn(Tail(s)) /\ Head(s).kind = "result"
  <1>1. /\ Tail(s) \in Seq(Messages) /\ Len(s) \in Nat \ {0} /\ Len(Tail(s)) = Len(s) - 1
        /\ DOMAIN s = 1 .. Len(s) /\ DOMAIN Tail(s) = 1 .. Len(s) - 1
        /\ \A k \in 1 .. Len(s) - 1 : Tail(s)[k] = s[k + 1]
        /\ Head(s) = s[1] /\ Head(s) \in Messages
    OBVIOUS
  <1>2. TilesIn(s) \subseteq Head(s).tiles \cup TilesIn(Tail(s))
    <2> SUFFICES ASSUME NEW k \in 1 .. Len(s), NEW t \in s[k].tiles
                 PROVE  t \in Head(s).tiles \cup TilesIn(Tail(s))
      BY <1>1 DEF TilesIn
    <2>1. CASE k = 1
      BY <1>1, <2>1
    <2>2. CASE k # 1
      <3>1. k - 1 \in 1 .. Len(s) - 1 /\ Tail(s)[k - 1] = s[k]
        BY <1>1, <2>2
      <3> QED BY <1>1, <3>1 DEF TilesIn
    <2> QED BY <2>1, <2>2
  <1>3. Head(s).tiles \cup TilesIn(Tail(s)) \subseteq TilesIn(s)
    <2>1. 1 \in DOMAIN s /\ \A k \in DOMAIN Tail(s) : k + 1 \in DOMAIN s /\ Tail(s)[k] = s[k + 1]
      BY <1>1
    <2> QED BY <1>1, <2>1 DEF TilesIn
  <1>4. NoErrorIn(s) => NoErrorIn(Tail(s)) /\ Head(s).kind = "result"
    <2>1. 1 \in DOMAIN s /\ \A k \in DOMAIN Tail(s) : k + 1 \in DOMAIN s /\ Tail(s)[k] = s[k + 1]
      BY <1>1
    <2> QED BY <1>1, <2>1 DEF NoErrorIn
  <1> QED BY <1>1, <1>2, <1>3, <1>4

\* An empty queue holds nothing.
LEMMA NothingInIt == TilesIn(<<>>) = {} /\ NoErrorIn(<<>>)
  BY DEF TilesIn, NoErrorIn

\* The sets of workers are finite.
LEMMA WorkerSets ==
  ASSUME NEW S \in SUBSET Workers
  PROVE  /\ IsFiniteSet(S) /\ Cardinality(S) \in Nat /\ Cardinality(S) <= NumWorkers
         /\ Cardinality(S) = NumWorkers => S = Workers
  <1>1. IsFiniteSet(S) /\ Cardinality(S) \in Nat /\ Cardinality(S) <= NumWorkers
    BY PoolConstants, FS_Subset, FS_CardinalityType
  <1>2. Cardinality(S) = NumWorkers => S = Workers
    BY PoolConstants, FS_Subset
  <1> QED BY <1>1, <1>2

-----------------------------------------------------------------------------
(* The invariant holds at first                                                *)

\* No worker has begun, so that every tile is owed by the worker of its shard.
LEMMA PoolStarts == PoolInit => PoolInv
  <1> SUFFICES ASSUME PoolInit PROVE PoolInv
    OBVIOUS
  <1>1. PoolTypes
    BY DEF PoolInit, PoolTypes, ShardOf
  <1>2. results # Tiles
    BY PoolConstants DEF PoolInit
  <1>3. ParentInv /\ OutcomeIsJust
    BY <1>2 DEF PoolInit, ParentInv, OutcomeIsJust
  <1>4. Gone = {} /\ Unsent = {}
    BY DEF PoolInit, Gone, Unsent
  <1>5. CountInv
    BY <1>4, FS_EmptySet DEF PoolInit, CountInv, Gathered
  <1>6. LossInv
    <2>1. \A w \in Workers : Owed(w) = ShardOf(w)
      BY <1>4 DEF Owed, PoolInit
    <2> QED BY <1>4, <2>1, EveryTileHasAWorker, NothingInIt DEF PoolInit, LossInv
  <1> QED BY <1>1, <1>3, <1>5, <1>6 DEF PoolInv

-----------------------------------------------------------------------------
(* Types                                                                       *)

\* Every step keeps the variables in their types; the messages of a worker carry tiles.
LEMMA TypesKept ==
  ASSUME PoolTypes, [PoolNext]_poolVars
  PROVE  PoolTypes'
  <1> USE DEF PoolTypes
  <1>0. TerminateAll => /\ wpc' \in [Workers -> {"absent", "setup", "working", "exiting", "dead"}]
                        /\ buffer' \in [Workers -> Seq(Messages)]
    BY DEF TerminateAll
  <1>1. ASSUME NEW w \in Workers, WorkerStep(w) \/ WorkerRaises(w) \/ Killed(w) PROVE PoolTypes'
    <2>1. Error \in Messages /\ Result(ShardOf(w)) \in Messages
          /\ \A i \in Tiles : Result({i}) \in Messages
      BY DEF Error, Result, Messages, ShardOf
    <2>2. CASE SetUp(w) \/ Exit(w)
      BY <2>2 DEF SetUp, Exit, Become
    <2>3. CASE Compute(w)
      <3>1. PICK i \in todo[w] :
              /\ todo' = [todo EXCEPT ![w] = @ \ {i}]
              /\ buffer' = buffer \/ buffer' = [buffer EXCEPT ![w] = Append(@, Result({i}))]
              /\ UNCHANGED <<call, wpc, parent, faults>>
        BY <2>3 DEF Compute, Put
      <3>2. Append(buffer[w], Result({i})) \in Seq(Messages)
        BY <2>1, MessageIsPut
      <3> QED BY <3>1, <3>2
    <2>4. CASE Conclude(w)
      <3>1. Append(buffer[w], Result(ShardOf(w))) \in Seq(Messages)
        BY <2>1, MessageIsPut
      <3> QED BY <2>4, <3>1 DEF Conclude, Put, Become
    <2>5. CASE WorkerRaises(w)
      <3>1. Append(buffer[w], Error) \in Seq(Messages)
        BY <2>1, MessageIsPut
      <3> QED BY <2>5, <3>1 DEF WorkerRaises, Put
    <2>6. CASE Feed(w)
      <3>1. /\ buffer[w] # <<>> /\ pipe' = Append(pipe, Head(buffer[w]))
            /\ buffer' = [buffer EXCEPT ![w] = Tail(@)]
            /\ UNCHANGED <<call, todo, wpc, results, answers, faults>>
        BY <2>6 DEF Feed
      <3>2. Tail(buffer[w]) \in Seq(Messages) /\ Append(pipe, Head(buffer[w])) \in Seq(Messages)
        BY <3>1, MessageIsTaken, MessageIsPut
      <3> QED BY <3>1, <3>2
    <2>7. CASE Killed(w)
      BY <2>7 DEF Killed
    <2> QED BY <1>1, <2>2, <2>3, <2>4, <2>5, <2>6, <2>7 DEF WorkerStep
  <1>2. CASE TakeItem \/ TakeAnswer
    <2>1. /\ pipe # <<>> /\ pipe' = Tail(pipe) /\ results' = results \cup Head(pipe).tiles
          /\ answers' \in {answers, answers + 1} /\ UNCHANGED <<call, todo, faults>>
      BY <1>2 DEF TakeItem, TakeAnswer
    <2>2. <<wpc, buffer>>' = <<wpc, buffer>> \/ TerminateAll
      BY <1>2 DEF TakeItem, TakeAnswer
    <2>3. Tail(pipe) \in Seq(Messages) /\ Head(pipe) \in Messages
      BY <2>1, MessageIsTaken
    <2>4. Head(pipe).tiles \subseteq Tiles
      BY <2>3 DEF Messages
    <2>5. pipe' \in Seq(Messages) /\ results' \subseteq Tiles /\ answers' \in Nat
      BY <2>1, <2>3, <2>4
    <2>6. wpc' \in [Workers -> {"absent", "setup", "working", "exiting", "dead"}]
          /\ buffer' \in [Workers -> Seq(Messages)]
      BY <1>0, <2>2
    <2> QED BY <2>1, <2>5, <2>6
  <1>3. CASE TimeOut \/ LookAtWorkers \/ LookAtQueue \/ JoinAndCleanUp \/ Interrupted
              \/ UNCHANGED poolVars
    BY <1>3 DEF TimeOut, LookAtWorkers, LookAtQueue, JoinAndCleanUp, Interrupted, poolVars
  <1>4. CASE Finally
    BY <1>0, <1>4 DEF Finally
  <1>5. CASE StartWorker \/ StartFails \/ GatherFails \/ ServerCollected
    BY <1>5 DEF StartWorker, StartFails, GatherFails, ServerCollected
  <1> QED BY <1>1, <1>2, <1>3, <1>4, <1>5 DEF PoolNext, ParentStep

-----------------------------------------------------------------------------
(* The parent                                                                  *)

\* Whoever is dead stays so, and a worker changes nothing of the parent's but the pipe.
LEMMA WorkersOnly ==
  ASSUME PoolTypes, NEW w \in Workers, WorkerStep(w) \/ WorkerRaises(w) \/ Killed(w)
  PROVE  /\ UNCHANGED <<call, results, answers, ppc, outcome, weights>>
         /\ \A v \in Workers : /\ wpc[v] = "dead" => wpc'[v] = "dead"
                               /\ wpc[v] # "absent" => wpc'[v] # "absent"
         /\ wpc[w] # "dead" /\ faults \subseteq faults'
  BY DEF PoolTypes, WorkerStep, SetUp, Compute, Conclude, WorkerRaises, Feed, Exit, Killed, Become,
         Alive

\* The parent of each call stays at that call's places, and gives up a queue of dead workers only.
LEMMA ParentKept ==
  ASSUME PoolTypes, ParentInv, [PoolNext]_poolVars
  PROVE  ParentInv'
  <1>1. ASSUME NEW w \in Workers, WorkerStep(w) \/ WorkerRaises(w) \/ Killed(w) PROVE ParentInv'
    BY <1>1, WorkersOnly DEF ParentInv
  <1>2. CASE TakeItem
    <2>1. /\ call = "tiles" /\ ppc = "get" /\ call' = call /\ weights' = weights
          /\ \A w \in Workers : wpc[w] # "absent"
      BY <1>2 DEF TakeItem, Waiting, ParentInv
    <2>2. \A w \in Workers : wpc'[w] # "absent"
      BY <1>2, <2>1 DEF TakeItem, TerminateAll
    <2>3. CASE ppc' = "finally" /\ outcome' \in {"failed", "returned"}
      BY <2>1, <2>2, <2>3 DEF ParentInv
    <2>4. CASE ppc' = ppc /\ outcome' = outcome /\ results' # Tiles
      BY <2>1, <2>2, <2>4 DEF ParentInv
    <2> QED BY <1>2, <2>3, <2>4 DEF TakeItem
  <1>3. CASE Interrupted \/ TimeOut
    BY <1>3 DEF Interrupted, TimeOut, Waiting, ParentInv
  <1>4. CASE LookAtWorkers
    BY <1>4 DEF LookAtWorkers, Alive, ParentInv, PoolTypes
  <1>5. CASE LookAtQueue
    BY <1>5 DEF LookAtQueue, ParentInv, PoolTypes
  <1>6. CASE Finally
    BY <1>6 DEF Finally, TerminateAll, ParentInv, PoolTypes
  <1>7. CASE TakeAnswer \/ JoinAndCleanUp
    BY <1>7 DEF TakeAnswer, JoinAndCleanUp, Waiting, ParentInv, PoolTypes
  <1>8. CASE UNCHANGED poolVars
    BY <1>8 DEF poolVars, ParentInv
  <1>9. CASE StartWorker
    BY <1>9 DEF StartWorker, ParentInv, PoolTypes
  <1>10. CASE StartFails \/ GatherFails \/ ServerCollected
    BY <1>10 DEF StartFails, GatherFails, ServerCollected, Abandon, Waiting, ParentInv
  <1> QED BY <1>1, <1>2, <1>3, <1>4, <1>5, <1>6, <1>7, <1>8, <1>9, <1>10 DEF PoolNext, ParentStep

-----------------------------------------------------------------------------
(* Counting the answers of multiproc_predict                                   *)

\* No worker of multiproc_predict puts a second message, and none puts one before it has gone.
LEMMA CountKept ==
  ASSUME PoolTypes, PoolTypes', ParentInv, CountInv, [PoolNext]_poolVars
  PROVE  CountInv'
  <1>0. call' = call /\ (call = "predict" => ppc \in {"start", "get", "join", "ended"})
    BY DEF ParentInv, PoolNext, WorkerStep, SetUp, Compute, Conclude, WorkerRaises, Feed, Exit,
           Killed, ParentStep, TakeItem, Interrupted, TimeOut, LookAtWorkers, LookAtQueue, Finally,
           TakeAnswer, JoinAndCleanUp, StartWorker, StartFails, GatherFails, ServerCollected,
           poolVars
  <1> SUFFICES ASSUME call = "predict" PROVE CountInv'
    BY <1>0 DEF CountInv
  <1> DEFINE Balance == answers + Len(pipe) + Cardinality(Unsent) <= Cardinality(Gone)
             Sparing == \A w \in Unsent : w \in Gone /\ Len(buffer[w]) = 1
  <1>1. Balance /\ Sparing /\ (Gathered => answers = NumWorkers)
    BY DEF CountInv
  <1>2. /\ Gone \in SUBSET Workers /\ Unsent \in SUBSET Workers /\ answers \in Nat
        /\ Len(pipe) \in Nat
        /\ IsFiniteSet(Gone) /\ IsFiniteSet(Unsent)
        /\ Cardinality(Gone) \in Nat /\ Cardinality(Unsent) \in Nat
    BY WorkerSets DEF Gone, Unsent, PoolTypes
  <1>3. ASSUME NEW w \in Workers, WorkerStep(w) \/ WorkerRaises(w) \/ Killed(w) PROVE CountInv'
    <2>1. UNCHANGED answers /\ Gathered' = Gathered
      BY <1>3, WorkersOnly DEF Gathered
    <2>2. CASE SetUp(w) \/ Exit(w) \/ Compute(w)
      <3>1. buffer' = buffer /\ pipe' = pipe /\ Gone' = Gone
        BY <2>2 DEF SetUp, Exit, Compute, Become, Gone, PoolTypes
      <3>2. Unsent' = Unsent
        BY <3>1 DEF Unsent
      <3> QED BY <1>0, <1>1, <2>1, <3>1, <3>2 DEF CountInv
    <2>3. CASE Conclude(w)
      <3>1. /\ wpc[w] = "working" /\ wpc' = [wpc EXCEPT ![w] = "exiting"] /\ pipe' = pipe
            /\ buffer' = [buffer EXCEPT ![w] = Append(@, Result(ShardOf(w)))]
        BY <2>3 DEF Conclude, Become, Put
      <3>2. w \notin Gone /\ w \notin Unsent /\ buffer[w] = <<>>
        BY <1>1, <3>1 DEF Gone, Unsent
      <3>3. Len(buffer'[w]) = 1 /\ buffer'[w] # <<>>
        BY <3>1, <3>2 DEF PoolTypes
      <3>4. Gone' = Gone \cup {w} /\ Unsent' = Unsent \cup {w}
        BY <3>1, <3>3 DEF Gone, Unsent, PoolTypes
      <3>5. Cardinality(Gone') = Cardinality(Gone) + 1
            /\ Cardinality(Unsent') = Cardinality(Unsent) + 1
        BY <1>2, <3>2, <3>4, FS_AddElement
      <3>6. Balance'
        BY <1>1, <1>2, <2>1, <3>1, <3>5
      <3>7. Sparing'
        BY <1>1, <3>1, <3>3, <3>4 DEF PoolTypes, Unsent
      <3> QED BY <1>1, <2>1, <3>6, <3>7 DEF CountInv
    <2>4. CASE WorkerRaises(w)
      <3>1. /\ wpc[w] \in {"setup", "working"} /\ wpc' = [wpc EXCEPT ![w] = "exiting"]
            /\ UNCHANGED <<buffer, pipe>>
        BY <2>4 DEF WorkerRaises
      <3>2. w \notin Gone /\ Gone' = Gone \cup {w} /\ Unsent' = Unsent
        BY <3>1 DEF Gone, Unsent, PoolTypes
      <3>3. Cardinality(Gone') = Cardinality(Gone) + 1
        BY <1>2, <3>2, FS_AddElement
      <3> QED BY <1>0, <1>1, <1>2, <2>1, <3>1, <3>2, <3>3 DEF CountInv
    <2>5. CASE Feed(w)
      <3>1. /\ w \in Unsent /\ wpc' = wpc /\ pipe' = Append(pipe, Head(buffer[w]))
            /\ buffer' = [buffer EXCEPT ![w] = Tail(@)]
        BY <2>5 DEF Feed, Unsent
      <3>2. buffer[w] \in Seq(Messages) /\ Len(buffer[w]) = 1
        BY <1>1, <3>1 DEF PoolTypes
      <3>3. buffer'[w] = <<>>
        BY <3>1, <3>2 DEF PoolTypes
      <3>4. Head(buffer[w]) \in Messages
        BY <3>2
      <3>5. Len(pipe') = Len(pipe) + 1
        BY <3>1, <3>4, MessageIsPut DEF PoolTypes
      <3>6. Unsent' = Unsent \ {w} /\ Gone' = Gone
        BY <3>1, <3>3 DEF Unsent, Gone, PoolTypes
      <3>7. Cardinality(Unsent') = Cardinality(Unsent) - 1
        BY <1>2, <3>1, <3>6, FS_RemoveElement
      <3>8. Balance'
        BY <1>1, <1>2, <2>1, <3>5, <3>6, <3>7
      <3>9. Sparing'
        BY <1>1, <3>1, <3>6 DEF PoolTypes, Unsent
      <3> QED BY <1>1, <2>1, <3>8, <3>9 DEF CountInv
    <2>6. CASE Killed(w)
      <3>1. /\ wpc' = [wpc EXCEPT ![w] = "dead"] /\ buffer' = [buffer EXCEPT ![w] = <<>>]
            /\ pipe' = pipe
        BY <2>6 DEF Killed
      <3>2. Gone \subseteq Gone' /\ Gone' \in SUBSET Workers /\ Unsent' \subseteq Unsent
        BY <3>1 DEF Gone, Unsent, PoolTypes
      <3>3. Cardinality(Gone) <= Cardinality(Gone') /\ Cardinality(Unsent') <= Cardinality(Unsent)
            /\ Cardinality(Gone') \in Nat /\ Cardinality(Unsent') \in Nat
        BY <1>2, <3>2, WorkerSets, FS_Subset, FS_CardinalityType
      <3>4. Balance'
        BY <1>1, <1>2, <2>1, <3>1, <3>3
      <3>5. Sparing'
        BY <1>1, <3>1, <3>2 DEF PoolTypes, Unsent
      <3> QED BY <1>1, <2>1, <3>4, <3>5 DEF CountInv
    <2> QED BY <1>3, <2>2, <2>3, <2>4, <2>5, <2>6 DEF WorkerStep
  <1>4. CASE TakeAnswer
    <2>1. /\ ppc = "get" /\ pipe # <<>> /\ pipe' = Tail(pipe) /\ answers' = answers + 1
          /\ UNCHANGED <<wpc, buffer>> /\ ppc' = IF answers' = NumWorkers THEN "join" ELSE ppc
      BY <1>4 DEF TakeAnswer, Waiting
    <2>2. Len(pipe') = Len(pipe) - 1
      BY <2>1, MessageIsTaken DEF PoolTypes
    <2>3. Gone' = Gone /\ Unsent' = Unsent
      BY <2>1 DEF Gone, Unsent
    <2>4. Gathered' => answers' = NumWorkers
      BY <2>1 DEF Gathered
    <2> QED BY <1>1, <1>2, <2>1, <2>2, <2>3, <2>4 DEF CountInv
  <1>5. CASE JoinAndCleanUp \/ StartFails \/ GatherFails \/ ServerCollected \/ UNCHANGED poolVars
    <2>1. UNCHANGED <<wpc, buffer, pipe, answers>> /\ (Gathered' => Gathered)
      BY <1>5 DEF JoinAndCleanUp, StartFails, GatherFails, ServerCollected, Abandon, poolVars,
                  Gathered
    <2>2. Gone' = Gone /\ Unsent' = Unsent
      BY <2>1 DEF Gone, Unsent
    <2> QED BY <1>1, <2>1, <2>2 DEF CountInv
  <1>6. ~TakeItem /\ ~Interrupted /\ ~TimeOut /\ ~LookAtWorkers /\ ~LookAtQueue /\ ~Finally
    BY <1>0 DEF TakeItem, Interrupted, TimeOut, Waiting, LookAtWorkers, LookAtQueue, Finally
  <1>7. CASE StartWorker
    <2>1. PICK w \in Workers : wpc[w] = "absent" /\ wpc' = [wpc EXCEPT ![w] = "setup"]
      BY <1>7 DEF StartWorker
    <2>2. UNCHANGED <<buffer, pipe, answers>> /\ ppc' \in {"start", "get"}
      BY <1>7 DEF StartWorker
    <2>3. Gone' = Gone /\ Unsent' = Unsent
      BY <2>1, <2>2 DEF Gone, Unsent, PoolTypes
    <2> QED BY <1>1, <2>2, <2>3 DEF CountInv, Gathered
  <1> QED BY <1>3, <1>4, <1>5, <1>6, <1>7 DEF PoolNext, ParentStep

-----------------------------------------------------------------------------
(* No tile is lost while nothing fails                                         *)

\* A worker that has not failed hands on what it owed.
LEMMA WorkerLosesNothing ==
  ASSUME PoolTypes, PoolTypes', LossInv, NEW w \in Workers, WorkerStep(w), faults = {},
         ppc \in {"start", "get", "workers", "queue", "join"}
  PROVE  LossInv'
  <1> DEFINE At(i) == \/ i \in results \cup TilesIn(pipe)
                      \/ \E v \in Workers : i \in TilesIn(buffer[v]) \cup Owed(v)
             Idle == call = "tiles" => \A v \in Gone : todo[v] = {}
             Flushed == \A v \in Workers : wpc[v] = "dead" => buffer[v] = <<>>
             Clean == NoErrorIn(pipe) /\ \A v \in Workers : NoErrorIn(buffer[v])
  <1>1. (\A i \in Tiles : At(i)) /\ Idle /\ Flushed /\ Clean
    BY DEF LossInv
  <1>2. SUFFICES (\A i \in Tiles : At(i)') /\ Idle' /\ Flushed' /\ Clean'
    BY DEF LossInv
  <1>3. UNCHANGED <<call, results>> /\ wpc[w] # "dead"
    BY WorkersOnly
  <1>4. CASE SetUp(w)
    <2>1. /\ wpc[w] = "setup" /\ wpc' = [wpc EXCEPT ![w] = "working"]
          /\ UNCHANGED <<todo, buffer, pipe>>
      BY <1>4 DEF SetUp, Become
    <2>2. Gone' = Gone
      BY <2>1 DEF Gone, PoolTypes
    <2>3. \A v \in Workers : Owed(v)' = Owed(v)
      BY <1>3, <2>1, <2>2 DEF Owed
    <2> QED BY <1>1, <1>3, <2>1, <2>2, <2>3 DEF PoolTypes
  <1>5. CASE Compute(w)
    <2>1. PICK t \in todo[w] :
            /\ todo' = [todo EXCEPT ![w] = @ \ {t}] /\ wpc' = wpc /\ wpc[w] = "working"
            /\ IF call = "tiles" THEN buffer' = [buffer EXCEPT ![w] = Append(@, Result({t}))]
                                 ELSE buffer' = buffer
            /\ pipe' = pipe
      BY <1>5 DEF Compute, Put
    <2>2. Gone' = Gone /\ w \notin Gone
      BY <2>1 DEF Gone
    <2>3. CASE call = "predict"
      <3>1. \A v \in Workers : Owed(v)' = Owed(v)
        BY <1>3, <2>2, <2>3 DEF Owed
      <3> QED BY <1>1, <1>3, <2>1, <2>2, <2>3, <3>1
    <2>4. CASE call = "tiles"
      <3>1. /\ Result({t}) \in Messages /\ Result({t}).tiles = {t} /\ Result({t}).kind = "result"
            /\ buffer[w] \in Seq(Messages)
        BY <2>1 DEF Result, Messages, PoolTypes
      <3>2. /\ TilesIn(buffer'[w]) = TilesIn(buffer[w]) \cup {t}
            /\ NoErrorIn(buffer[w]) => NoErrorIn(buffer'[w])
            /\ \A v \in Workers : v # w => buffer'[v] = buffer[v]
        <4>1. /\ buffer'[w] = Append(buffer[w], Result({t}))
              /\ \A v \in Workers : v # w => buffer'[v] = buffer[v]
          BY <2>1, <2>4 DEF PoolTypes
        <4>2. /\ TilesIn(Append(buffer[w], Result({t}))) = TilesIn(buffer[w]) \cup Result({t}).tiles
              /\ NoErrorIn(Append(buffer[w], Result({t})))
                   <=> NoErrorIn(buffer[w]) /\ Result({t}).kind = "result"
          BY <3>1, MessageIsPut
        <4> QED BY <3>1, <4>1, <4>2
      <3>3. /\ Owed(w)' = Owed(w) \ {t} /\ \A v \in Workers : v # w => Owed(v)' = Owed(v)
        BY <1>3, <2>1, <2>4 DEF Owed, PoolTypes
      <3>4. \A i \in Tiles : At(i)'
        BY <1>1, <1>3, <2>1, <3>2, <3>3
      <3>5. Idle' /\ Flushed' /\ Clean'
        BY <1>1, <1>3, <2>1, <2>2, <3>2 DEF PoolTypes, Gone
      <3> QED BY <3>4, <3>5
    <2> QED BY <2>3, <2>4 DEF PoolTypes
  <1>6. CASE Conclude(w)
    <2>1. /\ wpc[w] = "working" /\ wpc' = [wpc EXCEPT ![w] = "exiting"] /\ pipe' = pipe
          /\ todo[w] = {} /\ todo' = todo
          /\ IF call = "predict"
               THEN buffer' = [buffer EXCEPT ![w] = Append(@, Result(ShardOf(w)))]
               ELSE buffer' = buffer
      BY <1>6 DEF Conclude, Become, Put
    <2>2. Gone' = Gone \cup {w} /\ w \notin Gone
      BY <2>1 DEF Gone, PoolTypes
    <2>3. \A v \in Workers : v # w => Owed(v)' = Owed(v)
      BY <1>3, <2>1, <2>2 DEF Owed
    <2>4. CASE call = "tiles"
      <3>1. \A v \in Workers : Owed(v)' = Owed(v)
        BY <1>3, <2>1, <2>4 DEF Owed
      <3> QED BY <1>1, <1>3, <2>1, <2>2, <2>4, <3>1 DEF PoolTypes
    <2>5. CASE call = "predict"
      <3>1. /\ Result(ShardOf(w)) \in Messages /\ Result(ShardOf(w)).tiles = ShardOf(w)
            /\ Result(ShardOf(w)).kind = "result" /\ buffer[w] \in Seq(Messages)
        BY DEF Result, Messages, PoolTypes, ShardOf
      <3>2. /\ TilesIn(buffer'[w]) = TilesIn(buffer[w]) \cup ShardOf(w)
            /\ NoErrorIn(buffer[w]) => NoErrorIn(buffer'[w])
            /\ \A v \in Workers : v # w => buffer'[v] = buffer[v]
        <4>1. /\ buffer'[w] = Append(buffer[w], Result(ShardOf(w)))
              /\ \A v \in Workers : v # w => buffer'[v] = buffer[v]
          BY <2>1, <2>5 DEF PoolTypes
        <4>2. /\ TilesIn(Append(buffer[w], Result(ShardOf(w)))) = TilesIn(buffer[w]) \cup Result(ShardOf(w)).tiles
              /\ NoErrorIn(Append(buffer[w], Result(ShardOf(w))))
                   <=> NoErrorIn(buffer[w]) /\ Result(ShardOf(w)).kind = "result"
          BY <3>1, MessageIsPut
        <4> QED BY <3>1, <4>1, <4>2
      <3>3. Owed(w) = ShardOf(w)
        BY <2>2, <2>5 DEF Owed
      <3>4. \A i \in Tiles : At(i)'
        BY <1>1, <1>3, <2>1, <2>3, <3>2, <3>3
      <3>5. Flushed' /\ Clean'
        BY <1>1, <2>1, <3>2 DEF PoolTypes
      <3> QED BY <1>3, <2>5, <3>4, <3>5
    <2> QED BY <2>4, <2>5 DEF PoolTypes
  <1>7. CASE Feed(w)
    <2>1. /\ buffer[w] # <<>> /\ pipe' = Append(pipe, Head(buffer[w]))
          /\ buffer' = [buffer EXCEPT ![w] = Tail(@)] /\ UNCHANGED <<todo, wpc>>
      BY <1>7 DEF Feed
    <2> DEFINE m == Head(buffer[w])
    <2>2. /\ m \in Messages /\ TilesIn(buffer[w]) = m.tiles \cup TilesIn(buffer'[w])
          /\ NoErrorIn(buffer[w]) => NoErrorIn(buffer'[w]) /\ m.kind = "result"
      BY <2>1, MessageIsTaken DEF PoolTypes
    <2>3. /\ TilesIn(pipe') = TilesIn(pipe) \cup m.tiles
          /\ NoErrorIn(pipe) /\ m.kind = "result" => NoErrorIn(pipe')
      BY <2>1, <2>2, MessageIsPut DEF PoolTypes
    <2> HIDE DEF m
    <2>4. \A v \in Workers : v # w => buffer'[v] = buffer[v]
      BY <2>1 DEF PoolTypes
    <2>5. Gone' = Gone
      BY <2>1 DEF Gone
    <2>6. \A v \in Workers : Owed(v)' = Owed(v)
      BY <1>3, <2>1, <2>5 DEF Owed
    <2>7. \A i \in Tiles : At(i)'
      BY <1>1, <1>3, <2>2, <2>3, <2>4, <2>6
    <2>8. Idle' /\ Flushed' /\ Clean'
      BY <1>1, <1>3, <2>1, <2>2, <2>3, <2>4, <2>5
    <2> QED BY <2>7, <2>8
  <1>8. CASE Exit(w)
    <2>1. /\ buffer[w] = <<>> /\ wpc[w] = "exiting" /\ wpc' = [wpc EXCEPT ![w] = "dead"]
          /\ UNCHANGED <<todo, buffer, pipe>>
      BY <1>8 DEF Exit, Become
    <2>2. Gone' = Gone
      BY <2>1 DEF Gone, PoolTypes
    <2>3. \A v \in Workers : Owed(v)' = Owed(v)
      BY <1>3, <2>1, <2>2 DEF Owed
    <2> QED BY <1>1, <1>3, <2>1, <2>2, <2>3 DEF PoolTypes
  <1> QED BY <1>4, <1>5, <1>6, <1>7, <1>8 DEF WorkerStep

\* Without a fault each step hands a tile on: from the shard to a message, to the pipe, to the parent.
LEMMA LossKept ==
  ASSUME PoolTypes, PoolTypes', LossInv, [PoolNext]_poolVars
  PROVE  LossInv'
  <1> SUFFICES ASSUME faults' = {}, ppc' \in {"start", "get", "workers", "queue", "join"} PROVE LossInv'
    BY DEF LossInv
  <1>1. ASSUME NEW w \in Workers, WorkerStep(w) PROVE LossInv'
    <2>1. faults = {} /\ ppc' = ppc
      BY <1>1, WorkersOnly DEF PoolTypes
    <2> QED BY <1>1, <2>1, WorkerLosesNothing
  <1>2. ASSUME NEW w \in Workers, WorkerRaises(w) \/ Killed(w) PROVE FALSE
    BY <1>2 DEF WorkerRaises, Killed
  <1>3. CASE TakeItem \/ TakeAnswer
    <2>1. /\ ppc = "get" /\ pipe # <<>> /\ pipe' = Tail(pipe)
          /\ results' = results \cup Head(pipe).tiles /\ UNCHANGED <<call, todo, faults>>
      BY <1>3 DEF TakeItem, TakeAnswer, Waiting
    <2>2. LossInv /\ faults = {} /\ ppc = "get"
      BY <2>1
    <2>3. UNCHANGED <<wpc, buffer>>
      BY <1>3 DEF TakeItem, TakeAnswer
    <2>4. /\ TilesIn(pipe) = Head(pipe).tiles \cup TilesIn(pipe')
          /\ NoErrorIn(pipe) => NoErrorIn(pipe')
      BY <2>1, MessageIsTaken DEF PoolTypes
    <2>5. Gone' = Gone
      BY <2>3 DEF Gone
    <2>6. \A v \in Workers : Owed(v)' = Owed(v)
      BY <2>1, <2>5 DEF Owed
    <2> QED BY <2>1, <2>2, <2>3, <2>4, <2>5, <2>6 DEF LossInv
  <1>4. CASE TimeOut \/ LookAtWorkers \/ LookAtQueue \/ UNCHANGED poolVars
    <2>1. /\ UNCHANGED <<call, todo, wpc, buffer, pipe, results, faults>>
          /\ ppc \in {"start", "get", "workers", "queue", "join"}
      BY <1>4 DEF TimeOut, Waiting, LookAtWorkers, LookAtQueue, poolVars
    <2>2. Gone' = Gone
      BY <2>1 DEF Gone
    <2>3. \A v \in Workers : Owed(v)' = Owed(v)
      BY <2>1, <2>2 DEF Owed
    <2> QED BY <2>1, <2>2, <2>3 DEF LossInv
  <1>5. ~Finally /\ ~JoinAndCleanUp /\ ~Interrupted /\ ~StartFails /\ ~GatherFails
    BY DEF Finally, JoinAndCleanUp, Interrupted, StartFails, GatherFails, Abandon
  <1>6. CASE StartWorker
    <2>1. PICK w \in Workers : wpc[w] = "absent" /\ wpc' = [wpc EXCEPT ![w] = "setup"]
      BY <1>6 DEF StartWorker
    <2>2. UNCHANGED <<call, todo, buffer, pipe, results, faults>> /\ ppc = "start"
      BY <1>6 DEF StartWorker
    <2>3. Gone' = Gone /\ \A v \in Workers : wpc'[v] = "dead" => wpc[v] = "dead"
      BY <2>1 DEF Gone, PoolTypes
    <2>4. \A v \in Workers : Owed(v)' = Owed(v)
      BY <2>2, <2>3 DEF Owed
    <2> QED BY <2>2, <2>3, <2>4 DEF LossInv
  <1>7. CASE ServerCollected
    <2>1. /\ UNCHANGED <<call, todo, wpc, buffer, pipe, results, faults, ppc>>
      BY <1>7 DEF ServerCollected
    <2>2. Gone' = Gone
      BY <2>1 DEF Gone
    <2>3. \A w \in Workers : Owed(w)' = Owed(w)
      BY <2>1, <2>2 DEF Owed
    <2> QED BY <2>1, <2>2, <2>3 DEF LossInv
  <1> QED BY <1>1, <1>2, <1>3, <1>4, <1>5, <1>6, <1>7 DEF PoolNext, ParentStep

-----------------------------------------------------------------------------
(* The outcome                                                                 *)

\* When all workers have gone and nothing is on its way, every tile is there.
LEMMA AllArrived ==
  ASSUME PoolTypes, LossInv, faults = {}, ppc \in {"queue", "join"}, pipe = <<>>,
         Gone = Workers, \A w \in Workers : buffer[w] = <<>>
  PROVE  results = Tiles
  <1>1. \A w \in Workers : Owed(w) = {}
    BY DEF LossInv, Owed
  <1>2. \A i \in Tiles : i \in results
    BY <1>1, NothingInIt DEF LossInv
  <1> QED BY <1>2 DEF PoolTypes

\* The parent of multiproc_predict has heard from all.
LEMMA AllAnswered ==
  ASSUME PoolTypes, CountInv, call = "predict", Gathered
  PROVE  Gone = Workers /\ pipe = <<>> /\ \A w \in Workers : buffer[w] = <<>>
  <1>1. /\ NumWorkers + Len(pipe) + Cardinality(Unsent) <= Cardinality(Gone)
        /\ answers = NumWorkers
    BY DEF CountInv
  <1>2. Gone \in SUBSET Workers /\ Unsent \in SUBSET Workers /\ Len(pipe) \in Nat
    BY DEF Gone, Unsent, PoolTypes
  <1>3. /\ Cardinality(Gone) \in Nat /\ Cardinality(Gone) <= NumWorkers /\ NumWorkers \in Nat
        /\ Cardinality(Unsent) \in Nat /\ IsFiniteSet(Unsent)
    BY <1>2, WorkerSets, PoolConstants
  <1>4. Cardinality(Gone) = NumWorkers /\ Len(pipe) = 0 /\ Cardinality(Unsent) = 0
    BY <1>1, <1>2, <1>3
  <1>5. Gone = Workers
    BY <1>2, <1>4, WorkerSets
  <1>6. pipe = <<>>
    BY <1>4 DEF PoolTypes
  <1>7. Unsent = {}
    BY <1>3, <1>4, FS_EmptySet
  <1> QED BY <1>5, <1>6, <1>7 DEF Unsent

\* The verdict of the parent is just when nothing has been lost before it.
LEMMA OutcomeKept ==
  ASSUME PoolInv, [PoolNext]_poolVars
  PROVE  OutcomeIsJust'
  <1> USE DEF PoolInv
  <1>1. ASSUME NEW w \in Workers, WorkerStep(w) \/ WorkerRaises(w) \/ Killed(w)
        PROVE  OutcomeIsJust'
    BY <1>1, WorkersOnly DEF OutcomeIsJust
  <1>2. CASE TakeItem
    <2>1. /\ ppc = "get" /\ call = "tiles" /\ pipe # <<>> /\ faults' = faults
          /\ outcome = "none"
      BY <1>2 DEF TakeItem, Waiting, ParentInv
    <2>2. CASE Head(pipe).kind = "error" /\ outcome' = "failed"
      <3>1. ~NoErrorIn(pipe)
        BY <2>1, <2>2, MessageIsTaken DEF PoolTypes
      <3> QED BY <2>1, <2>2, <3>1 DEF LossInv, OutcomeIsJust
    <2>3. CASE results' = Tiles /\ outcome' = "returned"
      BY <2>3 DEF OutcomeIsJust
    <2>4. CASE outcome' = outcome
      BY <2>1, <2>4 DEF OutcomeIsJust
    <2> QED BY <1>2, <2>2, <2>3, <2>4 DEF TakeItem
  <1>3. CASE LookAtQueue
    <2>1. /\ ppc = "queue" /\ call = "tiles" /\ results # Tiles /\ Gone = Workers
          /\ UNCHANGED <<results, faults>>
      BY <1>3 DEF LookAtQueue, ParentInv, PoolTypes, Gone
    <2>2. CASE pipe = <<>> /\ outcome' = "failed"
      <3>1. faults # {}
        <4>1. ASSUME faults = {} PROVE FALSE
          <5>1. \A w \in Workers : buffer[w] = <<>>
            BY <2>1, <4>1 DEF LossInv, ParentInv
          <5> QED BY <2>1, <2>2, <4>1, <5>1, AllArrived
        <4> QED BY <4>1
      <3> QED BY <2>1, <2>2, <3>1 DEF OutcomeIsJust
    <2>3. CASE outcome' = outcome
      BY <2>1, <2>3 DEF OutcomeIsJust
    <2> QED BY <1>3, <2>2, <2>3 DEF LookAtQueue
  <1>4. CASE JoinAndCleanUp
    <2>1. /\ ppc = "join" /\ call = "predict" /\ UNCHANGED <<results, faults>>
          /\ outcome' = IF results = Tiles THEN "returned" ELSE "failed"
      BY <1>4 DEF JoinAndCleanUp, ParentInv, PoolTypes
    <2>2. faults = {} => results = Tiles
      BY <2>1, AllAnswered, AllArrived DEF Gathered
    <2> QED BY <2>1, <2>2 DEF OutcomeIsJust
  <1>5. CASE TimeOut \/ LookAtWorkers \/ Finally \/ StartWorker \/ ServerCollected
              \/ UNCHANGED poolVars
    BY <1>5 DEF TimeOut, LookAtWorkers, Finally, StartWorker, ServerCollected, poolVars,
                OutcomeIsJust
  <1>6. CASE Interrupted \/ StartFails \/ GatherFails
    BY <1>6 DEF Interrupted, StartFails, GatherFails, Abandon, OutcomeIsJust
  <1>7. CASE TakeAnswer
    BY <1>7 DEF TakeAnswer, Waiting, ParentInv, OutcomeIsJust
  <1> QED BY <1>1, <1>2, <1>3, <1>4, <1>5, <1>6, <1>7 DEF PoolNext, ParentStep

\* The invariant is inductive.
LEMMA PoolInductive == PoolInv /\ [PoolNext]_poolVars => PoolInv'
  BY TypesKept, ParentKept, CountKept, LossKept, OutcomeKept DEF PoolInv

\* Workers that finish early, raise or are killed, and a parent that looks at them before
\* their last message has come: neither call fails without a fault of a worker, and
\* neither returns without the result of every tile.
THEOREM OutcomesAreJust == PoolSpec => []OutcomeIsJust
  <1> QED BY PoolStarts, PoolInductive, PTL DEF PoolSpec, PoolInv

\* When parallel_tile_inference is over its workers are dead, and multiproc_predict takes
\* its shared memory away when each of its workers has had its weights: however workers raise
\* and are killed, and unless start() or the gathering of multiproc_predict raises.
THEOREM NothingStays == PoolSpec => []NothingLeftBehind
  <1>1. PoolInv => NothingLeftBehind
    <2> SUFFICES ASSUME PoolInv, outcome # "abandoned" PROVE NothingLeftBehind
      BY DEF NothingLeftBehind
    <2>1. (ppc = "ended" /\ call = "tiles") => \A w \in Workers : ~Alive(w)
      BY DEF PoolInv, ParentInv, Alive
    <2>2. (ppc = "ended" /\ call = "predict") => ~weights
      BY DEF PoolInv, ParentInv
    <2>3. ~weights => Gone = Workers
      BY AllAnswered DEF PoolInv, ParentInv, PoolTypes, Gathered
    <2> QED BY <2>1, <2>2, <2>3 DEF NothingLeftBehind, Gone
  <1> QED BY <1>1, PoolStarts, PoolInductive, PTL DEF PoolSpec

-----------------------------------------------------------------------------
(* WorkerStream                                                              *)

USE DEF threads, ledger, caller

Resident == Computing \cup Queued \cup pending

ThreadPlaces == {"setup", "loop", "timed out", "compute", "finally", "over"}

\* What the balance rests on: tiles are numbers of the plan, each slot a number.
StreamTypes ==
  /\ left \in [Threads -> SUBSET Plan] /\ tile \in [Threads -> Nat]
  /\ at \in [Threads -> ThreadPlaces] /\ raised \subseteq Threads
  /\ slots \in Nat /\ owed \in Nat /\ queue \in Seq(Nat)
  /\ pending \subseteq Plan /\ committed \in Nat
  /\ Computing \subseteq Plan /\ Queued \subseteq Plan

\* The queue holds no tile twice.
QueueDistinct ==
  \A m, n \in 1 .. Len(queue) : queue[m] = queue[n] /\ queue[m] # Sentinel => m = n

\* A tile is to be taken, computed, queued, buffered or committed: one of them only, and
\* in one place of it.
TilesApart ==
  /\ \A v, w \in Threads : v # w => left[v] \cap left[w] = {}
  /\ \A v, w \in Threads :
       at[v] = "compute" /\ at[w] = "compute" /\ tile[v] = tile[w] => v = w
  /\ \A w \in Threads : \A i \in left[w] : i \notin Resident /\ i > committed
  /\ \A i \in Computing : i \notin Queued /\ i \notin pending /\ i > committed
  /\ \A i \in Queued : i \notin pending /\ i > committed
  /\ pending \cap 1 .. committed + 1 = {}
  /\ QueueDistinct

Balanced ==
  /\ slots + owed + Cardinality(Resident) <= ResidentCap
  /\ raised = {} /\ gatherer # "raised" => slots + owed + Cardinality(Resident) = ResidentCap

InOrder == written = [i \in 1 .. committed |-> i]

StreamInv == StreamTypes /\ TilesApart /\ Balanced /\ InOrder

\* The constants are numbers.
LEMMA Constants ==
  /\ StreamTiles \in Nat /\ ResidentCap \in Nat /\ Plan = 1 .. StreamTiles
  /\ AtLeastOne(QueueDepth) \in Nat /\ AtLeastOne(StreamWorkers) \in Nat
  BY StreamAssumption DEF ResidentCap, AtLeastOne, Plan

-----------------------------------------------------------------------------
(* The queue as a set of tiles                                                 *)

\* An item is put at the end of the queue.
LEMMA ItemIsPut ==
  ASSUME queue \in Seq(Nat), NEW x \in Nat, queue' = Append(queue, x)
  PROVE  /\ queue' \in Seq(Nat)
         /\ Queued' = Queued \cup ({x} \ {Sentinel})
         /\ QueueDistinct /\ (x = Sentinel \/ x \notin Queued) => QueueDistinct'
  <1>1. /\ queue' \in Seq(Nat) /\ Len(queue') = Len(queue) + 1 /\ Len(queue) \in Nat
        /\ DOMAIN queue = 1 .. Len(queue) /\ DOMAIN queue' = 1 .. Len(queue) + 1
        /\ \A i \in 1 .. Len(queue) : queue'[i] = queue[i]
        /\ queue'[Len(queue) + 1] = x
    OBVIOUS
  <1>2. Queued' = Queued \cup ({x} \ {Sentinel})
    BY <1>1 DEF Queued
  <1>3. ASSUME QueueDistinct, x = Sentinel \/ x \notin Queued PROVE QueueDistinct'
    <2>1. \A i \in 1 .. Len(queue) : queue[i] # Sentinel => queue[i] \in Queued
      BY <1>1 DEF Queued
    <2> QED BY <1>1, <1>3, <2>1 DEF QueueDistinct
  <1> QED BY <1>1, <1>2, <1>3

\* The item at the front is taken.
LEMMA ItemIsTaken ==
  ASSUME queue \in Seq(Nat), queue # <<>>, queue' = Tail(queue), QueueDistinct
  PROVE  /\ queue' \in Seq(Nat) /\ Head(queue) \in Nat
         /\ Queued' = Queued \ {Head(queue)} /\ QueueDistinct'
         /\ Head(queue) # Sentinel => Head(queue) \in Queued
  <1>1. /\ queue' \in Seq(Nat) /\ Len(queue) \in Nat \ {0} /\ Len(queue') = Len(queue) - 1
        /\ DOMAIN queue = 1 .. Len(queue) /\ DOMAIN queue' = 1 .. Len(queue) - 1
        /\ \A i \in 1 .. Len(queue) - 1 : queue'[i] = queue[i + 1]
        /\ Head(queue) = queue[1] /\ Head(queue) \in Nat
    OBVIOUS
  <1>2. QueueDistinct'
    BY <1>1 DEF QueueDistinct
  <1>3. Queued' \subseteq Queued \ {Head(queue)}
    <2> SUFFICES ASSUME NEW i \in 1 .. Len(queue) - 1, queue'[i] # Sentinel
                 PROVE  queue'[i] \in Queued \ {Head(queue)}
      BY <1>1 DEF Queued
    <2>1. i + 1 \in 1 .. Len(queue) /\ 1 \in 1 .. Len(queue) /\ queue'[i] = queue[i + 1]
      BY <1>1
    <2>2. queue[i + 1] # queue[1]
      BY <2>1 DEF QueueDistinct
    <2> QED BY <1>1, <2>1, <2>2 DEF Queued
  <1>4. Queued \ {Head(queue)} \subseteq Queued'
    <2> SUFFICES ASSUME NEW i \in 1 .. Len(queue), queue[i] # Sentinel, queue[i] # Head(queue)
                 PROVE  queue[i] \in Queued'
      BY <1>1 DEF Queued
    <2>1. i - 1 \in 1 .. Len(queue) - 1 /\ queue'[i - 1] = queue[i]
      BY <1>1
    <2> QED BY <1>1, <2>1 DEF Queued
  <1>5. Head(queue) # Sentinel => Head(queue) \in Queued
    BY <1>1 DEF Queued
  <1> QED BY <1>1, <1>2, <1>3, <1>4, <1>5

\* Whatever is resident is finitely much.
LEMMA ResidentFinite ==
  ASSUME StreamTypes
  PROVE  IsFiniteSet(Resident) /\ Cardinality(Resident) \in Nat
  <1>1. IsFiniteSet(Plan)
    BY Constants, FS_Interval
  <1>2. Resident \in SUBSET Plan
    BY DEF StreamTypes, Resident
  <1> QED BY <1>1, <1>2, FS_Subset, FS_CardinalityType

-----------------------------------------------------------------------------
(* The steps                                                                   *)

\* Nothing is resident at first.
LEMMA StreamStarts == StreamInit => StreamInv
  <1> SUFFICES ASSUME StreamInit PROVE StreamInv
    OBVIOUS
  <1>1. Computing = {} /\ Queued = {} /\ pending = {} /\ Resident = {}
    BY DEF StreamInit, Computing, Queued, Resident
  <1>2. StreamTypes
    BY <1>1, Constants DEF StreamInit, StreamTypes, ThreadPlaces, PlanShard
  <1>3. TilesApart
    <2>1. \A v, w \in Threads : v # w => left[v] \cap left[w] = {}
      BY DEF StreamInit, PlanShard, Threads
    <2>2. QueueDistinct
      BY DEF StreamInit, QueueDistinct
    <2>3. \A w \in Threads : \A i \in left[w] : i \notin Resident /\ i > committed
      BY <1>1, <1>2, Constants DEF StreamInit, StreamTypes
    <2> QED BY <1>1, <2>1, <2>2, <2>3 DEF TilesApart, StreamInit
  <1>4. Balanced
    BY <1>1, Constants, FS_EmptySet DEF StreamInit, Balanced
  <1>5. InOrder
    BY DEF StreamInit, InOrder
  <1> QED BY <1>2, <1>3, <1>4, <1>5 DEF StreamInv

\* A step between two places of a thread, neither of which is computing.
LEMMA ThreadMoves ==
  ASSUME StreamInv, NEW w \in Threads, NEW from \in ThreadPlaces \ {"compute"},
         NEW to \in ThreadPlaces \ {"compute"}, Moves(w, from, to),
         UNCHANGED <<left, tile, raised, slots, queue, caller>>
  PROVE  StreamInv'
  <1> USE DEF StreamInv
  <1>1. Computing' = Computing /\ Queued' = Queued /\ Resident' = Resident
    BY DEF Computing, Queued, Resident, Moves, StreamTypes
  <1>2. StreamTypes'
    BY <1>1 DEF StreamTypes, Moves
  <1>3. QueueDistinct'
    BY DEF TilesApart, QueueDistinct
  <1>4. \A u, v \in Threads :
          (at[u] = "compute" /\ at[v] = "compute" /\ tile[u] = tile[v] => u = v)'
    BY DEF TilesApart, StreamTypes, Moves
  <1>5. TilesApart'
    BY <1>1, <1>3, <1>4 DEF TilesApart
  <1>6. Balanced' /\ InOrder'
    BY <1>1 DEF Balanced, InOrder
  <1> QED BY <1>2, <1>5, <1>6

\* A slot turns into one more tile that is computed.
LEMMA SlotIsTaken ==
  ASSUME StreamInv, NEW w \in Threads, AcquireSlot(w)
  PROVE  StreamInv'
  <1> USE DEF StreamInv
  <1>1. PICK i \in left[w] : /\ tile' = [tile EXCEPT ![w] = i]
                             /\ left' = [left EXCEPT ![w] = @ \ {i}]
    BY DEF AcquireSlot
  <1>2. /\ slots > 0 /\ slots' = slots - 1 /\ at[w] = "loop" /\ at' = [at EXCEPT ![w] = "compute"]
        /\ UNCHANGED <<raised, queue, caller>>
    BY DEF AcquireSlot, Moves
  <1>3. i \in Plan /\ i \in Nat /\ i \notin Resident /\ i > committed
    BY Constants DEF TilesApart, StreamTypes
  <1>4. Computing' = Computing \cup {i} /\ Queued' = Queued /\ Resident' = Resident \cup {i}
    BY <1>1, <1>2 DEF Computing, Queued, Resident, StreamTypes
  <1>5. StreamTypes'
    <2>1. left' \in [Threads -> SUBSET Plan] /\ tile' \in [Threads -> Nat]
      BY <1>1, <1>3 DEF StreamTypes
    <2>2. at' \in [Threads -> ThreadPlaces]
      BY <1>2 DEF StreamTypes, ThreadPlaces
    <2>3. slots' \in Nat
      BY <1>2 DEF StreamTypes
    <2>4. Computing' \subseteq Plan /\ Queued' \subseteq Plan
      BY <1>3, <1>4 DEF StreamTypes
    <2> QED BY <1>2, <2>1, <2>2, <2>3, <2>4 DEF StreamTypes
  <1>6. TilesApart'
    <2>1. \A u, v \in Threads : u # v => left'[u] \cap left'[v] = {}
      BY <1>1 DEF TilesApart, StreamTypes
    <2>2. \A u, v \in Threads :
            at'[u] = "compute" /\ at'[v] = "compute" /\ tile'[u] = tile'[v] => u = v
      <3>1. \A u \in Threads : at[u] = "compute" => tile[u] # i
        BY <1>3 DEF Resident, Computing
      <3> QED BY <1>1, <1>2, <3>1 DEF TilesApart, StreamTypes
    <2>3. \A v \in Threads : \A j \in left'[v] : j \notin Resident' /\ j > committed
      BY <1>1, <1>4 DEF TilesApart, StreamTypes
    <2>4. \A j \in Computing' : j \notin Queued /\ j \notin pending /\ j > committed
      BY <1>3, <1>4 DEF TilesApart, Resident
    <2>5. QueueDistinct'
      BY <1>2 DEF TilesApart, QueueDistinct
    <2> QED BY <1>2, <1>4, <2>1, <2>2, <2>3, <2>4, <2>5 DEF TilesApart
  <1>7. Balanced'
    <2>1. Cardinality(Resident') = Cardinality(Resident) + 1
      BY <1>3, <1>4, ResidentFinite, FS_AddElement
    <2>2. /\ Cardinality(Resident) \in Nat /\ slots \in Nat /\ owed \in Nat
          /\ ResidentCap \in Nat
      BY ResidentFinite, Constants DEF StreamTypes
    <2>3. slots' + owed' + Cardinality(Resident') = slots + owed + Cardinality(Resident)
      BY <1>2, <2>1, <2>2
    <2> QED BY <1>2, <2>3 DEF Balanced
  <1>8. InOrder'
    BY <1>2 DEF InOrder
  <1> QED BY <1>5, <1>6, <1>7, <1>8

\* A computed tile goes to the queue.
LEMMA TileIsDelivered ==
  ASSUME StreamInv, NEW w \in Threads, Deliver(w)
  PROVE  StreamInv'
  <1> USE DEF StreamInv
  <1> DEFINE i == tile[w]
  <1>1. /\ at[w] = "compute" /\ at' = [at EXCEPT ![w] = "loop"] /\ queue' = Append(queue, i)
        /\ UNCHANGED <<left, tile, raised, slots, caller>>
    BY DEF Deliver, Moves, Offer
  <1>2. i \in Computing /\ i \in Nat /\ i # Sentinel
    BY <1>1, Constants DEF Computing, StreamTypes, Sentinel
  <1>3. i \notin Queued /\ QueueDistinct
    BY <1>2 DEF TilesApart
  <1>4. queue' \in Seq(Nat) /\ Queued' = Queued \cup {i} /\ QueueDistinct'
    BY <1>1, <1>2, <1>3, ItemIsPut DEF StreamTypes
  <1>5. Computing' = Computing \ {i}
    BY <1>1 DEF Computing, TilesApart, StreamTypes
  <1>6. Resident' = Resident
    BY <1>1, <1>2, <1>4, <1>5 DEF Resident
  <1>7. StreamTypes'
    BY <1>1, <1>2, <1>4, <1>5 DEF StreamTypes, ThreadPlaces
  <1>8. TilesApart'
    <2>1. \A u, v \in Threads :
            at'[u] = "compute" /\ at'[v] = "compute" /\ tile'[u] = tile'[v] => u = v
      BY <1>1 DEF TilesApart, StreamTypes
    <2> QED BY <1>1, <1>2, <1>4, <1>5, <1>6, <2>1 DEF TilesApart
  <1>9. Balanced' /\ InOrder'
    BY <1>1, <1>6 DEF Balanced, InOrder
  <1> QED BY <1>7, <1>8, <1>9

\* A tile is lost with its slot.
LEMMA TileIsLost ==
  ASSUME StreamInv, NEW w \in Threads, ThreadRaises(w)
  PROVE  StreamInv'
  <1> USE DEF StreamInv
  <1>1. /\ at' = [at EXCEPT ![w] = "finally"] /\ raised' = raised \cup {w}
        /\ UNCHANGED <<left, tile, slots, queue, caller>>
    BY DEF ThreadRaises
  <1>2. Computing' \subseteq Computing /\ Queued' = Queued /\ Resident' \subseteq Resident
    BY <1>1 DEF Computing, Queued, Resident, StreamTypes
  <1>3. StreamTypes'
    BY <1>1, <1>2 DEF StreamTypes, ThreadPlaces
  <1>4. TilesApart'
    <2>1. \A u, v \in Threads :
            at'[u] = "compute" /\ at'[v] = "compute" /\ tile'[u] = tile'[v] => u = v
      BY <1>1 DEF TilesApart, StreamTypes
    <2>2. QueueDistinct'
      BY <1>1 DEF TilesApart, QueueDistinct
    <2> QED BY <1>1, <1>2, <2>1, <2>2 DEF TilesApart
  <1>5. Balanced'
    <2>1. Cardinality(Resident') <= Cardinality(Resident) /\ Cardinality(Resident') \in Nat
      BY <1>2, <1>3, ResidentFinite, FS_Subset, FS_CardinalityType
    <2> QED BY <1>1, <2>1, ResidentFinite, Constants DEF Balanced, StreamTypes
  <1>6. InOrder'
    BY <1>1 DEF InOrder
  <1> QED BY <1>3, <1>4, <1>5, <1>6

\* The sink's list grows by the next numbers.
LEMMA WrittenGrows ==
  ASSUME InOrder, committed \in Nat, NEW n \in Nat, committed <= n, WriteUpTo(n)
  PROVE  InOrder'
  <1> DEFINE more == [k \in 1 .. (n - committed) |-> committed + k]
  <1>1. written \in Seq(Nat) /\ Len(written) = committed
    BY DEF InOrder
  <1>2. more \in Seq(Nat) /\ Len(more) = n - committed
    OBVIOUS
  <1>3. /\ Len(written \o more) = n /\ DOMAIN (written \o more) = 1 .. n
        /\ written \o more \in Seq(Nat)
    BY <1>1, <1>2
  <1>4. ASSUME NEW k \in 1 .. n PROVE (written \o more)[k] = k
    <2>1. CASE k <= committed
      <3>1. (written \o more)[k] = written[k]
        BY <1>1, <1>2, <2>1
      <3> QED BY <2>1, <3>1 DEF InOrder
    <2>2. CASE k > committed
      <3>1. (written \o more)[k] = more[k - committed]
        BY <1>1, <1>2, <2>2
      <3>2. PICK j \in 1 .. (n - committed) : k = committed + j /\ k - committed = j
        <4>1. k - committed \in 1 .. (n - committed) /\ k = committed + (k - committed)
          BY <2>2
        <4> QED BY <4>1
      <3>3. more[j] = k
        BY <3>2
      <3> QED BY <3>1, <3>2, <3>3
    <2> HIDE DEF more
    <2>3. k <= committed \/ k > committed
      OBVIOUS
    <2> QED BY <2>1, <2>2, <2>3, Zenon
  <1>5. written' = written \o more /\ committed' = n
    BY DEF WriteUpTo
  <1> HIDE DEF more
  <1>6. written \o more = [k \in 1 .. n |-> k]
    <2>1. \A s \in Seq(Nat) : Len(s) = n /\ (\A k \in 1 .. n : s[k] = k) => s = [k \in 1 .. n |-> k]
      OBVIOUS
    <2> QED BY <1>3, <1>4, <2>1
  <1> QED BY <1>5, <1>6 DEF InOrder

\* What the ledger takes from the queue, and hands on to the sink up to n, leaves the rest
\* where it was; m is n, or n and the tile on which the sink raised.
LEMMA LedgerAdvances ==
  ASSUME StreamInv, NEW i \in Queued, NEW n \in Nat, NEW m \in {n, n + 1}, committed <= n,
         queue' \in Seq(Nat), Queued' = Queued \ {i}, QueueDistinct',
         (committed + 1) .. m \subseteq pending \cup {i},
         m + 1 \notin pending \cup {i} \/ m = n + 1,
         pending' = (pending \cup {i}) \ 1 .. m, WriteUpTo(n),
         UNCHANGED <<threads, slots>>, owed' \in Nat
  PROVE  /\ StreamTypes' /\ TilesApart' /\ InOrder'
         /\ Cardinality(Resident') = Cardinality(Resident) - (m - committed)
  <1> USE DEF StreamInv
  <1> DEFINE I == (committed + 1) .. m
  <1>0. committed \in Nat /\ n \in Nat /\ m \in Nat /\ committed' = n /\ n <= m /\ committed <= m
    BY DEF StreamTypes, WriteUpTo
  <1>1. Computing' = Computing
    BY DEF Computing
  <1>2. /\ i \in Plan /\ i \in Nat /\ i > committed /\ i \notin pending /\ i \notin Computing
        /\ \A w \in Threads : i \notin left[w]
    BY Constants DEF TilesApart, StreamTypes, Resident
  <1>3. I \subseteq Resident /\ I \cap Computing = {} /\ I \cap Queued' = {}
    BY DEF TilesApart, Resident
  <1>4. Plan \subseteq Nat /\ pending \subseteq Nat
    BY Constants DEF StreamTypes
  <1>5. \A j \in Nat : j > committed /\ j \notin I => j > m
    BY <1>0
  <1>6. pending' = (pending \cup {i}) \ I
    <2>1. \A j \in pending \cup {i} : j \in 1 .. m <=> j \in I
      BY <1>0, <1>2, <1>4 DEF TilesApart
    <2> QED BY <2>1
  <1> HIDE DEF I
  <1>7. Resident' = Resident \ I
    BY <1>1, <1>3, <1>6 DEF Resident
  <1>8. StreamTypes'
    BY <1>0, <1>1, <1>2 DEF StreamTypes
  <1>9. TilesApart'
    <2>1. \A v \in Threads : \A j \in left'[v] : j \notin Resident' /\ j > n
      <3> SUFFICES ASSUME NEW v \in Threads, NEW j \in left[v]
                   PROVE  j \notin Resident' /\ j > n
        OBVIOUS
      <3>1. j \in Nat /\ j > committed /\ j \notin Resident /\ j \notin I
        BY <1>3, <1>4 DEF TilesApart, StreamTypes
      <3> QED BY <1>0, <1>5, <1>7, <3>1
    <2>2. \A j \in Computing' : j \notin Queued' /\ j \notin pending' /\ j > n
      <3> SUFFICES ASSUME NEW j \in Computing
                   PROVE  j \notin Queued' /\ j \notin pending' /\ j > n
        BY <1>1
      <3>1. j \in Nat /\ j > committed /\ j \notin I /\ j \notin Queued /\ j \notin pending
        BY <1>3, <1>4 DEF TilesApart, StreamTypes
      <3> QED BY <1>0, <1>2, <1>5, <1>6, <3>1
    <2>3. \A j \in Queued' : j \notin pending' /\ j > n
      <3> SUFFICES ASSUME NEW j \in Queued, j # i PROVE (j \in Queued' => j \notin pending' /\ j > n)
        OBVIOUS
      <3>1. j \in Nat /\ j > committed /\ j \notin pending
        BY <1>4 DEF TilesApart, StreamTypes
      <3> QED BY <1>0, <1>3, <1>5, <1>6, <3>1
    <2>4. pending' \cap 1 .. n + 1 = {}
      <3>1. CASE m = n
        BY <1>0, <3>1
      <3>2. CASE m = n + 1
        BY <3>2
      <3> QED BY <3>1, <3>2
    <2>5. \A u, v \in Threads : u # v => left'[u] \cap left'[v] = {}
      BY DEF TilesApart
    <2>6. \A u, v \in Threads :
            at'[u] = "compute" /\ at'[v] = "compute" /\ tile'[u] = tile'[v] => u = v
      BY DEF TilesApart
    <2> QED BY <1>0, <2>1, <2>2, <2>3, <2>4, <2>5, <2>6 DEF TilesApart
  <1>10. InOrder'
    BY <1>0, WrittenGrows
  <1>11. Cardinality(Resident') = Cardinality(Resident) - (m - committed)
    <2>1. Resident \cap I = I
      BY <1>3
    <2>2. Cardinality(Resident \ I) = Cardinality(Resident) - Cardinality(I)
      <3>1. Cardinality(Resident \ I) = Cardinality(Resident) - Cardinality(Resident \cap I)
        BY ResidentFinite, FS_Difference
      <3> QED BY <2>1, <3>1
    <2>3. Cardinality(I) = m - committed
      <3>1. Cardinality((committed + 1) .. m) =
              IF committed + 1 > m THEN 0 ELSE m - (committed + 1) + 1
        BY <1>0, FS_Interval
      <3> QED BY <1>0, <3>1 DEF I
    <2> QED BY <1>7, <2>2, <2>3
  <1> QED BY <1>8, <1>9, <1>10, <1>11

\* The ledger takes a tile, and owes a slot for each one it commits.
LEMMA TileIsSubmitted ==
  ASSUME StreamInv, Submit
  PROVE  StreamInv'
  <1> USE DEF StreamInv
  <1> DEFINE i == Head(queue)
  <1>1. PICK n \in committed .. StreamTiles :
          /\ Ready(pending \cup {i}, n) /\ WriteUpTo(n)
          /\ pending' = (pending \cup {i}) \ 1 .. n /\ owed' = n - committed
    BY DEF Submit
  <1>2. /\ owed = 0 /\ queue # <<>> /\ i # Sentinel /\ queue' = Tail(queue)
        /\ UNCHANGED <<threads, slots, sentinels, gatherer>>
    BY DEF Submit, Gathering
  <1>3. queue' \in Seq(Nat) /\ Queued' = Queued \ {i} /\ QueueDistinct' /\ i \in Queued
    BY <1>2, ItemIsTaken DEF StreamTypes, TilesApart
  <1>4. n \in Nat /\ committed \in Nat /\ committed <= n /\ owed' \in Nat
    BY <1>1, Constants DEF StreamTypes
  <1>5. /\ StreamTypes' /\ TilesApart' /\ InOrder'
        /\ Cardinality(Resident') = Cardinality(Resident) - (n - committed)
    BY <1>1, <1>2, <1>3, <1>4, LedgerAdvances DEF Ready
  <1>6. Balanced'
    <2>1. Cardinality(Resident) \in Nat /\ slots \in Nat /\ ResidentCap \in Nat
      BY ResidentFinite, Constants DEF StreamTypes
    <2>2. slots' + owed' + Cardinality(Resident') = slots + owed + Cardinality(Resident)
      BY <1>1, <1>2, <1>4, <1>5, <2>1
    <2> QED BY <1>2, <2>2 DEF Balanced
  <1> QED BY <1>5, <1>6

\* The call ends in an exception: what it held is lost, and its slots with it.
LEMMA CallIsLost ==
  ASSUME StreamInv, CommitRaises
  PROVE  StreamInv'
  <1> USE DEF StreamInv
  <1> DEFINE i == Head(queue)
  <1>1. /\ owed = 0 /\ queue # <<>> /\ i # Sentinel /\ queue' = Tail(queue) /\ gatherer' = "raised"
        /\ UNCHANGED <<threads, slots, owed, sentinels>>
    BY DEF CommitRaises, Gathering
  <1>2. queue' \in Seq(Nat) /\ Queued' = Queued \ {i} /\ QueueDistinct' /\ i \in Queued
    BY <1>1, ItemIsTaken DEF StreamTypes, TilesApart
  <1>3. /\ Cardinality(Resident) \in Nat /\ slots \in Nat /\ ResidentCap \in Nat
        /\ owed \in Nat /\ owed' \in Nat
    BY <1>1, ResidentFinite, Constants DEF StreamTypes
  <1>4. CASE UNCHANGED ledger
    <2>1. Computing' = Computing
      BY <1>1 DEF Computing
    <2>2. Resident' \subseteq Resident
      BY <1>2, <1>4, <2>1 DEF Resident
    <2>3. StreamTypes'
      BY <1>1, <1>2, <1>4, <2>1 DEF StreamTypes
    <2>4. TilesApart'
      BY <1>1, <1>2, <1>4, <2>1, <2>2 DEF TilesApart
    <2>5. Balanced'
      <3>1. Cardinality(Resident') <= Cardinality(Resident) /\ Cardinality(Resident') \in Nat
        BY <2>2, <2>3, ResidentFinite, FS_Subset, FS_CardinalityType
      <3> QED BY <1>1, <1>3, <3>1 DEF Balanced
    <2> QED BY <1>4, <2>3, <2>4, <2>5 DEF InOrder
  <1>5. ASSUME NEW n \in committed .. StreamTiles - 1,
               (committed + 1) .. n + 1 \subseteq pending \cup {i}, WriteUpTo(n),
               pending' = (pending \cup {i}) \ 1 .. n + 1
        PROVE  StreamInv'
    <2>1. n \in Nat /\ committed \in Nat /\ committed <= n
      BY Constants DEF StreamTypes
    <2> PICK m : m = n + 1
      OBVIOUS
    <2>2. /\ m \in {n, n + 1} /\ (committed + 1) .. m \subseteq pending \cup {i}
          /\ pending' = (pending \cup {i}) \ 1 .. m
      BY <1>5
    <2>3. /\ StreamTypes' /\ TilesApart' /\ InOrder'
          /\ Cardinality(Resident') = Cardinality(Resident) - (m - committed)
      BY <1>1, <1>2, <1>3, <1>5, <2>1, <2>2, LedgerAdvances
    <2>4. Balanced'
      BY <1>1, <1>3, <2>1, <2>3 DEF Balanced
    <2> QED BY <2>3, <2>4
  <1> QED BY <1>4, <1>5 DEF CommitRaises

\* The steps of the caller that touch no tile: a slot that was owed becomes free.
LEMMA TilesStay ==
  ASSUME StreamInv, UNCHANGED <<threads, ledger>>, queue' \in Seq(Nat), Queued' = Queued,
         QueueDistinct', slots' \in Nat, owed' \in Nat, slots' + owed' = slots + owed,
         gatherer = "raised" => gatherer' = "raised"
  PROVE  StreamInv'
  <1> USE DEF StreamInv
  <1>1. Computing' = Computing
    BY DEF Computing
  <1>2. Resident' = Resident
    BY <1>1 DEF Resident
  <1>3. StreamTypes'
    BY <1>1 DEF StreamTypes
  <1>4. TilesApart'
    BY <1>1, <1>2 DEF TilesApart
  <1>5. Balanced' /\ InOrder'
    BY <1>2 DEF Balanced, InOrder
  <1> QED BY <1>3, <1>4, <1>5

\* The invariant is inductive.
LEMMA StreamStep == StreamInv /\ [StreamNext]_streamVars => StreamInv'
  <1> SUFFICES ASSUME StreamInv, [StreamNext]_streamVars PROVE StreamInv'
    OBVIOUS
  <1>0. StreamTypes /\ QueueDistinct
    BY DEF StreamInv, TilesApart
  <1>1. ASSUME NEW w \in Threads, ThreadStep(w) PROVE StreamInv'
    <2>1. CASE Prepare(w) \/ AcquireTimesOut(w) \/ LookAtFailures(w) \/ EndShard(w)
      <3>1. PICK from \in ThreadPlaces \ {"compute"}, to \in ThreadPlaces \ {"compute"} :
              Moves(w, from, to)
        BY <2>1 DEF Prepare, AcquireTimesOut, LookAtFailures, EndShard, ThreadPlaces
      <3>2. UNCHANGED <<left, tile, raised, slots, queue, caller>>
        BY <2>1 DEF Prepare, AcquireTimesOut, LookAtFailures, EndShard
      <3> QED BY <3>1, <3>2, ThreadMoves
    <2>2. CASE PutSentinel(w)
      <3>1. /\ at' = [at EXCEPT ![w] = "over"] /\ at[w] = "finally"
            /\ queue' = Append(queue, Sentinel)
            /\ UNCHANGED <<left, tile, raised, slots, caller>>
        BY <2>2 DEF PutSentinel, Moves, Offer
      <3>2. queue' \in Seq(Nat) /\ Queued' = Queued /\ QueueDistinct'
        BY <1>0, <3>1, ItemIsPut DEF StreamTypes, Sentinel
      <3>3. Computing' = Computing
        BY <1>0, <3>1 DEF Computing, StreamTypes
      <3>4. Resident' = Resident
        BY <3>1, <3>2, <3>3 DEF Resident
      <3>5. StreamTypes'
        BY <1>0, <3>1, <3>2, <3>3 DEF StreamTypes, ThreadPlaces
      <3>6. \A u, v \in Threads :
              at'[u] = "compute" /\ at'[v] = "compute" /\ tile'[u] = tile'[v] => u = v
        BY <1>0, <3>1 DEF StreamInv, TilesApart, StreamTypes
      <3>7. TilesApart'
        BY <3>1, <3>2, <3>3, <3>4, <3>6 DEF StreamInv, TilesApart
      <3>8. Balanced' /\ InOrder'
        BY <3>1, <3>4 DEF StreamInv, Balanced, InOrder
      <3> QED BY <3>5, <3>7, <3>8 DEF StreamInv
    <2> QED BY <1>1, <2>1, <2>2, SlotIsTaken, TileIsDelivered, TileIsLost DEF ThreadStep
  <1>2. CASE TakeSentinel
    <2>1. /\ queue # <<>> /\ Head(queue) = Sentinel /\ queue' = Tail(queue)
          /\ UNCHANGED <<threads, slots, ledger, owed, gatherer>>
      BY <1>2 DEF TakeSentinel, Gathering
    <2>2. queue' \in Seq(Nat) /\ Queued' = Queued /\ QueueDistinct'
      BY <1>0, <2>1, ItemIsTaken DEF StreamTypes, Queued
    <2> QED BY <1>0, <2>1, <2>2, TilesStay DEF StreamTypes
  <1>3. CASE ReleaseSlot
    <2>1. /\ gatherer = "gather" /\ owed > 0 /\ owed' = owed - 1 /\ slots' = slots + 1
          /\ UNCHANGED <<threads, queue, ledger, gatherer>>
      BY <1>3 DEF ReleaseSlot
    <2>2. Queued' = Queued /\ QueueDistinct' /\ queue' \in Seq(Nat)
      BY <1>0, <2>1 DEF Queued, QueueDistinct, StreamTypes
    <2>3. slots' \in Nat /\ owed' \in Nat /\ slots' + owed' = slots + owed
      BY <1>0, <2>1 DEF StreamTypes
    <2> QED BY <2>1, <2>2, <2>3, TilesStay
  <1>4. CASE EndStream \/ UNCHANGED streamVars
    <2>1. /\ UNCHANGED <<threads, slots, queue, ledger, owed>>
          /\ gatherer = "raised" => gatherer' = "raised"
      BY <1>4 DEF EndStream, streamVars
    <2>2. Queued' = Queued /\ QueueDistinct' /\ queue' \in Seq(Nat)
      BY <1>0, <2>1 DEF Queued, QueueDistinct, StreamTypes
    <2> QED BY <1>0, <2>1, <2>2, TilesStay DEF StreamTypes
  <1> QED BY <1>1, <1>2, <1>3, <1>4, TileIsSubmitted, CallIsLost DEF StreamNext, CallerStep

\* Backpressure holds for every plan, worker count and queue depth, whatever threads and
\* the sink raise: no more tiles than the cap are computed and not committed, and the
\* commits are those of the plan in its order.
THEOREM BackpressureHolds == StreamSpec => []ResidentIsBounded
  <1>1. StreamInv => ResidentIsBounded
    BY DEF StreamInv, Balanced, InOrder, TilesApart, ResidentIsBounded, Resident
  <1> QED BY <1>1, StreamStarts, StreamStep, PTL DEF StreamSpec

-----------------------------------------------------------------------------
(* The outcome                                                                 *)

Over == {w \in Threads : at[w] = "over"}
SentinelsQueued == {k \in 1 .. Len(queue) : queue[k] = Sentinel}

\* Each thread that is over has put one sentinel, which is taken or in the queue.
SentinelsCounted ==
  sentinels \in Nat /\ sentinels + Cardinality(SentinelsQueued) = Cardinality(Over)

\* Once every thread is over, what it left in the queue has a sentinel behind it.
SentinelIsLast == Over = Threads /\ queue # <<>> => queue[Len(queue)] = Sentinel

\* While nobody raises, a tile of the plan is to be taken, resident or committed, and a
\* thread leaves its loop with no tile left.
NoneMissed ==
  raised = {} /\ gatherer # "raised" =>
    /\ \A i \in Plan : i <= committed \/ i \in Resident \/ \E w \in Threads : i \in left[w]
    /\ \A w \in Threads : at[w] \in {"finally", "over"} => left[w] = {}

OutcomeInv ==
  StreamInv /\ SentinelsCounted /\ SentinelIsLast /\ NoneMissed /\ committed <= StreamTiles
  /\ OutcomeIsEarned

\* There are finitely many threads, and finitely many sentinels in the queue.
LEMMA OverFinite ==
  ASSUME StreamTypes
  PROVE  /\ IsFiniteSet(Threads) /\ IsFiniteSet(Over) /\ IsFiniteSet(SentinelsQueued)
         /\ Cardinality(Over) \in Nat /\ Cardinality(SentinelsQueued) \in Nat
         /\ Cardinality(Over) <= Cardinality(Threads)
         /\ Cardinality(Over) = Cardinality(Threads) => Over = Threads
  <1>1. IsFiniteSet(1 .. AtLeastOne(StreamWorkers)) /\ IsFiniteSet(1 .. Len(queue))
    BY Constants, FS_Interval DEF StreamTypes
  <1>2. /\ Threads \in SUBSET (1 .. AtLeastOne(StreamWorkers)) /\ Over \in SUBSET Threads
        /\ SentinelsQueued \in SUBSET (1 .. Len(queue))
    BY DEF Threads, Over, SentinelsQueued
  <1>3. IsFiniteSet(Threads) /\ IsFiniteSet(SentinelsQueued)
    BY <1>1, <1>2, FS_Subset
  <1> QED BY <1>2, <1>3, FS_Subset, FS_CardinalityType

\* An item that is put adds itself to the sentinels of the queue, when it is one.
LEMMA SentinelIsPut ==
  ASSUME StreamTypes, NEW x \in Nat, queue' = Append(queue, x)
  PROVE  /\ Cardinality(SentinelsQueued') =
              Cardinality(SentinelsQueued) + (IF x = Sentinel THEN 1 ELSE 0)
         /\ queue' # <<>> /\ queue'[Len(queue')] = x
  <1>1. /\ Len(queue) \in Nat /\ Len(queue') = Len(queue) + 1
        /\ \A k \in 1 .. Len(queue) : queue'[k] = queue[k]
        /\ queue'[Len(queue) + 1] = x
    BY DEF StreamTypes
  <1>2. Len(queue) + 1 \notin SentinelsQueued
    BY <1>1 DEF SentinelsQueued
  <1>3. SentinelsQueued' = IF x = Sentinel THEN SentinelsQueued \cup {Len(queue) + 1}
                                           ELSE SentinelsQueued
    BY <1>1 DEF SentinelsQueued
  <1>4. Cardinality(SentinelsQueued \cup {Len(queue) + 1}) = Cardinality(SentinelsQueued) + 1
    BY <1>2, OverFinite, FS_AddElement
  <1>5. queue' # <<>> /\ queue'[Len(queue')] = x
    BY <1>1
  <1> QED BY <1>3, <1>4, <1>5, OverFinite

\* The item that is taken was one of the sentinels of the queue, or all of them stay.
LEMMA SentinelIsTaken ==
  ASSUME StreamTypes, queue # <<>>, queue' = Tail(queue)
  PROVE  /\ Cardinality(SentinelsQueued') =
              Cardinality(SentinelsQueued) - (IF Head(queue) = Sentinel THEN 1 ELSE 0)
         /\ queue' # <<>> => queue'[Len(queue')] = queue[Len(queue)]
  <1>1. /\ Len(queue) \in Nat \ {0} /\ Len(queue') = Len(queue) - 1
        /\ \A k \in 1 .. Len(queue) - 1 : queue'[k] = queue[k + 1]
        /\ Head(queue) = queue[1]
        /\ queue' # <<>> => Len(queue) - 1 \in 1 .. Len(queue) - 1
    BY DEF StreamTypes
  <1> DEFINE rest == SentinelsQueued \ {1}
             f == [k \in rest |-> k - 1]
  <1>2. Cardinality(SentinelsQueued') = Cardinality(rest)
    <2>1. rest \subseteq 2 .. Len(queue)
      BY <1>1 DEF SentinelsQueued
    <2>2. SentinelsQueued' = {k \in 1 .. Len(queue) - 1 : queue[k + 1] = Sentinel}
      BY <1>1 DEF SentinelsQueued
    <2>3. f \in [rest -> SentinelsQueued']
      <3> SUFFICES ASSUME NEW k \in rest PROVE k - 1 \in SentinelsQueued'
        OBVIOUS
      <3>1. k \in 2 .. Len(queue) /\ queue[k] = Sentinel
        BY <2>1 DEF SentinelsQueued
      <3>2. k - 1 \in 1 .. Len(queue) - 1 /\ (k - 1) + 1 = k
        BY <1>1, <3>1
      <3> QED BY <2>2, <3>1, <3>2
    <2>4. \A j, k \in rest : f[j] = f[k] => j = k
      BY <2>1
    <2>5. \A t \in SentinelsQueued' : \E k \in rest : f[k] = t
      <3> SUFFICES ASSUME NEW t \in SentinelsQueued' PROVE t + 1 \in rest /\ f[t + 1] = t
        OBVIOUS
      <3>1. t \in 1 .. Len(queue) - 1 /\ queue[t + 1] = Sentinel
        BY <2>2
      <3>2. t + 1 \in rest
        BY <1>1, <3>1 DEF SentinelsQueued
      <3> QED BY <3>1, <3>2
    <2> HIDE DEF f, rest
    <2>6. f \in Bijection(rest, SentinelsQueued')
      BY <2>3, <2>4, <2>5 DEF Bijection, Injection, Surjection, IsInjective
    <2>7. IsFiniteSet(rest)
      BY OverFinite, FS_RemoveElement DEF rest
    <2> QED BY <2>6, <2>7, FS_Bijection DEF ExistsBijection
  <1>3. Cardinality(rest) = Cardinality(SentinelsQueued) - (IF 1 \in SentinelsQueued THEN 1 ELSE 0)
    <2>1. IsFiniteSet(SentinelsQueued) /\ Cardinality(SentinelsQueued) \in Nat
      BY OverFinite
    <2>2. Cardinality(rest) = IF 1 \in SentinelsQueued THEN Cardinality(SentinelsQueued) - 1
                                                       ELSE Cardinality(SentinelsQueued)
      BY <2>1, FS_RemoveElement
    <2> QED BY <2>1, <2>2
  <1>4. 1 \in SentinelsQueued <=> Head(queue) = Sentinel
    BY <1>1 DEF SentinelsQueued
  <1>5. queue' # <<>> => queue'[Len(queue')] = queue[Len(queue)]
    BY <1>1
  <1> QED BY <1>2, <1>3, <1>4, <1>5

\* Where a thread's step leaves the tiles: in its loop it takes one from what is left, and
\* what it puts in the queue stays resident.
LEMMA TilesAfterThread ==
  ASSUME StreamInv, NEW w \in Threads, ThreadStep(w), ~ ThreadRaises(w)
  PROVE  \A i : i \in Resident \/ (\E v \in Threads : i \in left[v]) =>
                i \in Resident' \/ (\E v \in Threads : i \in left'[v])
  <1>0. StreamTypes
    BY DEF StreamInv
  <1>1. CASE Prepare(w) \/ AcquireTimesOut(w) \/ LookAtFailures(w) \/ EndShard(w)
    <2>1. PICK from \in ThreadPlaces \ {"compute"}, to \in ThreadPlaces \ {"compute"} :
            Moves(w, from, to)
      BY <1>1 DEF Prepare, AcquireTimesOut, LookAtFailures, EndShard, ThreadPlaces
    <2>2. UNCHANGED <<left, tile, queue, pending>>
      BY <1>1 DEF Prepare, AcquireTimesOut, LookAtFailures, EndShard
    <2>3. Resident' = Resident
      BY <1>0, <2>1, <2>2 DEF Resident, Computing, Queued, Moves, StreamTypes
    <2> QED BY <2>2, <2>3
  <1>2. CASE AcquireSlot(w)
    <2>1. PICK i \in left[w] : /\ tile' = [tile EXCEPT ![w] = i]
                               /\ left' = [left EXCEPT ![w] = @ \ {i}]
      BY <1>2 DEF AcquireSlot
    <2>2. /\ at[w] = "loop" /\ at' = [at EXCEPT ![w] = "compute"]
          /\ UNCHANGED <<queue, pending>>
      BY <1>2 DEF AcquireSlot, Moves
    <2>3. Computing' = Computing \cup {i} /\ Queued' = Queued
      BY <1>0, <2>1, <2>2 DEF Computing, Queued, StreamTypes
    <2>4. Resident' = Resident \cup {i}
      BY <2>2, <2>3 DEF Resident
    <2> QED BY <1>0, <2>1, <2>4 DEF StreamTypes
  <1>3. CASE Deliver(w)
    <2>1. /\ at[w] = "compute" /\ at' = [at EXCEPT ![w] = "loop"] /\ queue' = Append(queue, tile[w])
          /\ UNCHANGED <<left, tile, pending>>
      BY <1>3 DEF Deliver, Moves, Offer
    <2>2. tile[w] \in Plan /\ tile[w] \in Nat /\ tile[w] # Sentinel
      BY <1>0, <2>1, Constants DEF Computing, StreamTypes, Sentinel
    <2>3. Queued' = Queued \cup {tile[w]}
      BY <1>0, <2>1, <2>2, ItemIsPut DEF StreamTypes
    <2>4. Computing \subseteq Computing' \cup {tile[w]}
      BY <1>0, <2>1 DEF Computing, StreamTypes
    <2> QED BY <2>1, <2>3, <2>4 DEF Resident
  <1>4. CASE PutSentinel(w)
    <2>1. /\ at[w] = "finally" /\ at' = [at EXCEPT ![w] = "over"]
          /\ queue' = Append(queue, Sentinel) /\ UNCHANGED <<left, tile, pending>>
      BY <1>4 DEF PutSentinel, Moves, Offer
    <2>2. Queued' = Queued
      BY <1>0, <2>1, ItemIsPut DEF StreamTypes, Sentinel
    <2>3. Computing' = Computing
      BY <1>0, <2>1 DEF Computing, StreamTypes
    <2> QED BY <2>1, <2>2, <2>3 DEF Resident
  <1> QED BY <1>1, <1>2, <1>3, <1>4 DEF ThreadStep

\* A step of a thread: it is not over, so that the call has not ended.
LEMMA ThreadKeepsOutcome ==
  ASSUME OutcomeInv, StreamInv', NEW w \in Threads, ThreadStep(w)
  PROVE  OutcomeInv'
  <1> USE DEF OutcomeInv
  <1>0. StreamTypes /\ StreamTypes'
    BY DEF StreamInv
  <1>1. at[w] # "over" /\ UNCHANGED caller
    BY DEF ThreadStep, Prepare, AcquireSlot, AcquireTimesOut, LookAtFailures, Deliver, EndShard,
           ThreadRaises, PutSentinel, Moves
  <1>2. OutcomeIsEarned'
    BY <1>1 DEF OutcomeIsEarned
  <1>3. SentinelsCounted' /\ SentinelIsLast'
    <2>1. CASE PutSentinel(w)
      <3>1. at' = [at EXCEPT ![w] = "over"] /\ queue' = Append(queue, Sentinel)
        BY <2>1 DEF PutSentinel, Moves, Offer
      <3>2. Over' = Over \cup {w} /\ w \notin Over
        BY <1>0, <1>1, <3>1 DEF Over, StreamTypes
      <3>3. Cardinality(Over') = Cardinality(Over) + 1
        BY <1>0, <3>2, OverFinite, FS_AddElement
      <3>4. /\ Cardinality(SentinelsQueued') = Cardinality(SentinelsQueued) + 1
            /\ queue'[Len(queue')] = Sentinel
        BY <1>0, <3>1, SentinelIsPut DEF Sentinel
      <3>5. SentinelsCounted'
        BY <1>0, <1>1, <3>3, <3>4, OverFinite DEF SentinelsCounted
      <3> QED BY <3>4, <3>5 DEF SentinelIsLast
    <2>2. CASE ~ PutSentinel(w)
      <3>1. at'[w] # "over" /\ \A v \in Threads \ {w} : at'[v] = at[v]
        BY <1>0, <2>2 DEF ThreadStep, Prepare, AcquireSlot, AcquireTimesOut, LookAtFailures,
                          Deliver, EndShard, ThreadRaises, Moves, StreamTypes
      <3>2. Over' = Over /\ Over' # Threads
        BY <1>1, <3>1 DEF Over
      <3>3. Cardinality(SentinelsQueued') = Cardinality(SentinelsQueued)
        <4>1. CASE Deliver(w)
          <5>1. at[w] = "compute" /\ queue' = Append(queue, tile[w])
            BY <4>1 DEF Deliver, Moves, Offer
          <5>2. tile[w] \in Nat /\ tile[w] # Sentinel
            BY <1>0, <5>1, Constants DEF Computing, StreamTypes, Sentinel
          <5> QED BY <1>0, <5>1, <5>2, SentinelIsPut, OverFinite
        <4>2. CASE ~ Deliver(w)
          <5>1. queue' = queue
            BY <2>2, <4>2 DEF ThreadStep, Prepare, AcquireSlot, AcquireTimesOut, LookAtFailures,
                              EndShard, ThreadRaises
          <5> QED BY <5>1 DEF SentinelsQueued
        <4> QED BY <4>1, <4>2
      <3> QED BY <1>1, <3>2, <3>3 DEF SentinelsCounted, SentinelIsLast
    <2> QED BY <2>1, <2>2
  <1>4. NoneMissed'
    <2>1. CASE ThreadRaises(w)
      BY <2>1 DEF ThreadRaises, NoneMissed
    <2>2. CASE ~ ThreadRaises(w)
      <3> SUFFICES ASSUME raised' = {}, gatherer' # "raised"
                   PROVE  /\ \A i \in Plan : i <= committed' \/ i \in Resident'
                                             \/ \E v \in Threads : i \in left'[v]
                          /\ \A v \in Threads : at'[v] \in {"finally", "over"} => left'[v] = {}
        BY DEF NoneMissed
      <3>1. raised = {} /\ gatherer # "raised"
        BY <1>1, <2>2 DEF ThreadStep, Prepare, AcquireSlot, AcquireTimesOut, LookAtFailures,
                          Deliver, EndShard, PutSentinel
      <3>2. \A i \in Plan : i <= committed \/ i \in Resident' \/ \E v \in Threads : i \in left'[v]
        BY <2>2, <3>1, TilesAfterThread DEF NoneMissed
      <3>3. \A v \in Threads : at'[v] \in {"finally", "over"} => left'[v] = {}
        BY <1>0, <2>2, <3>1
           DEF NoneMissed, ThreadStep, Prepare, AcquireSlot, AcquireTimesOut, LookAtFailures,
               Deliver, EndShard, PutSentinel, Moves, StreamTypes
      <3> QED BY <1>1, <3>2, <3>3
    <2> QED BY <2>1, <2>2
  <1> QED BY <1>1, <1>2, <1>3, <1>4

\* A tile that the ledger takes is committed with those it waited for, or waits.
LEMMA SubmitKeepsOutcome ==
  ASSUME OutcomeInv, StreamInv', Submit
  PROVE  OutcomeInv'
  <1> USE DEF OutcomeInv
  <1> DEFINE i == Head(queue)
  <1>0. StreamTypes /\ StreamTypes' /\ QueueDistinct
    BY DEF StreamInv, TilesApart
  <1>1. PICK n \in committed .. StreamTiles :
          committed' = n /\ pending' = (pending \cup {i}) \ 1 .. n
    BY DEF Submit, WriteUpTo
  <1>2. /\ queue # <<>> /\ i # Sentinel /\ queue' = Tail(queue) /\ gatherer = "gather"
        /\ UNCHANGED <<threads, sentinels, gatherer>>
    BY DEF Submit, Gathering
  <1>3. Over' = Over /\ Computing' = Computing
    BY <1>2 DEF Over, Computing
  <1>4. SentinelsCounted' /\ SentinelIsLast'
    BY <1>0, <1>2, <1>3, SentinelIsTaken, OverFinite DEF SentinelsCounted, SentinelIsLast
  <1>5. OutcomeIsEarned' /\ committed' <= StreamTiles
    BY <1>0, <1>1, <1>2, Constants DEF OutcomeIsEarned, StreamTypes
  <1>6. NoneMissed'
    <2>1. Queued' = Queued \ {i}
      BY <1>0, <1>2, ItemIsTaken DEF StreamTypes
    <2>2. \A j \in Plan : j \in Resident => j <= n \/ j \in Resident'
      <3> SUFFICES ASSUME NEW j \in Plan, j \in Resident, ~ (j <= n) PROVE j \in Resident'
        OBVIOUS
      <3>1. j \notin 1 .. n
        BY <1>1, Constants DEF StreamTypes
      <3> QED BY <1>1, <1>3, <2>1, <3>1 DEF Resident
    <2>3. \A j \in Plan : j <= committed => j <= n
      BY <1>0, <1>1, Constants DEF StreamTypes
    <2> QED BY <1>1, <1>2, <2>2, <2>3 DEF NoneMissed
  <1> QED BY <1>4, <1>5, <1>6

\* The end: one sentinel of each thread is taken, and with the last of them the queue is
\* empty, so that what is missing would have to be with the ledger.
LEMMA EndIsEarned ==
  ASSUME OutcomeInv, StreamInv', EndStream
  PROVE  OutcomeInv'
  <1> USE DEF OutcomeInv
  <1>0. StreamTypes /\ pending \cap 1 .. committed + 1 = {}
    BY DEF StreamInv, TilesApart
  <1>1. /\ gatherer = "gather" /\ sentinels = Cardinality(Threads)
        /\ UNCHANGED <<threads, slots, queue, ledger, owed, sentinels>>
    BY DEF EndStream
  <1>2. Over = Threads /\ SentinelsQueued = {}
    <2>1. Cardinality(SentinelsQueued) = 0 /\ Cardinality(Over) = Cardinality(Threads)
      <3>1. /\ Cardinality(Over) \in Nat /\ Cardinality(SentinelsQueued) \in Nat
            /\ Cardinality(Threads) \in Nat /\ Cardinality(Over) <= Cardinality(Threads)
        BY <1>0, OverFinite, FS_CardinalityType
      <3> QED BY <1>1, <3>1 DEF SentinelsCounted
    <2> QED BY <1>0, <2>1, OverFinite, FS_EmptySet
  <1>3. queue = <<>>
    <2> SUFFICES ASSUME queue # <<>> PROVE FALSE
      OBVIOUS
    <2>1. Len(queue) \in 1 .. Len(queue)
      BY <1>0 DEF StreamTypes
    <2> QED BY <1>2, <2>1 DEF SentinelIsLast, SentinelsQueued
  <1>4. raised = {} => committed = StreamTiles
    <2> SUFFICES ASSUME raised = {}, committed < StreamTiles PROVE FALSE
      BY <1>0, Constants DEF StreamTypes
    <2>1. committed + 1 \in Plan /\ ~ (committed + 1 <= committed)
      BY <1>0, Constants DEF StreamTypes
    <2>2. \A w \in Threads : left[w] = {} /\ at[w] # "compute"
      BY <1>1, <1>2 DEF NoneMissed, Over
    <2>3. Computing = {} /\ Queued = {}
      BY <1>3, <2>2 DEF Computing, Queued
    <2>4. committed + 1 \in pending
      BY <1>1, <2>1, <2>2, <2>3 DEF NoneMissed, Resident
    <2> QED BY <1>0, <2>1, <2>4, Constants DEF StreamTypes
  <1>5. OutcomeIsEarned'
    <2>1. /\ raised # {} => gatherer' = "failed"
          /\ raised = {} => gatherer' = "returned"
      BY <1>4 DEF EndStream
    <2>2. \A w \in Threads : at[w] = "over"
      BY <1>2 DEF Over
    <2> QED BY <1>1, <1>3, <1>4, <2>1, <2>2 DEF OutcomeIsEarned
  <1>6. Over' = Over /\ SentinelsQueued' = SentinelsQueued /\ Resident' = Resident
    BY <1>1 DEF Over, SentinelsQueued, Resident, Computing, Queued
  <1>7. SentinelsCounted' /\ SentinelIsLast' /\ NoneMissed' /\ committed' <= StreamTiles
    BY <1>1, <1>6 DEF SentinelsCounted, SentinelIsLast, NoneMissed
  <1> QED BY <1>5, <1>7

\* The strengthened invariant is inductive.
LEMMA OutcomeStep == OutcomeInv /\ [StreamNext]_streamVars => OutcomeInv'
  <1> SUFFICES ASSUME OutcomeInv, [StreamNext]_streamVars PROVE OutcomeInv'
    OBVIOUS
  <1>0. StreamInv' /\ StreamTypes /\ QueueDistinct
    BY StreamStep DEF OutcomeInv, StreamInv, TilesApart
  <1>1. CASE TakeSentinel
    <2>1. /\ queue # <<>> /\ Head(queue) = Sentinel /\ queue' = Tail(queue)
          /\ sentinels' = sentinels + 1 /\ gatherer = "gather"
          /\ UNCHANGED <<threads, ledger, gatherer>>
      BY <1>1 DEF TakeSentinel, Gathering
    <2>2. Over' = Over /\ Computing' = Computing
      BY <2>1 DEF Over, Computing
    <2>3. Resident' = Resident
      BY <1>0, <2>1, <2>2, ItemIsTaken DEF Resident, StreamTypes, Queued
    <2>4. SentinelsCounted' /\ SentinelIsLast'
      BY <1>0, <2>1, <2>2, SentinelIsTaken, OverFinite
         DEF OutcomeInv, SentinelsCounted, SentinelIsLast
    <2>5. NoneMissed' /\ OutcomeIsEarned' /\ committed' <= StreamTiles
      BY <2>1, <2>3 DEF OutcomeInv, NoneMissed, OutcomeIsEarned
    <2> QED BY <1>0, <2>4, <2>5 DEF OutcomeInv
  <1>2. CASE CommitRaises
    <2>1. /\ queue # <<>> /\ Head(queue) # Sentinel /\ queue' = Tail(queue) /\ gatherer' = "raised"
          /\ UNCHANGED <<threads, sentinels>>
      BY <1>2 DEF CommitRaises, Gathering
    <2>2. Over' = Over
      BY <2>1 DEF Over
    <2>3. SentinelsCounted' /\ SentinelIsLast'
      BY <1>0, <2>1, <2>2, SentinelIsTaken, OverFinite
         DEF OutcomeInv, SentinelsCounted, SentinelIsLast
    <2>4. committed' <= StreamTiles
      BY <1>0, <1>2, Constants DEF OutcomeInv, CommitRaises, WriteUpTo, StreamTypes
    <2> QED BY <1>0, <2>1, <2>3, <2>4 DEF OutcomeInv, NoneMissed, OutcomeIsEarned
  <1>3. CASE ReleaseSlot \/ UNCHANGED streamVars
    <2>1. UNCHANGED <<threads, queue, ledger, sentinels, gatherer>>
      BY <1>3 DEF ReleaseSlot, streamVars
    <2>2. Over' = Over /\ SentinelsQueued' = SentinelsQueued /\ Resident' = Resident
      BY <2>1 DEF Over, SentinelsQueued, Resident, Computing, Queued
    <2> QED BY <1>0, <2>1, <2>2
            DEF OutcomeInv, SentinelsCounted, SentinelIsLast, NoneMissed, OutcomeIsEarned
  <1> QED BY <1>0, <1>1, <1>2, <1>3, ThreadKeepsOutcome, SubmitKeepsOutcome, EndIsEarned
          DEF StreamNext, CallerStep

\* At first every tile is to be taken: the round robin leaves none out.
LEMMA OutcomeStarts == StreamInit => OutcomeInv
  <1> SUFFICES ASSUME StreamInit PROVE OutcomeInv
    OBVIOUS
  <1>1. StreamInv
    BY StreamStarts
  <1>2. Over = {} /\ SentinelsQueued = {}
    BY DEF StreamInit, Over, SentinelsQueued
  <1>3. SentinelsCounted /\ SentinelIsLast
    BY <1>2, FS_EmptySet DEF StreamInit, SentinelsCounted, SentinelIsLast
  <1>4. \A i \in Plan : \E w \in Threads : i \in left[w]
    <2> SUFFICES ASSUME NEW i \in Plan PROVE \E w \in Threads : i \in left[w]
      OBVIOUS
    <2> DEFINE workers == AtLeastOne(StreamWorkers)
               w == ((i - 1) % workers) + 1
    <2>1. workers \in Nat \ {0}
      BY StreamAssumption DEF AtLeastOne
    <2>2. i - 1 \in Nat /\ (i - 1) % workers \in 0 .. workers - 1
      BY <2>1, Constants
    <2>3. w \in 1 .. workers /\ (i - 1) % workers = w - 1
      BY <2>1, <2>2
    <2>4. i \in PlanShard(w)
      BY <2>3 DEF PlanShard
    <2> QED BY <2>3, <2>4 DEF StreamInit, Threads
  <1>5. NoneMissed
    BY <1>4 DEF StreamInit, NoneMissed
  <1>6. OutcomeIsEarned /\ committed <= StreamTiles
    BY Constants DEF StreamInit, OutcomeIsEarned
  <1> QED BY <1>1, <1>3, <1>5, <1>6 DEF OutcomeInv

\* The caller never returns a report of a plan that is not wholly written, nor one while a
\* thread runs; it never reports a missing tile without a failed thread.  For every plan,
\* worker count and depth of the queue.
THEOREM OutcomeHolds == StreamSpec => []OutcomeIsEarned
  <1>1. OutcomeInv => OutcomeIsEarned
    BY DEF OutcomeInv
  <1> QED BY <1>1, OutcomeStarts, OutcomeStep, PTL DEF StreamSpec
=============================================================================
