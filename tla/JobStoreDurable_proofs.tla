----------------------- MODULE JobStoreDurable_proofs -----------------------
(***************************************************************************)
(* Theorems about JobStoreDurable, for any finite set of jobs and any number   *)
(* of crashes, storage errors and lost inputs.                                 *)
(***************************************************************************)
EXTENDS JobStoreDurableProps, FiniteSetTheorems, TLAPS

USE DEF JobStatus, Terminal, table, files, worker, ghosts

-----------------------------------------------------------------------------
(* Type correctness                                                            *)

\* The transition table leads from statuses to statuses.
LEMMA LegalMoves ==
  ASSUME NEW p \in JobStatus, NEW q
  PROVE  CanTransition(p, q) <=> \/ p = "queued" /\ q \in {"running", "cancelled"}
                                 \/ p = "running" /\ q \in {"succeeded", "failed"}
  BY DEF CanTransition, JOB_TRANSITIONS

\* A start with an empty state directory.
LEMMA InitType == Init => TypeOK
  BY DEF Init, TypeOK, Contents

\* Each step keeps every variable in its set.
LEMMA StepType == TypeOK /\ [Next]_vars => TypeOK'
  <1> SUFFICES ASSUME TypeOK, [Next]_vars PROVE TypeOK'
    OBVIOUS
  <1> USE DEF TypeOK, Contents
  <1>1. CASE Startup
    BY <1>1 DEF Startup, Open, Recover, Recovered, Has, CollectOne, StartServing, RemoveJobDir
  <1>2. CASE Execute
    <2>1. ASSUME NEW j \in Jobs, Claim(j) PROVE TypeOK'
      BY <2>1 DEF Claim, SetStatus
    <2>2. CASE RunnerWrites \/ RunnerReturns \/ DiscardTemp \/ PublishArtifact
      BY <2>2 DEF RunnerWrites, RunnerReturns, DiscardTemp, PublishArtifact
    <2>3. CASE RunnerRaises \/ CommitSucceeded
      BY <2>3 DEF RunnerRaises, CommitSucceeded, SetStatus
    <2> QED BY <1>2, <2>1, <2>2, <2>3 DEF Execute
  <1>3. CASE WorkerDies
    BY <1>3 DEF WorkerDies, Fault
  <1>4. CASE Shutdown
    BY <1>4 DEF Shutdown, BeginStop, DrainQueued, SetStatus, RemoveJobDir, Exit, Forget
  <1>5. CASE Crash
    BY <1>5 DEF Crash, Forget
  <1>6. ASSUME NEW j \in Jobs, Submit(j) PROVE TypeOK'
    <2>1. CASE BeginUpload(j) \/ UploadBreaks(j) \/ PublishInput(j)
      BY <2>1 DEF BeginUpload, UploadBreaks, PublishInput, Request
    <2>2. CASE InsertRow(j) \/ InsertFails(j)
      BY <2>2 DEF InsertRow, InsertFails, Request, Fault, RemoveJobDir
    <2>3. CASE CommitRefused(j) \/ Respond202(j)
      BY <2>3 DEF CommitRefused, Respond202, Request
    <2> QED BY <1>6, <2>1, <2>2, <2>3 DEF Submit
  <1>7. ASSUME NEW j \in Jobs, Remove(j) PROVE TypeOK'
    BY <1>7 DEF Remove, DeleteCancel, DeleteRow, DeleteFiles, Evict, SetStatus, RemoveJobDir
  <1>8. ASSUME NEW j \in Jobs, LoseInput(j) PROVE TypeOK'
    BY <1>8 DEF LoseInput
  <1>9. CASE UNCHANGED vars
    BY <1>9 DEF vars
  <1> QED BY <1>1, <1>2, <1>3, <1>4, <1>5, <1>6, <1>7, <1>8, <1>9 DEF Next

\* Rows, files, process and program counters stay in their types.
THEOREM TypeCorrect == Spec => []TypeOK
  <1> QED BY InitType, StepType, PTL DEF Spec

-----------------------------------------------------------------------------
(* Crash safety                                                                *)

\* Until its row is inserted a job is known to no table and to no deletion; its input, once
\* published, is there; a row that was inserted is there, or was settled before it went.
SubmissionInv ==
  \A j \in Jobs :
    /\ rpc[j] \in {"new", "uploading", "published"} =>
         j \notin rows /\ j \notin removing /\ status[j] = "queued"
    /\ rpc[j] = "published" => j \in input \cup lost
    /\ rpc[j] \in {"inserted", "accepted"} => j \in rows \/ status[j] \in Terminal

\* A process that is down or starting has no worker, no request and no deletion, and is
\* past its recovery only when no row is RUNNING.
ProcessInv ==
  /\ ~Up => /\ wpc = "idle" /\ removing = {}
            /\ \A j \in Jobs : rpc[j] \notin {"uploading", "published", "inserted"}
  /\ mode = "collecting" => \A j \in rows : status[j] # "running"

\* The job in the worker's hands is a RUNNING row, whose artifact is as far as the worker is.
WorkerInv ==
  /\ wpc \in {"running", "produced", "published"} => wjob \in rows /\ status[wjob] = "running"
  /\ wpc = "produced" => tmpArt[wjob] = "complete"
  /\ wpc = "published" => art[wjob] = "complete"
  /\ \A j \in Jobs : status[j] = "queued" => runs[j] = 0

StoreInv ==
  /\ SubmissionInv /\ ProcessInv /\ WorkerInv
  /\ SucceededHasArtifact /\ ArtifactNeverPartial /\ QueuedHasInput
  /\ ExecutedAtMostOnce /\ RemovalIsOfRemovedRows

\* An empty state directory satisfies the invariant.
LEMMA StoreInit == Init => StoreInv
  BY DEF Init, StoreInv, SubmissionInv, ProcessInv, WorkerInv, SucceededHasArtifact,
         ArtifactNeverPartial, QueuedHasInput, ExecutedAtMostOnce, RemovalIsOfRemovedRows, Up

\* Each step of the process, and its death at any point, keeps it.
LEMMA StoreStep == TypeOK /\ StoreInv /\ [Next]_vars => StoreInv'
  <1> SUFFICES ASSUME TypeOK, StoreInv, [Next]_vars PROVE StoreInv'
    OBVIOUS
  <1> USE LegalMoves
      DEF TypeOK, StoreInv, SubmissionInv, ProcessInv, WorkerInv, SucceededHasArtifact,
          ArtifactNeverPartial, QueuedHasInput, ExecutedAtMostOnce, RemovalIsOfRemovedRows,
          Up, Contents
  <1>1. CASE Startup
    <2>1. CASE Open
      BY <2>1 DEF Open
    <2>2. CASE Recover
      BY <2>2 DEF Recover, Recovered, Has
    <2>3. CASE CollectOne
      BY <2>3 DEF CollectOne, RemoveJobDir
    <2>4. CASE StartServing
      BY <2>4 DEF StartServing
    <2> QED BY <1>1, <2>1, <2>2, <2>3, <2>4 DEF Startup
  <1>2. CASE Execute
    <2>1. ASSUME NEW j \in Jobs, Claim(j) PROVE StoreInv'
      BY <2>1 DEF Claim, SetStatus, Has
    <2>2. CASE RunnerWrites
      BY <2>2 DEF RunnerWrites
    <2>3. CASE RunnerReturns
      BY <2>3 DEF RunnerReturns
    <2>4. CASE RunnerRaises
      BY <2>4 DEF RunnerRaises, SetStatus
    <2>5. CASE DiscardTemp
      BY <2>5 DEF DiscardTemp
    <2>6. CASE PublishArtifact
      BY <2>6 DEF PublishArtifact
    <2>7. CASE CommitSucceeded
      BY <2>7 DEF CommitSucceeded, SetStatus
    <2> QED BY <1>2, <2>1, <2>2, <2>3, <2>4, <2>5, <2>6, <2>7 DEF Execute
  <1>3. CASE WorkerDies
    BY <1>3 DEF WorkerDies, Fault
  <1>4. CASE Shutdown
    <2>1. CASE BeginStop
      BY <2>1 DEF BeginStop
    <2>2. ASSUME NEW j \in Jobs, DrainQueued(j) PROVE StoreInv'
      BY <2>2 DEF DrainQueued, SetStatus, RemoveJobDir, Has
    <2>3. CASE Exit
      BY <2>3 DEF Exit, Forget
    <2> QED BY <1>4, <2>1, <2>2, <2>3 DEF Shutdown
  <1>5. CASE Crash
    BY <1>5 DEF Crash, Forget
  <1>6. ASSUME NEW j \in Jobs, Submit(j) PROVE StoreInv'
    <2>1. CASE BeginUpload(j)
      BY <2>1 DEF BeginUpload, Request
    <2>2. CASE UploadBreaks(j)
      BY <2>2 DEF UploadBreaks, Request
    <2>3. CASE PublishInput(j)
      BY <2>3 DEF PublishInput, Request
    <2>4. CASE InsertRow(j)
      BY <2>4 DEF InsertRow, Request
    <2>5. CASE InsertFails(j)
      BY <2>5 DEF InsertFails, Request, Fault, RemoveJobDir
    <2>6. CASE CommitRefused(j)
      BY <2>6 DEF CommitRefused, Request
    <2>7. CASE Respond202(j)
      BY <2>7 DEF Respond202, Request
    <2> QED BY <1>6, <2>1, <2>2, <2>3, <2>4, <2>5, <2>6, <2>7 DEF Submit
  <1>7. ASSUME NEW j \in Jobs, Remove(j) PROVE StoreInv'
    <2>1. CASE DeleteCancel(j)
      BY <2>1 DEF DeleteCancel, SetStatus, Has
    <2>2. CASE DeleteRow(j)
      BY <2>2 DEF DeleteRow
    <2>3. CASE DeleteFiles(j)
      BY <2>3 DEF DeleteFiles, RemoveJobDir
    <2>4. CASE Evict(j)
      BY <2>4 DEF Evict
    <2> QED BY <1>7, <2>1, <2>2, <2>3, <2>4 DEF Remove
  <1>8. ASSUME NEW j \in Jobs, LoseInput(j) PROVE StoreInv'
    BY <1>8 DEF LoseInput
  <1>9. CASE UNCHANGED vars
    BY <1>9 DEF vars
  <1> QED BY <1>1, <1>2, <1>3, <1>4, <1>5, <1>6, <1>7, <1>8, <1>9 DEF Next

\* A crash between the rename of an artifact and the SUCCEEDED commit, or anywhere else,
\* leaves no SUCCEEDED row without its whole artifact.
THEOREM SucceededIsServable == Spec => []SucceededHasArtifact
  <1> QED BY StoreInit, StoreStep, TypeCorrect, PTL DEF Spec, StoreInv

\* No crash leaves half an artifact under the final name, committed or not.
THEOREM ArtifactIsWhole == Spec => []ArtifactNeverPartial
  <1> QED BY StoreInit, StoreStep, TypeCorrect, PTL DEF Spec, StoreInv

\* A succeeded job can be downloaded, and nothing partial ever can.
THEOREM ArtifactsWhole == Spec => []ArtifactsAreWhole
  <1> QED BY SucceededIsServable, ArtifactIsWhole, PTL DEF ArtifactsAreWhole

\* A 202 stands for a row that is there, or that was settled before it was removed.
THEOREM AcknowledgedIsDurable == Spec => []AcknowledgedJobIsDurable
  <1>1. StoreInv => AcknowledgedJobIsDurable
    BY DEF StoreInv, SubmissionInv, AcknowledgedJobIsDurable
  <1> QED BY <1>1, StoreInit, StoreStep, TypeCorrect, PTL DEF Spec

\* Every QUEUED row can be executed, unless its input was removed by somebody else.
THEOREM QueuedIsExecutable == Spec => []QueuedHasInput
  <1> QED BY StoreInit, StoreStep, TypeCorrect, PTL DEF Spec, StoreInv

\* Together: what the client was told is accepted can be executed, whatever crashes.
COROLLARY AcceptedIsExecutable == Spec => []AcceptedJobIsExecutable
  <1> QED BY AcknowledgedIsDurable, QueuedIsExecutable, PTL DEF AcceptedJobIsExecutable

\* No number of crashes, recoveries and requeues runs a job twice.
THEOREM NeverExecutedTwice == Spec => []ExecutedAtMostOnce
  <1> QED BY StoreInit, StoreStep, TypeCorrect, PTL DEF Spec, StoreInv

\* Both: what a 202 promises holds through every crash.
THEOREM AcceptedIsSafe == Spec => []AcceptedJobIsSafe
  <1> QED BY AcceptedIsExecutable, NeverExecutedTwice, PTL DEF AcceptedJobIsSafe

\* A deletion that is between its two steps takes the files of no known job.
THEOREM RemovalIsSafe == Spec => []RemovalIsOfRemovedRows
  <1> QED BY StoreInit, StoreStep, TypeCorrect, PTL DEF Spec, StoreInv

\* Requests and the worker are let in only on a directory that recovery has settled, even
\* when earlier recoveries were themselves cut short.
THEOREM ServesSettled == Spec => ServesFromSettledStore
  <1>1. StoreInv /\ [Next]_vars /\ mode = "collecting" /\ mode' = "up"
          => /\ NoGarbage
             /\ \A j \in rows : status[j] # "running"
             /\ \A j \in rows : status[j] = "queued" => j \in input \cup lost
    <2> SUFFICES ASSUME StoreInv, [Next]_vars, mode = "collecting", mode' = "up"
                 PROVE  NoGarbage /\ \A j \in rows : status[j] # "running"
                                  /\ (status[j] = "queued" => j \in input \cup lost)
      OBVIOUS
    <2>1. ~Execute /\ ~WorkerDies /\ ~Shutdown /\ ~Crash
      BY DEF Execute, Claim, RunnerWrites, RunnerReturns, RunnerRaises, DiscardTemp,
             PublishArtifact, CommitSucceeded, Up, WorkerDies, Shutdown, BeginStop,
             DrainQueued, Exit, Crash, Forget
    <2>2. ~\E j \in Jobs : Submit(j) \/ Remove(j) \/ LoseInput(j)
      BY DEF Submit, BeginUpload, UploadBreaks, PublishInput, InsertRow, InsertFails,
             CommitRefused, Respond202, Request, Up, Remove, DeleteCancel, DeleteRow,
             DeleteFiles, Evict, LoseInput
    <2>3. Startup
      BY <2>1, <2>2 DEF Next, vars
    <2>4. NoGarbage
      BY <2>3 DEF Startup, Open, Recover, CollectOne, StartServing
    <2> QED BY <2>4 DEF StoreInv, ProcessInv, QueuedHasInput
  <1>2. Spec => []StoreInv
    BY StoreInit, StoreStep, TypeCorrect, PTL DEF Spec
  <1>3. StoreInv /\ [Next]_vars =>
          [mode = "collecting" /\ mode' = "up" =>
             /\ NoGarbage
             /\ \A j \in rows : status[j] # "running"
             /\ \A j \in rows : status[j] = "queued" => j \in input \cup lost]_vars
    BY <1>1
  <1> QED BY <1>2, <1>3, PTL DEF Spec, ServesFromSettledStore

-----------------------------------------------------------------------------
(* The store implements the job lifecycle across process lifetimes             *)

\* What a step other than an INSERT may do to the table: recovery may settle many rows.
RowsMove ==
  /\ rows' \subseteq rows
  /\ \A j \in Jobs : status'[j] = status[j] \/ (j \in rows /\ CanTransition(status[j], status'[j]))
  /\ \A j \in rows \ rows' : status[j] \in Terminal /\ status'[j] = status[j]

\* A step other than an INSERT makes legal moves of statuses and removes rows that are terminal.
LEMMA StepMovesRows ==
  ASSUME TypeOK, WorkerInv, [Next]_vars, ~\E j \in Jobs : InsertRow(j)
  PROVE  RowsMove
  <1> USE LegalMoves DEF TypeOK, RowsMove
  <1>1. CASE Startup
    BY <1>1 DEF Startup, Open, Recover, Recovered, Has, CollectOne, StartServing
  <1>2. CASE Execute
    <2>1. ASSUME NEW j \in Jobs, Claim(j) PROVE RowsMove
      BY <2>1 DEF Claim, SetStatus
    <2>2. CASE RunnerWrites \/ RunnerReturns \/ DiscardTemp \/ PublishArtifact
      BY <2>2 DEF RunnerWrites, RunnerReturns, DiscardTemp, PublishArtifact
    <2>3. CASE RunnerRaises \/ CommitSucceeded
      BY <2>3 DEF RunnerRaises, CommitSucceeded, SetStatus
    <2> QED BY <1>2, <2>1, <2>2, <2>3 DEF Execute
  <1>3. CASE WorkerDies
    BY <1>3 DEF WorkerDies
  <1>4. CASE Shutdown
    BY <1>4 DEF Shutdown, BeginStop, DrainQueued, SetStatus, Exit, Forget
  <1>5. CASE Crash
    BY <1>5 DEF Crash, Forget
  <1>6. ASSUME NEW j \in Jobs, Submit(j) PROVE RowsMove
    BY <1>6 DEF Submit, BeginUpload, UploadBreaks, PublishInput, InsertFails, CommitRefused,
                Respond202
  <1>7. ASSUME NEW j \in Jobs, Remove(j) PROVE RowsMove
    BY <1>7 DEF Remove, DeleteCancel, DeleteRow, DeleteFiles, Evict, SetStatus
  <1>8. ASSUME NEW j \in Jobs, LoseInput(j) PROVE RowsMove
    BY <1>8 DEF LoseInput
  <1>9. CASE UNCHANGED vars
    BY <1>9 DEF vars
  <1> QED BY <1>1, <1>2, <1>3, <1>4, <1>5, <1>6, <1>7, <1>8, <1>9 DEF Next

\* The empty store is the initial state of the lifecycle.
LEMMA LifecycleInitially == Init => Lifecycle!LifecycleInit
  BY DEF Init, Lifecycle!LifecycleInit, Phase

\* The instance's own copy of Cardinality is the one used everywhere else.
LEMMA SameCardinality == \A S : Lifecycle!Cardinality(S) = Cardinality(S)
  BY DEF Cardinality, Lifecycle!Cardinality

\* Every step of the store is a step of the lifecycle, or a stutter of it.
LEMMA LifecycleStep ==
  ASSUME TypeOK, TypeOK', StoreInv, [Next]_vars
  PROVE  Lifecycle!LifecycleNext
  <1>1. CASE \E j \in Jobs : InsertRow(j)
    <2>1. PICK j \in Jobs : InsertRow(j)
      BY <1>1
    <2>2. /\ j \notin rows /\ status[j] = "queued"
          /\ rows' = rows \cup {j} /\ status' = [status EXCEPT ![j] = "queued"]
      BY <2>1 DEF InsertRow, Request, StoreInv, SubmissionInv
    <2>3. Phase[j] = "absent"
      BY <2>2 DEF Phase
    <2>4. Phase' = [Phase EXCEPT ![j] = "queued"]
      BY <2>2 DEF Phase, TypeOK
    <2>5. Lifecycle!Queued(Phase) \subseteq Jobs \ {j}
      BY <2>3 DEF Lifecycle!Queued
    <2>6. Cardinality(Lifecycle!Queued(Phase)) < Cardinality(Jobs)
      <3>1. IsFiniteSet(Jobs \ {j}) /\ Cardinality(Jobs \ {j}) = Cardinality(Jobs) - 1
        BY StoreAssumption, FS_RemoveElement
      <3>2. Cardinality(Lifecycle!Queued(Phase)) <= Cardinality(Jobs \ {j})
        BY <2>5, <3>1, FS_Subset
      <3>3. Cardinality(Lifecycle!Queued(Phase)) \in Nat /\ Cardinality(Jobs) \in Nat
        BY <2>5, <3>1, StoreAssumption, FS_Subset, FS_CardinalityType
      <3> QED BY <3>1, <3>2, <3>3
    <2>7. Lifecycle!Accept(j)
      BY <2>3, <2>4, <2>6, SameCardinality DEF Lifecycle!Accept
    <2> QED BY <2>7 DEF Lifecycle!LifecycleNext
  <1>2. CASE ~\E j \in Jobs : InsertRow(j)
    <2>1. RowsMove
      BY <1>2, StepMovesRows DEF StoreInv
    <2>2. Phase' \in [Jobs -> Lifecycle!Phases]
      BY DEF Phase, Lifecycle!Phases, TypeOK, Lifecycle!JobStatus
    <2>3. ASSUME NEW j \in Jobs
          PROVE  Phase'[j] = Phase[j] \/ Lifecycle!Edge(Phase[j], Phase'[j])
      <3>1. CASE j \notin rows
        BY <2>1, <3>1 DEF Phase, RowsMove
      <3>2. CASE j \in rows /\ j \in rows'
        BY <2>1, <3>2 DEF Phase, RowsMove, Lifecycle!Edge, Lifecycle!JobStatus, TypeOK,
                          CanTransition, Lifecycle!CanTransition, JOB_TRANSITIONS,
                          Lifecycle!JOB_TRANSITIONS
      <3>3. CASE j \in rows /\ j \notin rows'
        BY <2>1, <3>3 DEF Phase, RowsMove, Lifecycle!Edge, Lifecycle!Terminal
      <3> QED BY <3>1, <3>2, <3>3
    <2> QED BY <2>2, <2>3 DEF Lifecycle!LifecycleNext, Lifecycle!Advance
  <1> QED BY <1>1, <1>2

\* Crashes, recoveries that are cut short, restarts, drains and lost inputs show a client
\* nothing but the abstract lifecycle of each job.
THEOREM StoreImplementsLifecycle == Spec => ImplementsLifecycle
  <1>1. TypeOK /\ TypeOK' /\ StoreInv /\ [Next]_vars => [Lifecycle!LifecycleNext]_Phase
    BY LifecycleStep
  <1> QED BY <1>1, LifecycleInitially, StoreInit, StoreStep, TypeCorrect, PTL
          DEF Spec, ImplementsLifecycle, Lifecycle!LifecycleSpec
=============================================================================
