------------------------ MODULE JobStoreDurableProps ------------------------
(***************************************************************************)
(* What the durable backend guarantees through crashes and restarts.           *)
(***************************************************************************)
EXTENDS JobStoreDurable

TypeOK ==
  /\ rows \subseteq Jobs /\ status \in [Jobs -> JobStatus]
  /\ staged \subseteq Jobs /\ input \subseteq Jobs
  /\ tmpArt \in [Jobs -> Contents] /\ art \in [Jobs -> Contents]
  /\ mode \in {"down", "recovering", "collecting", "up", "draining"}
  /\ rpc \in [Jobs -> {"new", "uploading", "published", "inserted", "accepted",
                       "refused", "broken"}]
  /\ wpc \in {"idle", "running", "produced", "discarding", "published", "dead"}
  /\ wjob \in Jobs \cup {NoJob}
  /\ removing \subseteq Jobs /\ lost \subseteq Jobs /\ discarded \subseteq Jobs
  /\ runs \in [Jobs -> Nat] /\ crashes \in Nat /\ faults \in Nat

\* A SUCCEEDED row is never served half an artifact: its file is there and complete,
\* whatever step a crash cut short (the publication window E7, sec. 11).
SucceededHasArtifact == \A j \in rows : status[j] = "succeeded" => art[j] = "complete"

\* The final artifact name never holds a partial file, committed or not.
ArtifactNeverPartial == \A j \in Jobs : art[j] # "partial"

\* What can be downloaded is whole, and what is said to have succeeded can be downloaded.
ArtifactsAreWhole == SucceededHasArtifact /\ ArtifactNeverPartial

\* There is no state where the client saw a 202 and no durable job exists: the row is
\* there, or it was terminal before it was removed.
AcknowledgedJobIsDurable ==
  \A j \in Jobs : rpc[j] = "accepted" => j \in rows \/ status[j] \in Terminal

\* A QUEUED row has its input on disk, through every crash, unless someone else removed
\* it: the input is published before the row and removed after it.
QueuedHasInput == \A j \in rows : status[j] = "queued" => j \in input \cup lost

\* An accepted job can be executed: it is in the store, and so is its input while it waits.
AcceptedJobIsExecutable == AcknowledgedJobIsDurable /\ QueuedHasInput

\* No automatic retry: no crash, recovery or requeue makes a job run a second time.
ExecutedAtMostOnce == \A j \in Jobs : runs[j] <= 1

\* What a 202 promises through every crash: the job is there and can be executed, and it is
\* executed once at most.
AcceptedJobIsSafe == AcceptedJobIsExecutable /\ ExecutedAtMostOnce

\* The file-removal of one deletion never takes the files of a job the store still knows.
RemovalIsOfRemovedRows == removing \cap rows = {}

\* Recovery leaves no RUNNING row behind, no file that no row accounts for, and no
\* inputless QUEUED row, when it lets the worker and the requests in.
ServesFromSettledStore ==
  [][mode = "collecting" /\ mode' = "up" =>
       /\ NoGarbage
       /\ \A j \in rows : status[j] # "running"
       /\ \A j \in rows : status[j] = "queued" => j \in input \cup lost]_vars

Phase == [j \in Jobs |-> IF j \in rows THEN status[j]
                         ELSE IF status[j] \in Terminal THEN "gone" ELSE "absent"]

Lifecycle == INSTANCE JobLifecycle WITH Depth <- Cardinality(Jobs), phase <- Phase

\* The store implements the job lifecycle over any number of process lifetimes.
ImplementsLifecycle == Lifecycle!LifecycleSpec

\* A durable QUEUED job is taken up, cancelled or removed in the end, however often the
\* process dies before (E1, E6), unless a storage error has killed the worker thread.
QueuedIsSettled == \A j \in Jobs : Has(j, "queued") ~> ~Has(j, "queued") \/ wpc = "dead"

-----------------------------------------------------------------------------
(* What the comments and the contract say, and the code does not do           *)

\* docs/server-api-contract.md: with sqlite the queued workload survives restarts.  So a
\* queued job is cancelled only when a client asked for it or its input was lost.
QueuedWorkloadSurvives ==
  [][\A j \in Jobs : Has(j, "queued") /\ status'[j] = "cancelled"
                       => j \in discarded' \cup lost]_vars

\* _evict_terminal: a failed cleanup leaves files that are retried on the next sweep.  So
\* the files of a row that retention removed do not stay for ever.
EvictedFilesAreReclaimed ==
  \A j \in Jobs : (j \notin rows /\ status[j] \in Terminal /\ DirExists(j)) ~> ~DirExists(j)
=============================================================================
