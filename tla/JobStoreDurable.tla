--------------------------- MODULE JobStoreDurable ---------------------------
(***************************************************************************)
(* The durable half of the server: the SQLite rows and the job directories of *)
(* one state directory, through crashes and restarts of the process that owns *)
(* them (server/job_store.py, the publication steps of runtime.py and of the  *)
(* upload handler of app.py).  A transaction and a rename are atomic and        *)
(* survive the death of the process; the program counters do not.  Seeded       *)
(* faults are as in ServerRuntime.                                              *)
(***************************************************************************)
EXTENDS JobStates, Integers, FiniteSets

CONSTANTS
  Jobs, NoJob,
  MaxCrashes,      \* process deaths in a behaviour
  MaxFaults,       \* storage errors met by a live process
  MaxLosses        \* inputs that vanish from the disk behind the server's back

ASSUME StoreAssumption ==
  /\ NoJob \notin Jobs /\ IsFiniteSet(Jobs)
  /\ MaxCrashes \in Nat /\ MaxFaults \in Nat /\ MaxLosses \in Nat

VARIABLES
  rows, status,      \* the jobs table (of a removed row, its last status)
  staged,            \* tmp/<id>.upload files
  input,             \* jobs/<id>/input files
  tmpArt, art,       \* jobs/<id>/artifact.tmp.oas and artifact.oas: what is in each
  mode,              \* the process: down, recovering, collecting, up, draining
  rpc,               \* where each submission is, as its client knows it
  wpc, wjob,         \* the worker and the job it executes
  removing,          \* rows deleted by a live handler that has yet to rmtree
  runs,              \* ghost: times each job's runner was started
  lost,              \* ghost: inputs that vanished
  discarded,         \* ghost: jobs a DELETE request was made for
  crashes, faults

table    == <<rows, status>>
files    == <<staged, input, tmpArt, art>>
worker   == <<wpc, wjob, runs>>
ghosts   == <<lost, discarded, crashes, faults>>
vars     == <<table, files, mode, rpc, worker, removing, ghosts>>

Up == mode \in {"up", "draining"}
Has(j, s) == j \in rows /\ status[j] = s
Contents == {"none", "partial", "complete"}
Fault == faults < MaxFaults /\ faults' = faults + 1

\* transition(): one guarded UPDATE in one transaction.
SetStatus(j, s) ==
  j \in rows /\ CanTransition(status[j], s) /\ status' = [status EXCEPT ![j] = s]

\* shutil.rmtree of jobs/<id>.
RemoveJobDir(j) ==
  /\ input' = input \ {j}
  /\ tmpArt' = [tmpArt EXCEPT ![j] = "none"] /\ art' = [art EXCEPT ![j] = "none"]

DirExists(j) == j \in input \/ tmpArt[j] # "none" \/ art[j] # "none"

Init ==
  /\ rows = {} /\ status = [j \in Jobs |-> "queued"]
  /\ staged = {} /\ input = {}
  /\ tmpArt = [j \in Jobs |-> "none"] /\ art = [j \in Jobs |-> "none"]
  /\ mode = "down" /\ rpc = [j \in Jobs |-> "new"]
  /\ wpc = "idle" /\ wjob = NoJob /\ runs = [j \in Jobs |-> 0]
  /\ removing = {} /\ lost = {} /\ discarded = {} /\ crashes = 0 /\ faults = 0

-----------------------------------------------------------------------------
(* Start: take the directory lock, recover the rows, collect the garbage       *)

\* Seeded fault: the lock file of a dead process still excludes its successor.
OpenUnlessLocked ==
  /\ mode = "down" /\ mode' = "recovering" /\ crashes = 0
  /\ UNCHANGED <<table, files, rpc, worker, removing, ghosts>>

Open ==
  /\ mode = "down" /\ mode' = "recovering"
  /\ UNCHANGED <<table, files, rpc, worker, removing, ghosts>>

\* recover(): one transaction over all stale RUNNING and all inputless QUEUED rows.
\* Seeded faults: an automatic retry; the stale RUNNING rows are left alone.
RecoveredRequeues(j) ==
  CASE Has(j, "running")                   -> "queued"
    [] Has(j, "queued") /\ j \notin input  -> "cancelled"
    [] OTHER                               -> status[j]
RecoveredKeepsRunning(j) ==
  IF Has(j, "queued") /\ j \notin input THEN "cancelled" ELSE status[j]
Recovered(j) ==
  CASE Has(j, "running")                   -> "failed"
    [] Has(j, "queued") /\ j \notin input  -> "cancelled"
    [] OTHER                               -> status[j]

Recover ==
  /\ mode = "recovering" /\ mode' = "collecting"
  /\ status' = [j \in Jobs |-> Recovered(j)]
  /\ UNCHANGED <<rows, files, rpc, worker, removing, ghosts>>

\* collect_garbage(): orphan job directories, everything in tmp, partial artifacts,
\* one path at a time.
CollectOne ==
  /\ mode = "collecting"
  /\ \E j \in Jobs :
       \/ /\ DirExists(j) /\ j \notin rows /\ RemoveJobDir(j) /\ UNCHANGED staged
       \/ /\ j \in staged /\ staged' = staged \ {j} /\ UNCHANGED <<input, tmpArt, art>>
       \/ /\ tmpArt[j] # "none" /\ tmpArt' = [tmpArt EXCEPT ![j] = "none"]
          /\ UNCHANGED <<staged, input, art>>
  /\ UNCHANGED <<table, mode, rpc, worker, removing, ghosts>>

NoGarbage ==
  /\ staged = {}
  /\ \A j \in Jobs : tmpArt[j] = "none" /\ (DirExists(j) => j \in rows)

\* The runtime is RUNNING: requests are served and the worker polls.
StartServing ==
  /\ mode = "collecting" /\ NoGarbage
  /\ mode' = "up"
  /\ UNCHANGED <<table, files, rpc, worker, removing, ghosts>>

-----------------------------------------------------------------------------
(* POST /v1/jobs/optimize, durable mode                                        *)

Request(j, from, to) == Up /\ rpc[j] = from /\ rpc' = [rpc EXCEPT ![j] = to]

BeginUpload(j) ==
  /\ mode = "up" /\ Request(j, "new", "uploading")
  /\ staged' = staged \cup {j}
  /\ UNCHANGED <<table, input, tmpArt, art, mode, worker, removing, ghosts>>

\* Too large, or the client is gone: the staging file is unlinked.
UploadBreaks(j) ==
  /\ Request(j, "uploading", "refused")
  /\ staged' = staged \ {j}
  /\ UNCHANGED <<table, input, tmpArt, art, mode, worker, removing, ghosts>>

\* finalize_durable_input: fsync, then rename onto jobs/<id>/input.
PublishInput(j) ==
  /\ Request(j, "uploading", "published")
  /\ staged' = staged \ {j} /\ input' = input \cup {j}
  /\ UNCHANGED <<table, tmpArt, art, mode, worker, removing, ghosts>>

\* create_queued, under the lifecycle lock while RUNNING.
\* Seeded fault: the row before the file.
InsertBeforePublish(j) ==
  /\ mode = "up" /\ Request(j, "uploading", "inserted")
  /\ rows' = rows \cup {j} /\ status' = [status EXCEPT ![j] = "queued"]
  /\ UNCHANGED <<files, mode, worker, removing, ghosts>>
InsertRow(j) ==
  /\ mode = "up" /\ Request(j, "published", "inserted")
  /\ rows' = rows \cup {j} /\ status' = [status EXCEPT ![j] = "queued"]
  /\ UNCHANGED <<files, mode, worker, removing, ghosts>>

\* The INSERT raises: staging file and job directory are removed.
InsertFails(j) ==
  /\ Fault /\ Request(j, "published", "refused")
  /\ RemoveJobDir(j) /\ staged' = staged \ {j}
  /\ UNCHANGED <<table, mode, worker, removing, lost, discarded, crashes>>

\* The commit-time 503: this exception has a handler of its own, which removes nothing.
CommitRefused(j) ==
  /\ mode = "draining" /\ Request(j, "published", "refused")
  /\ UNCHANGED <<table, files, mode, worker, removing, ghosts>>

Respond202(j) ==
  /\ Request(j, "inserted", "accepted")
  /\ UNCHANGED <<table, files, mode, worker, removing, ghosts>>

-----------------------------------------------------------------------------
(* The worker                                                                  *)

\* claim_next takes a QUEUED row; if it is not the one peeked nobody executes it
\* (ServerRuntime shows when).
Claim(j) ==
  /\ Up /\ wpc = "idle" /\ Has(j, "queued") /\ SetStatus(j, "running")
  /\ \/ wpc' = "running" /\ wjob' = j /\ runs' = [runs EXCEPT ![j] = @ + 1]
     \/ UNCHANGED <<wpc, wjob, runs>>
  /\ UNCHANGED <<rows, files, mode, rpc, removing, ghosts>>

\* The runner writes the temp artifact, and may be half-way for long.
RunnerWrites ==
  /\ Up /\ wpc = "running" /\ tmpArt[wjob] = "none"
  /\ tmpArt' = [tmpArt EXCEPT ![wjob] = "partial"]
  /\ UNCHANGED <<table, staged, input, art, mode, rpc, worker, removing, ghosts>>

RunnerReturns ==
  /\ Up /\ wpc = "running" /\ wjob \in input /\ tmpArt[wjob] = "partial"
  /\ tmpArt' = [tmpArt EXCEPT ![wjob] = "complete"]
  /\ wpc' = "produced"
  /\ UNCHANGED <<table, staged, input, art, mode, rpc, wjob, runs, removing, ghosts>>

\* The runner raises: FAILED is recorded first, then the temp artifact discarded.
RunnerRaises ==
  /\ Up /\ wpc = "running" /\ SetStatus(wjob, "failed") /\ wpc' = "discarding"
  /\ UNCHANGED <<rows, files, mode, rpc, wjob, runs, removing, ghosts>>

DiscardTemp ==
  /\ Up /\ wpc = "discarding"
  /\ tmpArt' = [tmpArt EXCEPT ![wjob] = "none"]
  /\ wpc' = "idle" /\ wjob' = NoJob
  /\ UNCHANGED <<table, staged, input, art, mode, rpc, runs, removing, ghosts>>

\* os.replace of the temp artifact onto artifact.oas, then the digest ...
PublishArtifact ==
  /\ Up /\ wpc = "produced" /\ wpc' = "published"
  /\ art' = [art EXCEPT ![wjob] = tmpArt[wjob]]
  /\ tmpArt' = [tmpArt EXCEPT ![wjob] = "none"]
  /\ UNCHANGED <<table, staged, input, mode, rpc, wjob, runs, removing, ghosts>>

\* ... then the SUCCEEDED commit.
\* Seeded fault: the commit before the rename.
CommitBeforePublish ==
  /\ Up /\ wpc = "produced" /\ SetStatus(wjob, "succeeded")
  /\ wpc' = "published"
  /\ UNCHANGED <<rows, files, mode, rpc, wjob, runs, removing, ghosts>>
CommitSucceeded ==
  /\ Up /\ wpc = "published" /\ SetStatus(wjob, "succeeded")
  /\ wpc' = "idle" /\ wjob' = NoJob
  /\ UNCHANGED <<rows, files, mode, rpc, runs, removing, ghosts>>

\* Replace, digest or a commit (that of FAILED too) raises: the worker thread dies with
\* the row RUNNING.
WorkerDies ==
  /\ Up /\ wpc \in {"running", "produced", "published"} /\ Fault
  /\ wpc' = "dead" /\ wjob' = NoJob
  /\ UNCHANGED <<table, files, mode, rpc, runs, removing, lost, discarded, crashes>>

-----------------------------------------------------------------------------
(* Deletion and retention.  Transitions, the row and the files are three steps. *)

DeleteCancel(j) ==
  /\ Up /\ Has(j, "queued") /\ SetStatus(j, "cancelled")
  /\ discarded' = discarded \cup {j}
  /\ UNCHANGED <<rows, files, mode, rpc, worker, removing, lost, crashes, faults>>

DeleteRow(j) ==
  /\ Up /\ j \in rows /\ status[j] \in Terminal
  /\ rows' = rows \ {j} /\ removing' = removing \cup {j} /\ discarded' = discarded \cup {j}
  /\ UNCHANGED <<status, files, mode, rpc, worker, lost, crashes, faults>>

DeleteFiles(j) ==
  /\ Up /\ j \in removing /\ RemoveJobDir(j)
  /\ removing' = removing \ {j}
  /\ UNCHANGED <<table, staged, mode, rpc, worker, ghosts>>

\* evict_terminal: both callers of _evict_terminal drop the directories it returns.
Evict(j) ==
  /\ Up /\ j \in rows /\ status[j] \in Terminal
  /\ rows' = rows \ {j}
  /\ UNCHANGED <<status, files, mode, rpc, worker, removing, ghosts>>

-----------------------------------------------------------------------------
(* The end of a process                                                        *)

BeginStop ==
  /\ mode = "up" /\ mode' = "draining"
  /\ UNCHANGED <<table, files, rpc, worker, removing, ghosts>>

\* _drain_queued_jobs: cancel, then remove the directory; the row stays.
DrainQueued(j) ==
  /\ mode = "draining" /\ Has(j, "queued") /\ SetStatus(j, "cancelled")
  /\ RemoveJobDir(j)
  /\ UNCHANGED <<rows, staged, mode, rpc, worker, removing, ghosts>>

\* What only the process knew is gone; a client without its answer knows nothing.
Forget ==
  /\ mode' = "down" /\ wpc' = "idle" /\ wjob' = NoJob /\ removing' = {}
  /\ rpc' = [j \in Jobs |-> IF rpc[j] \in {"uploading", "published", "inserted"}
                              THEN "broken" ELSE rpc[j]]
  /\ UNCHANGED <<table, files, runs>>

\* The orderly end: nothing queued, the worker at rest, the requests answered.
Exit ==
  /\ mode = "draining" /\ wpc \in {"idle", "dead"} /\ removing = {}
  /\ \A j \in Jobs : ~Has(j, "queued") /\ rpc[j] \notin {"uploading", "published", "inserted"}
  /\ Forget /\ UNCHANGED ghosts

\* The process dies between any two steps, those of its recovery included.
Crash ==
  /\ mode # "down" /\ crashes < MaxCrashes
  /\ Forget /\ crashes' = crashes + 1 /\ UNCHANGED <<lost, discarded, faults>>

\* Somebody else removes an input file.
LoseInput(j) ==
  /\ Cardinality(lost) < MaxLosses /\ j \in input
  /\ input' = input \ {j} /\ lost' = lost \cup {j}
  /\ UNCHANGED <<table, staged, tmpArt, art, mode, rpc, worker, removing, discarded, crashes, faults>>

-----------------------------------------------------------------------------

Startup == Open \/ Recover \/ CollectOne \/ StartServing
Submit(j) == BeginUpload(j) \/ UploadBreaks(j) \/ PublishInput(j) \/ InsertRow(j)
               \/ InsertFails(j) \/ CommitRefused(j) \/ Respond202(j)
Execute == (\E j \in Jobs : Claim(j)) \/ RunnerWrites \/ RunnerReturns \/ RunnerRaises
             \/ DiscardTemp \/ PublishArtifact \/ CommitSucceeded
Remove(j) == DeleteCancel(j) \/ DeleteRow(j) \/ DeleteFiles(j) \/ Evict(j)
Shutdown == BeginStop \/ (\E j \in Jobs : DrainQueued(j)) \/ Exit

Next == Startup \/ Execute \/ WorkerDies \/ Shutdown \/ Crash
          \/ \E j \in Jobs : Submit(j) \/ Remove(j) \/ LoseInput(j)

Spec == Init /\ [][Next]_vars

\* A process that is down is started again, and its worker, its shutdown and a deletion
\* that was begun go on.
FairSpec == Spec /\ WF_vars(Startup) /\ WF_vars(Execute) /\ WF_vars(mode = "draining" /\ Shutdown)
              /\ \A j \in Jobs : WF_vars(DeleteFiles(j))
=============================================================================
