------------------------- MODULE ServerRuntimeProps -------------------------
(***************************************************************************)
(* What must hold of the server runtime, what its comments and the API        *)
(* contract say of it, and the job lifecycle it implements.                    *)
(***************************************************************************)
EXTENDS ServerRuntime

TypeOK ==
  /\ state \in {"new", "running", "draining", "stopped"}
  /\ shutdown \in {"clear", "set"} /\ workerExited \in {"clear", "set"}
  /\ store \in {"open", "closed"}
  /\ rows \subseteq Jobs /\ status \in [Jobs -> JobStatus]
  /\ stamp \in [Jobs -> Nat] /\ clock \in Nat
  /\ reserved \in Nat /\ inUse \in Nat /\ leaked \in Nat /\ faults \in Nat
  /\ wpc \in {"unstarted", "top", "admit", "unadmitted", "claim", "execute", "release",
              "crashing", "leaving", "dead"}
  /\ wjob \in Jobs \cup {NoJob}
  /\ jpc \in [Jobs -> {"new", "checked", "reserved", "built", "accepted", "refused"}]
  /\ ypc \in [SyncRequests -> {"new", "checked", "executing", "answered", "refused"}]
  /\ dpc \in [Deleters -> {"new", "decide", "cancel", "erase", "deleted", "refused"}]
  /\ djob \in [Deleters -> Jobs \cup {NoJob}] /\ dseen \in [Deleters -> JobStatus]
  /\ spc \in [Stoppers -> {"new", "signal", "resignal", "drain", "join", "verdict",
                           "second", "claim", "arm", "close", "returned", "raised"}]
  /\ reaper \in {"none", "waiting", "final", "done"}

-----------------------------------------------------------------------------
(* Safety                                                                     *)

Reserving == {j \in Jobs : jpc[j] \in {"reserved", "built"}}
SyncExecuting == {y \in SyncRequests : ypc[y] = "executing"}
WorkerPermits == IF wpc \in {"claim", "execute", "release", "crashing"} THEN 1 ELSE 0

\* Persisted work and in-flight uploads never overbook the queue (try_reserve_job_slot,
\* PR-E E4), whatever a commit, a release, a claim or a deletion interleaves with.
QueueNeverOverbooked == Cardinality(QueuedJobs) + reserved <= JobQueueDepth

\* Every slot counted as reserved belongs to one upload still in its with block:
\* no exit path of reserve_job_slot loses a slot or gives one back twice.
ReservationsAccounted == reserved = Cardinality(Reserving)

\* The queue is bounded for the right reason: its slots are neither overbooked nor lost.
CapacityAccounted == QueueNeverOverbooked /\ ReservationsAccounted

\* Every permit in use is held by one executing request, or by the worker between its
\* admission and its finally clause, or was lost by a claim that failed: that handler logs
\* "retrying after poll interval" (runtime.py:734) and keeps the permit, one for each
\* failed claim and by no other exit.
PermitsAccounted == inUse = Cardinality(SyncExecuting) + WorkerPermits + leaked

\* Admission as a whole: no interleaving and no exceptional exit of an upload, a run or the
\* worker overbooks the queue, loses a slot, or gives a slot or a permit back twice; and the
\* one exit that loses a permit is the claim that fails.
AdmissionIsAccounted == CapacityAccounted /\ PermitsAccounted

\* The terminal invariant of the shutdown machine: STOPPED ==> no owned worker thread
\* alive and no admitted execution in flight (module docstring, PR-A).
StoppedOwnsNothing == state = "stopped" => ~worker_alive /\ ~executing

\* With SQLite, the job the worker executes is a RUNNING row of the store: no deletion,
\* drain or eviction takes it away, so its outcome can always be recorded.
ExecutingJobIsRunning ==
  Durable /\ wpc = "execute" => wjob \in rows /\ status[wjob] = "running"

\* stop() and the reaper close the store only when the worker is past its last access
\* to it and no admitted run is left.
StoreClosedUnderNobody ==
  store = "closed" => wpc \in {"unstarted", "leaving", "dead"} /\ ~executing

\* However stop(), a second stop() and the reaper race, STOPPED owns nothing and the store
\* is closed under nobody.
StopIsSound == StoppedOwnsNothing /\ StoreClosedUnderNobody

\* The drain misses no job: commits are gated by the lock under which it began, so once
\* the stop() that drains has looked for the last time nothing is QUEUED again.  (A second
\* stop() that overtakes the first may close the store and cut its drain short.)
DrainMissesNothing ==
  /\ state \in {"draining", "stopped"}
  /\ \A s \in Stoppers : spc[s] \notin {"signal", "drain", "raised"}
  => QueuedJobs = {}

-----------------------------------------------------------------------------
(* Refinement: the job lifecycle a client is promised                         *)

Phase == [j \in Jobs |-> IF j \in rows THEN status[j]
                         ELSE IF jpc[j] = "accepted" THEN "gone" ELSE "absent"]

Lifecycle == INSTANCE JobLifecycle WITH Depth <- JobQueueDepth, phase <- Phase

\* The SQLite-backed runtime implements the abstract lifecycle: legal transitions only,
\* no removal of a running job, no resurrection, a bounded queue.
ImplementsLifecycle == Lifecycle!LifecycleSpec

-----------------------------------------------------------------------------
(* Liveness                                                                   *)

\* As long as the threads of the runtime run, a job that was accepted does not wait for
\* ever: it is taken up, cancelled or removed.
QueuedJobIsTakenUp ==
  OwnThreadsRun => \A j \in Jobs : (j \in QueuedJobs ~> j \notin QueuedJobs)

\* As long as they run, a runtime that drains ends: in STOPPED, by stop() or after a forced
\* stop by the reaper, or with the one look of the reaper, which may find the worker thread
\* still on its way out (and nobody looks again).
DrainStops ==
  OwnThreadsRun => (state = "draining" ~> (state = "stopped" \/ reaper = "done"))

\* stop() returns within its grace period even if the worker and the requests it waits
\* for hang for ever.
StopReturns == \A s \in Stoppers : spc[s] = "signal" ~> spc[s] = "returned"

-----------------------------------------------------------------------------
(* What the comments and the contract say, and the code does not do           *)

\* docs/server-api-contract.md: RUNNING means admitted execution started.  So a RUNNING
\* row is the job the worker has in hand.
RunningIsExecuted ==
  \A j \in rows : status[j] = "running" => wjob = j /\ wpc \in {"execute", "crashing"}

\* _worker_loop, after a failed claim: "retrying after poll interval".  So a job that is
\* queued when the claim fails is taken up later.
FailedClaimIsRetried ==
  \A j \in Jobs : (wpc = "top" /\ leaked > 0 /\ j \in QueuedJobs) ~> j \notin QueuedJobs

\* Module docstring: forced stops retain ownership until a reaper completes the transition.
ReaperCompletesStop == reaper = "waiting" ~> state = "stopped"
=============================================================================
