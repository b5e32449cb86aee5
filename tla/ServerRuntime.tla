---------------------------- MODULE ServerRuntime ----------------------------
(***************************************************************************)
(* The ServerRuntime of one app instance (server/runtime.py) with the        *)
(* threads that use it: the single job worker, the request handlers that     *)
(* submit a job, run one synchronously or delete one, the callers of stop(), *)
(* and the reaper a forced stop leaves behind.  An action is one critical     *)
(* section, or a stretch of code no other thread can see into.  The job       *)
(* store is the table of rows both backends keep; Backend selects the         *)
(* SQLite one, which hands out copies of its rows and orders them by creation *)
(* time, where the in-memory one hands out the live record and orders by      *)
(* insertion.  A definition that a comment calls a seeded fault is used by no  *)
(* specification: put in the place of the definition that follows it, it is    *)
(* what the properties are tested with.                                         *)
(***************************************************************************)
EXTENDS JobStates, Integers, FiniteSets

CONSTANTS
  Jobs,                  \* one id per submission of a job (new_job_id is unique)
  SyncRequests,          \* POST /v1/optimize
  Deleters,              \* DELETE /v1/jobs/{job_id}
  Stoppers,              \* callers of stop()
  NoJob,
  MaxConcurrentOptimize, \* config.max_concurrent_optimize
  JobQueueDepth,         \* config.job_queue_depth
  Backend,               \* config.job_backend
  MaxFaults,             \* how many storage errors a run may meet
  GraceMayExpire         \* may a stop run out of shutdown_grace_seconds?

ASSUME RuntimeAssumption ==
  /\ NoJob \notin Jobs
  /\ IsFiniteSet(Jobs) /\ IsFiniteSet(SyncRequests)
  /\ MaxConcurrentOptimize \in Nat \ {0}
  /\ JobQueueDepth \in Nat \ {0}
  /\ MaxFaults \in Nat
  /\ Backend \in {"sqlite", "in-memory"}

ASSUME GraceAssumption == GraceMayExpire \in BOOLEAN

VARIABLES
  state,         \* _state
  shutdown,      \* the _shutdown event
  workerExited,  \* the _worker_exited event
  store,         \* open, or closed by stop() or the reaper
  rows,          \* the ids the store has a row for
  status,        \* status of each job's row; of a removed row, its last one
  stamp,         \* what the store orders a row by (0: not yet stamped)
  clock,         \* the last stamp given out
  reserved,      \* _slots_reserved
  inUse,         \* _admission_in_use, and the permits the semaphore is short of
  leaked,        \* ghost: permits nobody will release any more
  wpc, wjob,     \* the worker: where it is, the job it peeked or executes
  jpc,           \* where each job submission is
  ypc,           \* where each synchronous request is
  dpc, djob, dseen,  \* each deletion: where it is, its target, the status it read
  spc,           \* where each stop() call is
  reaper,        \* where the reaper is
  faults         \* storage errors met so far

Durable == Backend = "sqlite"

storeVars == <<rows, status, stamp, clock>>
lifeVars  == <<state, shutdown, workerExited, store, reaper>>
permVars  == <<inUse, leaked>>
workVars  == <<wpc, wjob>>
delVars   == <<dpc, djob, dseen>>
vars == <<storeVars, lifeVars, permVars, workVars, delVars,
          reserved, jpc, ypc, spc, faults>>

-----------------------------------------------------------------------------
(* Reading the store and the runtime                                         *)

QueuedJobs == {j \in rows : status[j] = "queued"}

\* peek_next_queued, and the row claim_next takes: the oldest QUEUED one.
IsNextQueued(j) ==
  j \in QueuedJobs /\ \A k \in QueuedJobs : stamp[j] <= stamp[k]

worker_alive == wpc \notin {"unstarted", "dead"}
executing == inUse > 0
OwnsNoExecution == ~worker_alive /\ ~executing
AcceptingJobs == state = "running" /\ worker_alive

\* A closed SQLite store raises on every access; closing the in-memory one does nothing.
StoreUsable == store = "open" \/ ~Durable

SetStatus(j, s) == status' = [status EXCEPT ![j] = s]

\* A try_acquire_admission that succeeds, and release_admission.
TakePermit == inUse < MaxConcurrentOptimize /\ inUse' = inUse + 1 /\ UNCHANGED leaked
\* Seeded fault: an exit that does not release.
LosesPermit == UNCHANGED permVars
GivePermit == inUse > 0 /\ inUse' = inUse - 1 /\ UNCHANGED leaked

\* Room for one more upload: the QUEUED rows count against the depth as the open
\* reservations do.
\* Seeded fault: the open reservations are not counted.
CountsRowsOnly == Cardinality(QueuedJobs) < JobQueueDepth
HasQueueRoom == Cardinality(QueuedJobs) + reserved < JobQueueDepth

GiveBackSlot == reserved > 0 /\ reserved' = reserved - 1

\* The gate of _enqueue_reserved, under the lock under which a drain begins.
\* Seeded fault: the gate trusts the test made before the upload.
CommitsAlways == TRUE
CommitAllowed == state = "running"

Init ==
  /\ state = "new" /\ shutdown = "clear" /\ workerExited = "clear"
  /\ store = "open" /\ reaper = "none"
  /\ rows = {} /\ status = [j \in Jobs |-> "queued"]
  /\ stamp = [j \in Jobs |-> 0] /\ clock = 0
  /\ reserved = 0 /\ inUse = 0 /\ leaked = 0 /\ faults = 0
  /\ wpc = "unstarted" /\ wjob = NoJob
  /\ jpc = [j \in Jobs |-> "new"]
  /\ ypc = [y \in SyncRequests |-> "new"]
  /\ dpc = [d \in Deleters |-> "new"]
  /\ djob = [d \in Deleters |-> NoJob]
  /\ dseen = [d \in Deleters |-> "queued"]
  /\ spc = [s \in Stoppers |-> "new"]

\* start(): legal from NEW only; recovery finds an empty store here (the
\* restart of a store that has rows is JobStoreDurable's subject).
Start ==
  /\ state = "new"
  /\ state' = "running" /\ wpc' = "top"
  /\ UNCHANGED <<storeVars, shutdown, workerExited, store, reaper, permVars,
                 wjob, delVars, reserved, jpc, ypc, spc, faults>>

-----------------------------------------------------------------------------
(* POST /v1/jobs/optimize: check, reserve, upload, build the record, commit   *)

JobStep(j, from, to) == jpc[j] = from /\ jpc' = [jpc EXCEPT ![j] = to]

\* The unlocked accepting_jobs test that opens the handler.
CheckAccepting(j) ==
  /\ JobStep(j, "new", IF AcceptingJobs THEN "checked" ELSE "refused")
  /\ UNCHANGED <<storeVars, lifeVars, permVars, workVars, delVars, reserved, ypc, spc, faults>>

\* try_reserve_job_slot, under the lifecycle and the job lock.
ReserveSlot(j) ==
  /\ IF state = "running" /\ HasQueueRoom
       THEN JobStep(j, "checked", "reserved") /\ reserved' = reserved + 1
       ELSE JobStep(j, "checked", "refused") /\ UNCHANGED reserved
  /\ UNCHANGED <<storeVars, lifeVars, permVars, workVars, delVars, ypc, spc, faults>>

\* The body is on disk and JobRecord(...) takes its creation time.
BuildRecord(j) ==
  /\ JobStep(j, "reserved", "built")
  /\ IF Durable THEN clock' = clock + 1 /\ stamp' = [stamp EXCEPT ![j] = clock + 1]
                ELSE UNCHANGED <<clock, stamp>>
  /\ UNCHANGED <<rows, status, lifeVars, permVars, workVars, delVars, reserved, ypc, spc, faults>>

\* reservation.commit: the store INSERT consumes the reservation ...
Commit(j) ==
  /\ CommitAllowed /\ GiveBackSlot
  /\ JobStep(j, "built", "accepted")
  /\ rows' = rows \cup {j} /\ SetStatus(j, "queued")
  /\ IF Durable THEN UNCHANGED <<clock, stamp>>
                ELSE clock' = clock + 1 /\ stamp' = [stamp EXCEPT ![j] = clock + 1]
  /\ UNCHANGED <<lifeVars, permVars, workVars, delVars, ypc, spc, faults>>

\* ... and every other exit of the with block gives the slot back: a body too
\* large or broken off, the commit-time 503, a failed INSERT.
ReleaseReservation(j) ==
  /\ \/ JobStep(j, "reserved", "refused") /\ UNCHANGED faults
     \/ JobStep(j, "built", "refused") /\ ~CommitAllowed /\ UNCHANGED faults
     \/ JobStep(j, "built", "refused") /\ Durable /\ faults < MaxFaults /\ faults' = faults + 1
  /\ GiveBackSlot
  /\ UNCHANGED <<storeVars, lifeVars, permVars, workVars, delVars, ypc, spc>>

-----------------------------------------------------------------------------
(* POST /v1/optimize: run_admitted                                           *)

SyncStep(y, from, to) == ypc[y] = from /\ ypc' = [ypc EXCEPT ![y] = to]

SyncCheck(y) ==
  /\ SyncStep(y, "new", IF AcceptingJobs THEN "checked" ELSE "refused")
  /\ UNCHANGED <<storeVars, lifeVars, permVars, workVars, delVars, reserved, jpc, spc, faults>>

SyncAdmit(y) ==
  /\ state = "running" /\ TakePermit /\ SyncStep(y, "checked", "executing")
  /\ UNCHANGED <<storeVars, lifeVars, workVars, delVars, reserved, jpc, spc, faults>>

\* RuntimeNotAcceptingWorkError (503) or AdmissionDeniedError (429).
SyncDeny(y) ==
  /\ state # "running" \/ inUse = MaxConcurrentOptimize
  /\ SyncStep(y, "checked", "refused")
  /\ UNCHANGED <<storeVars, lifeVars, permVars, workVars, delVars, reserved, jpc, spc, faults>>

\* The runner returns or raises; the finally clause releases.
SyncFinish(y) ==
  /\ GivePermit /\ SyncStep(y, "executing", "answered")
  /\ UNCHANGED <<storeVars, lifeVars, workVars, delVars, reserved, jpc, spc, faults>>

-----------------------------------------------------------------------------
(* The single job worker: _worker_loop and _execute_job.  A storage error is    *)
(* one of sqlite3's, which only the SQLite store raises, or an OSError.          *)

\* The loop condition is false: set _worker_exited.  The thread is still alive.
WorkerLeave ==
  /\ wpc = "top" /\ (shutdown = "set" \/ ~StoreUsable)
  /\ wpc' = "leaving" /\ workerExited' = "set"
  /\ UNCHANGED <<storeVars, state, shutdown, store, reaper, permVars, wjob,
                 delVars, reserved, jpc, ypc, spc, faults>>

WorkerThreadEnds ==
  /\ wpc = "leaving" /\ wpc' = "dead"
  /\ UNCHANGED <<storeVars, lifeVars, permVars, wjob, delVars, reserved, jpc, ypc, spc, faults>>

\* peek_next_queued finds a job (finding none, the worker waits and polls).
WorkerPeek ==
  /\ wpc = "top" /\ shutdown = "clear" /\ StoreUsable
  /\ \E j \in QueuedJobs : IsNextQueued(j) /\ wjob' = j
  /\ wpc' = "admit"
  /\ UNCHANGED <<storeVars, lifeVars, permVars, delVars, reserved, jpc, ypc, spc, faults>>

\* wait_for_admission returns: with a permit, or refused because not RUNNING.
WorkerAdmit ==
  /\ wpc = "admit"
  /\ \/ state = "running" /\ TakePermit /\ wpc' = "claim"
     \/ state # "running" /\ wpc' = "unadmitted" /\ UNCHANGED permVars
  /\ UNCHANGED <<storeVars, lifeVars, wjob, delVars, reserved, jpc, ypc, spc, faults>>

\* The peeked job was never admitted: cancel it if it is still QUEUED.
WorkerCancelUnadmitted ==
  /\ wpc = "unadmitted" /\ wpc' = "top" /\ wjob' = NoJob
  /\ IF wjob \in QueuedJobs THEN SetStatus(wjob, "cancelled") ELSE UNCHANGED status
  /\ UNCHANGED <<rows, stamp, clock, lifeVars, permVars, delVars, reserved, jpc, ypc, spc, faults>>

\* claim_next makes the oldest QUEUED row RUNNING, which is executed only if it
\* is the peeked one; otherwise the permit is released and nothing else done.
WorkerClaim ==
  /\ wpc = "claim"
  /\ \/ \E c \in QueuedJobs :
          /\ IsNextQueued(c) /\ SetStatus(c, "running")
          /\ IF c = wjob THEN wpc' = "execute" /\ UNCHANGED <<permVars, wjob>>
                         ELSE GivePermit /\ wpc' = "top" /\ wjob' = NoJob
     \/ /\ QueuedJobs = {} /\ UNCHANGED status
        /\ GivePermit /\ wpc' = "top" /\ wjob' = NoJob
  /\ UNCHANGED <<rows, stamp, clock, lifeVars, delVars, reserved, jpc, ypc, spc, faults>>

\* claim_next raises: the handler logs and continues, permit in hand.
WorkerClaimFails ==
  /\ wpc = "claim" /\ Durable /\ faults < MaxFaults /\ faults' = faults + 1
  /\ leaked' = leaked + 1 /\ UNCHANGED inUse
  /\ wpc' = "top" /\ wjob' = NoJob
  /\ UNCHANGED <<storeVars, lifeVars, delVars, reserved, jpc, ypc, spc>>

\* peek_next_queued, or the transition of a job never admitted, raises: nothing on
\* the way out of the thread catches it and _worker_exited is never set.
WorkerStoreFails ==
  /\ (wpc = "top" /\ shutdown = "clear") \/ wpc = "unadmitted"
  /\ Durable /\ faults < MaxFaults /\ faults' = faults + 1
  /\ wpc' = "dead" /\ wjob' = NoJob
  /\ UNCHANGED <<storeVars, lifeVars, permVars, delVars, reserved, jpc, ypc, spc>>

\* The job is settled: _fail_job, which tolerates a missing row, or the SUCCEEDED
\* transition, which raises KeyError for one.  Either way the permit is still held.
WorkerSettle ==
  /\ wpc = "execute"
  /\ IF wjob \in rows /\ status[wjob] = "running"
       THEN /\ \E s \in {"succeeded", "failed"} : SetStatus(wjob, s)
            /\ wpc' = "release"
       ELSE UNCHANGED status /\ wpc' \in {"release", "crashing"}
  /\ UNCHANGED <<rows, stamp, clock, lifeVars, permVars, wjob, delVars, reserved, jpc, ypc,
                 spc, faults>>

\* The publication (os.replace, the digest, the terminal transition) raises what
\* no handler on the way out catches.
WorkerSettleFails ==
  /\ wpc = "execute" /\ faults < MaxFaults /\ faults' = faults + 1
  /\ wpc' = "crashing"
  /\ UNCHANGED <<storeVars, lifeVars, permVars, wjob, delVars, reserved, jpc, ypc, spc>>

\* The finally clause of _execute_job; after an exception the thread is gone and
\* _worker_exited was never set.
WorkerRelease ==
  /\ wpc \in {"release", "crashing"} /\ GivePermit
  /\ wpc' = IF wpc = "release" THEN "top" ELSE "dead"
  /\ wjob' = NoJob
  /\ UNCHANGED <<storeVars, lifeVars, delVars, reserved, jpc, ypc, spc, faults>>

-----------------------------------------------------------------------------
(* DELETE /v1/jobs/{job_id}, and the retention sweep                          *)

DelStep(d, from, to) == dpc[d] = from /\ dpc' = [dpc EXCEPT ![d] = to]

\* _get_or_raise and the JobStillRunningError test.
DeleteLookup(d) ==
  /\ StoreUsable
  /\ \E j \in rows :
       /\ DelStep(d, "new", IF status[j] = "running" THEN "refused" ELSE "decide")
       /\ djob' = [djob EXCEPT ![d] = j] /\ dseen' = [dseen EXCEPT ![d] = status[j]]
  /\ UNCHANGED <<storeVars, lifeVars, permVars, workVars, reserved, jpc, ypc, spc, faults>>

\* The QUEUED test reads the copy the SQLite store returned, or the live record.
DeleteDecide(d) ==
  /\ LET current == IF Durable THEN dseen[d] ELSE status[djob[d]]
     IN  DelStep(d, "decide", IF current = "queued" THEN "cancel" ELSE "erase")
  /\ UNCHANGED <<storeVars, lifeVars, permVars, workVars, djob, dseen, reserved, jpc, ypc, spc, faults>>

\* transition(CANCELLED); a KeyError or an illegal transition is an error response.
DeleteCancel(d) ==
  /\ IF StoreUsable /\ djob[d] \in rows /\ CanTransition(status[djob[d]], "cancelled")
       THEN DelStep(d, "cancel", "erase") /\ SetStatus(djob[d], "cancelled")
       ELSE DelStep(d, "cancel", "refused") /\ UNCHANGED status
  /\ UNCHANGED <<rows, stamp, clock, lifeVars, permVars, workVars, djob, dseen, reserved,
                 jpc, ypc, spc, faults>>

\* store.delete.
DeleteErase(d) ==
  /\ IF StoreUsable /\ djob[d] \in rows
       THEN DelStep(d, "erase", "deleted") /\ rows' = rows \ {djob[d]}
       ELSE DelStep(d, "erase", "refused") /\ UNCHANGED rows
  /\ UNCHANGED <<status, stamp, clock, lifeVars, permVars, workVars, djob, dseen, reserved,
                 jpc, ypc, spc, faults>>

\* _evict_terminal, on any read, once the row is old enough or the history full.
Evict(j) ==
  /\ StoreUsable /\ j \in rows /\ status[j] \in Terminal
  /\ rows' = rows \ {j}
  /\ UNCHANGED <<status, stamp, clock, lifeVars, permVars, workVars, delVars, reserved, jpc,
                 ypc, spc, faults>>

-----------------------------------------------------------------------------
(* stop() and the reaper                                                      *)

StopStep(s, from, to) == spc[s] = from /\ spc' = [spc EXCEPT ![s] = to]

\* RUNNING (or NEW) -> DRAINING under the lifecycle lock; only this caller drains.
StopBegin(s) ==
  /\ \/ state = "stopped" /\ StopStep(s, "new", "returned") /\ UNCHANGED state
     \/ state = "draining" /\ StopStep(s, "new", "resignal") /\ UNCHANGED state
     \/ state \in {"new", "running"} /\ StopStep(s, "new", "signal") /\ state' = "draining"
  /\ UNCHANGED <<storeVars, shutdown, workerExited, store, reaper, permVars, workVars,
                 delVars, reserved, jpc, ypc, faults>>

StopSignal(s) ==
  /\ StopStep(s, "signal", "drain") \/ StopStep(s, "resignal", "join")
  /\ shutdown' = "set"
  /\ UNCHANGED <<storeVars, state, workerExited, store, reaper, permVars, workVars,
                 delVars, reserved, jpc, ypc, faults>>

\* One turn of _drain_queued_jobs, the last turn, and the turn that meets a store
\* another stop() closed: peek_next_queued raises out of stop().
StopDrain(s) ==
  /\ \/ /\ StoreUsable /\ spc[s] = "drain" /\ UNCHANGED spc
        /\ \E j \in QueuedJobs : IsNextQueued(j) /\ SetStatus(j, "cancelled")
     \/ StoreUsable /\ QueuedJobs = {} /\ StopStep(s, "drain", "join") /\ UNCHANGED status
     \/ ~StoreUsable /\ StopStep(s, "drain", "raised") /\ UNCHANGED status
  /\ UNCHANGED <<rows, stamp, clock, lifeVars, permVars, workVars, delVars, reserved, jpc,
                 ypc, faults>>

\* A storage error leaves the drain, and stop(), half done.
StopDrainFails(s) ==
  /\ Durable /\ faults < MaxFaults /\ faults' = faults + 1
  /\ StopStep(s, "drain", "raised")
  /\ UNCHANGED <<storeVars, lifeVars, permVars, workVars, delVars, reserved, jpc, ypc>>

\* join() and the executing wait end, because nothing is owned or grace ran out.
\* Seeded fault: the wait has no deadline.
JoinsForEver == OwnsNoExecution
JoinEnds == OwnsNoExecution \/ GraceMayExpire

StopJoin(s) ==
  /\ JoinEnds
  /\ StopStep(s, "join", "verdict")
  /\ UNCHANGED <<storeVars, lifeVars, permVars, workVars, delVars, reserved, jpc, ypc, faults>>

\* The verdict reads worker_alive and then executing, with no lock held ...
StopReadWorker(s) ==
  /\ StopStep(s, "verdict", IF worker_alive THEN "arm" ELSE "second")
  /\ UNCHANGED <<storeVars, lifeVars, permVars, workVars, delVars, reserved, jpc, ypc, faults>>

\* Seeded fault: the synchronous runs are forgotten.
StopForgetsRuns(s) ==
  /\ StopStep(s, "second", "claim")
  /\ UNCHANGED <<storeVars, lifeVars, permVars, workVars, delVars, reserved, jpc, ypc, faults>>
StopReadExecuting(s) ==
  /\ StopStep(s, "second", IF executing THEN "arm" ELSE "claim")
  /\ UNCHANGED <<storeVars, lifeVars, permVars, workVars, delVars, reserved, jpc, ypc, faults>>

\* ... and then takes the lock: STOPPED is claimed if neither was seen, on what was read
\* before; otherwise ownership is retained in DRAINING and the reaper armed, once.
StopClaim(s) ==
  /\ StopStep(s, "claim", "close") /\ state' = "stopped"
  /\ UNCHANGED <<storeVars, shutdown, workerExited, store, reaper, permVars, workVars, delVars,
                 reserved, jpc, ypc, faults>>

StopArm(s) ==
  /\ StopStep(s, "arm", "returned")
  /\ reaper' = IF reaper = "none" THEN "waiting" ELSE reaper
  /\ UNCHANGED <<storeVars, state, shutdown, workerExited, store, permVars, workVars, delVars,
                 reserved, jpc, ypc, faults>>

StopClose(s) ==
  /\ StopStep(s, "close", "returned") /\ store' = "closed"
  /\ UNCHANGED <<storeVars, state, shutdown, workerExited, reaper, permVars, workVars,
                 delVars, reserved, jpc, ypc, faults>>

\* _reap_until_stopped: _worker_exited was set and nothing executes ...
ReaperWakes ==
  /\ reaper = "waiting" /\ workerExited = "set" /\ ~executing
  /\ reaper' = "final"
  /\ UNCHANGED <<storeVars, state, shutdown, workerExited, store, permVars, workVars,
                 delVars, reserved, jpc, ypc, spc, faults>>

\* ... one look under the lifecycle lock, and the store is closed whatever it saw.
ReaperFinal ==
  /\ reaper = "final" /\ reaper' = "done"
  /\ state' = IF state = "draining" /\ OwnsNoExecution THEN "stopped" ELSE state
  /\ store' = "closed"
  /\ UNCHANGED <<storeVars, shutdown, workerExited, permVars, workVars, delVars, reserved,
                 jpc, ypc, spc, faults>>

-----------------------------------------------------------------------------

Submission == \E j \in Jobs :
  CheckAccepting(j) \/ ReserveSlot(j) \/ BuildRecord(j) \/ Commit(j) \/ ReleaseReservation(j)
SyncRequest == \E y \in SyncRequests :
  SyncCheck(y) \/ SyncAdmit(y) \/ SyncDeny(y) \/ SyncFinish(y)
Worker ==
  \/ WorkerLeave \/ WorkerThreadEnds \/ WorkerPeek \/ WorkerAdmit \/ WorkerCancelUnadmitted
  \/ WorkerClaim \/ WorkerSettle \/ WorkerRelease
StorageFault == WorkerClaimFails \/ WorkerStoreFails \/ WorkerSettleFails
                  \/ \E s \in Stoppers : StopDrainFails(s)
Deletion == \E d \in Deleters :
  DeleteLookup(d) \/ DeleteDecide(d) \/ DeleteCancel(d) \/ DeleteErase(d)
Retention == \E j \in Jobs : Evict(j)
Stop(s) == StopBegin(s) \/ StopSignal(s) \/ StopDrain(s) \/ StopJoin(s)
             \/ StopReadWorker(s) \/ StopReadExecuting(s) \/ StopClaim(s) \/ StopArm(s)
             \/ StopClose(s)
Reaper == ReaperWakes \/ ReaperFinal

Next == Start \/ Submission \/ SyncRequest \/ Worker \/ StorageFault \/ Deletion
          \/ Retention \/ (\E s \in Stoppers : Stop(s)) \/ Reaper

Spec == Init /\ [][Next]_vars

\* stop(), once it was called, goes on.  Nothing is assumed of clients: an upload may hang,
\* a deletion stall, and stop() need never be called.
StopperSpec == Spec /\ \A s \in Stoppers : WF_vars(spc[s] # "new" /\ Stop(s))

\* The threads the runtime owns keep running, and an admitted run ends.
OwnThreadsRun ==
  WF_vars(Worker) /\ WF_vars(Reaper) /\ \A y \in SyncRequests : WF_vars(SyncFinish(y))

FairSpec == StopperSpec /\ OwnThreadsRun
=============================================================================
