------------------------ MODULE ServerRuntime_proofs ------------------------
(***************************************************************************)
(* Theorems about ServerRuntime, for any sets of jobs, requests, deletions     *)
(* and stop() callers, any capacities and either backend.                      *)
(***************************************************************************)
EXTENDS ServerRuntimeProps, FiniteSetTheorems, TLAPS

USE DEF JobStatus, Terminal, HasQueueRoom, GiveBackSlot, CommitAllowed, JoinEnds,
        storeVars, lifeVars, permVars, workVars, delVars

\* A submission touches the rows and the reservations, and nothing of the other threads.
LEMMA SubmissionFrame ==
  Submission => UNCHANGED <<lifeVars, permVars, workVars, delVars, ypc, spc>>
  BY DEF Submission, CheckAccepting, ReserveSlot, BuildRecord, Commit, ReleaseReservation

-----------------------------------------------------------------------------
(* Type correctness                                                            *)

\* Initially every variable is in its set.
LEMMA InitType == Init => TypeOK
  BY DEF Init, TypeOK

\* Each action, and a stutter, keeps every variable in its set.
LEMMA StepType == TypeOK /\ [Next]_vars => TypeOK'
  <1> SUFFICES ASSUME TypeOK, [Next]_vars PROVE TypeOK'
    OBVIOUS
  <1> USE DEF TypeOK, Durable, AcceptingJobs, worker_alive
  <1>1. CASE Start
    BY <1>1 DEF Start
  <1>2. CASE Submission
    <2> SUFFICES ASSUME NEW j \in Jobs,
                        CheckAccepting(j) \/ ReserveSlot(j) \/ BuildRecord(j) \/ Commit(j)
                          \/ ReleaseReservation(j)
                 PROVE  TypeOK'
      BY <1>2 DEF Submission
    <2>1. CASE CheckAccepting(j)
      BY <2>1 DEF CheckAccepting, JobStep
    <2>2. CASE ReserveSlot(j)
      BY <2>2 DEF ReserveSlot, JobStep
    <2>3. CASE BuildRecord(j)
      BY <2>3 DEF BuildRecord, JobStep
    <2>4. CASE Commit(j)
      BY <2>4 DEF Commit, JobStep, SetStatus
    <2>5. CASE ReleaseReservation(j)
      BY <2>5 DEF ReleaseReservation, JobStep
    <2> QED BY <2>1, <2>2, <2>3, <2>4, <2>5
  <1>3. CASE SyncRequest
    BY <1>3 DEF SyncRequest, SyncCheck, SyncAdmit, SyncDeny, SyncFinish, SyncStep, TakePermit,
                GivePermit
  <1>4. CASE Worker
    <2>1. CASE WorkerLeave \/ WorkerThreadEnds \/ WorkerPeek \/ WorkerAdmit
      BY <2>1 DEF WorkerLeave, WorkerThreadEnds, WorkerPeek, WorkerAdmit, QueuedJobs, TakePermit
    <2>2. CASE WorkerCancelUnadmitted
      BY <2>2 DEF WorkerCancelUnadmitted, QueuedJobs, SetStatus
    <2>3. CASE WorkerClaim
      BY <2>3 DEF WorkerClaim, QueuedJobs, SetStatus, GivePermit
    <2>4. CASE WorkerSettle
      BY <2>4 DEF WorkerSettle, SetStatus
    <2>5. CASE WorkerRelease
      BY <2>5 DEF WorkerRelease, GivePermit
    <2> QED BY <1>4, <2>1, <2>2, <2>3, <2>4, <2>5 DEF Worker
  <1>5. CASE StorageFault
    BY <1>5 DEF StorageFault, WorkerClaimFails, WorkerStoreFails, WorkerSettleFails,
                StopDrainFails, StopStep
  <1>6. CASE Deletion
    <2> SUFFICES ASSUME NEW d \in Deleters,
                        DeleteLookup(d) \/ DeleteDecide(d) \/ DeleteCancel(d) \/ DeleteErase(d)
                 PROVE  TypeOK'
      BY <1>6 DEF Deletion
    <2>1. CASE DeleteLookup(d)
      BY <2>1 DEF DeleteLookup, DelStep
    <2>2. CASE DeleteDecide(d)
      BY <2>2 DEF DeleteDecide, DelStep
    <2>3. CASE DeleteCancel(d)
      BY <2>3 DEF DeleteCancel, DelStep, SetStatus
    <2>4. CASE DeleteErase(d)
      BY <2>4 DEF DeleteErase, DelStep
    <2> QED BY <2>1, <2>2, <2>3, <2>4
  <1>7. CASE Retention
    BY <1>7 DEF Retention, Evict
  <1>8. ASSUME NEW s \in Stoppers, Stop(s) PROVE TypeOK'
    <2>1. CASE StopDrain(s)
      BY <2>1 DEF StopDrain, StopStep, QueuedJobs, SetStatus
    <2>2. CASE StopBegin(s) \/ StopSignal(s) \/ StopJoin(s)
      BY <2>2 DEF StopBegin, StopSignal, StopJoin, StopStep
    <2>3. CASE StopReadWorker(s) \/ StopReadExecuting(s) \/ StopClaim(s) \/ StopArm(s) \/ StopClose(s)
      BY <2>3 DEF StopReadWorker, StopReadExecuting, StopClaim, StopArm, StopClose, StopStep
    <2> QED BY <1>8, <2>1, <2>2, <2>3 DEF Stop
  <1>9. CASE Reaper
    BY <1>9 DEF Reaper, ReaperWakes, ReaperFinal
  <1>10. CASE UNCHANGED vars
    BY <1>10 DEF vars
  <1> QED BY <1>1, <1>2, <1>3, <1>4, <1>5, <1>6, <1>7, <1>8, <1>9, <1>10 DEF Next

\* Every variable of the runtime stays in its type, in every behaviour.
THEOREM TypeCorrect == Spec => []TypeOK
  <1>1. Init => TypeOK
    BY InitType
  <1>2. TypeOK /\ [Next]_vars => TypeOK'
    BY StepType
  <1> QED BY <1>1, <1>2, PTL DEF Spec

-----------------------------------------------------------------------------
(* Shutdown: a STOPPED runtime owns nothing, and nobody's store is closed       *)

\* Whoever may close the store does so only when the runtime has left RUNNING, and
\* the reaper's look at the executing work cannot be overtaken by a new admission.
ShutdownInv ==
  /\ StoppedOwnsNothing
  /\ state = "new" => wpc = "unstarted"
  /\ workerExited = "set" => wpc \in {"leaving", "dead"}
  /\ \A s \in Stoppers :
       /\ spc[s] \notin {"new", "returned", "raised"} => state \in {"draining", "stopped"}
       /\ spc[s] \in {"second", "claim"} => ~worker_alive
       /\ spc[s] = "claim" => ~executing
       /\ spc[s] = "close" => state = "stopped"
  /\ reaper # "none" => state \in {"draining", "stopped"}
  /\ reaper = "final" => wpc \in {"leaving", "dead"} /\ ~executing
  /\ store = "closed" => /\ state \in {"draining", "stopped"}
                         /\ wpc \in {"unstarted", "leaving", "dead"} /\ ~executing

\* The shutdown invariant holds before start().
LEMMA ShutdownInit == Init => ShutdownInv
  BY DEF Init, ShutdownInv, StoppedOwnsNothing, OwnsNoExecution, worker_alive, executing

\* No step of a stop(), of the reaper or of the threads they wait for breaks it.
LEMMA ShutdownStep == TypeOK /\ ShutdownInv /\ [Next]_vars => ShutdownInv'
  <1> SUFFICES ASSUME TypeOK, ShutdownInv, [Next]_vars PROVE ShutdownInv'
    OBVIOUS
  <1> USE DEF TypeOK, ShutdownInv, StoppedOwnsNothing, OwnsNoExecution, worker_alive, executing
  <1>1. CASE Start
    BY <1>1 DEF Start
  <1>2. CASE Submission
    BY <1>2, SubmissionFrame
  <1>3. CASE SyncRequest
    <2>1. ASSUME NEW y \in SyncRequests, SyncCheck(y) \/ SyncDeny(y) PROVE ShutdownInv'
      BY <2>1 DEF SyncCheck, SyncDeny
    <2>2. ASSUME NEW y \in SyncRequests, SyncAdmit(y) PROVE ShutdownInv'
      BY <2>2 DEF SyncAdmit, TakePermit
    <2>3. ASSUME NEW y \in SyncRequests, SyncFinish(y) PROVE ShutdownInv'
      BY <2>3 DEF SyncFinish, GivePermit
    <2> QED BY <1>3, <2>1, <2>2, <2>3 DEF SyncRequest
  <1>4. CASE Worker
    <2>1. CASE WorkerLeave \/ WorkerThreadEnds
      BY <2>1 DEF WorkerLeave, WorkerThreadEnds
    <2>2. CASE WorkerPeek \/ WorkerAdmit \/ WorkerCancelUnadmitted
      BY <2>2 DEF WorkerPeek, WorkerAdmit, WorkerCancelUnadmitted, TakePermit
    <2>3. CASE WorkerClaim
      BY <2>3 DEF WorkerClaim, GivePermit
    <2>4. CASE WorkerSettle
      BY <2>4 DEF WorkerSettle
    <2>5. CASE WorkerRelease
      BY <2>5 DEF WorkerRelease, GivePermit
    <2> QED BY <1>4, <2>1, <2>2, <2>3, <2>4, <2>5 DEF Worker
  <1>5. CASE StorageFault
    BY <1>5 DEF StorageFault, WorkerClaimFails, WorkerStoreFails, WorkerSettleFails,
                StopDrainFails, StopStep
  <1>6. CASE Deletion
    BY <1>6 DEF Deletion, DeleteLookup, DeleteDecide, DeleteCancel, DeleteErase
  <1>7. CASE Retention
    BY <1>7 DEF Retention, Evict
  <1>8. ASSUME NEW s \in Stoppers, Stop(s) PROVE ShutdownInv'
    <2>1. CASE StopBegin(s)
      BY <2>1 DEF StopBegin, StopStep
    <2>2. CASE StopSignal(s) \/ StopDrain(s) \/ StopJoin(s)
      BY <2>2 DEF StopSignal, StopDrain, StopJoin, StopStep
    <2>3. CASE StopReadWorker(s) \/ StopReadExecuting(s)
      BY <2>3 DEF StopReadWorker, StopReadExecuting, StopStep
    <2>4. CASE StopClaim(s) \/ StopArm(s) \/ StopClose(s)
      BY <2>4 DEF StopClaim, StopArm, StopClose, StopStep
    <2> QED BY <1>8, <2>1, <2>2, <2>3, <2>4 DEF Stop
  <1>9. CASE Reaper
    BY <1>9 DEF Reaper, ReaperWakes, ReaperFinal
  <1>10. CASE UNCHANGED vars
    BY <1>10 DEF vars
  <1> QED BY <1>1, <1>2, <1>3, <1>4, <1>5, <1>6, <1>7, <1>8, <1>9, <1>10 DEF Next

\* STOPPED is only ever claimed of a runtime whose worker thread is gone and that no
\* admitted run uses: by stop() after a clean join, or by the reaper.
THEOREM StoppedIsSound == Spec => []StoppedOwnsNothing
  <1>1. ShutdownInv => StoppedOwnsNothing
    BY DEF ShutdownInv
  <1> QED BY <1>1, ShutdownInit, ShutdownStep, TypeCorrect, PTL DEF Spec

\* stop() and the reaper close the store under no thread that may still use it.
THEOREM StoreIsClosedLast == Spec => []StoreClosedUnderNobody
  <1>1. ShutdownInv => StoreClosedUnderNobody
    BY DEF ShutdownInv, StoreClosedUnderNobody
  <1> QED BY <1>1, ShutdownInit, ShutdownStep, TypeCorrect, PTL DEF Spec

\* Both together: whoever completes the transition to STOPPED, stop() or the reaper.
THEOREM StopSound == Spec => []StopIsSound
  <1> QED BY StoppedIsSound, StoreIsClosedLast, PTL DEF StopIsSound

-----------------------------------------------------------------------------
(* Reservations and the queue bound                                            *)

\* Removing an element of a finite set takes one off its size, adding one adds at most one.
LEMMA SizeOfRemoval ==
  ASSUME NEW S, IsFiniteSet(S), NEW x \in S
  PROVE  Cardinality(S \ {x}) = Cardinality(S) - 1 /\ Cardinality(S) \in Nat \ {0}
  BY FS_RemoveElement, FS_CardinalityType, FS_EmptySet

\* Adding an element to a finite set adds at most one to its size, and one if it is new.
LEMMA SizeOfAddition ==
  ASSUME NEW S, IsFiniteSet(S), NEW x
  PROVE  /\ Cardinality(S \cup {x}) <= Cardinality(S) + 1 /\ Cardinality(S) \in Nat
         /\ x \notin S => Cardinality(S \cup {x}) = Cardinality(S) + 1
  <1>1. Cardinality(S) \in Nat
    BY FS_CardinalityType
  <1>2. Cardinality(S \cup {x}) = IF x \in S THEN Cardinality(S) ELSE Cardinality(S) + 1
    BY FS_AddElement
  <1> QED BY <1>1, <1>2

\* Only finitely many uploads are in their with block at once.
LEMMA ReservingIsFinite == IsFiniteSet(Reserving) /\ Cardinality(Reserving) \in Nat
  BY RuntimeAssumption, FS_Subset, FS_CardinalityType DEF Reserving

\* Nothing but a commit puts a job into the queue.
LEMMA QueueShrinks ==
  ASSUME TypeOK, [Next]_vars, ~\E j \in Jobs : Commit(j)
  PROVE  QueuedJobs' \subseteq QueuedJobs
  <1> USE DEF TypeOK, QueuedJobs, SetStatus
  <1>1. CASE Start
    BY <1>1 DEF Start
  <1>2. CASE Submission
    BY <1>2 DEF Submission, CheckAccepting, ReserveSlot, BuildRecord, ReleaseReservation
  <1>3. CASE SyncRequest
    BY <1>3 DEF SyncRequest, SyncCheck, SyncAdmit, SyncDeny, SyncFinish
  <1>4. CASE Worker
    <2>1. CASE WorkerCancelUnadmitted
      BY <2>1 DEF WorkerCancelUnadmitted
    <2>2. CASE WorkerClaim
      BY <2>2 DEF WorkerClaim
    <2>3. CASE WorkerSettle
      BY <2>3 DEF WorkerSettle
    <2>4. CASE WorkerLeave \/ WorkerThreadEnds \/ WorkerPeek \/ WorkerAdmit \/ WorkerRelease
      BY <2>4 DEF WorkerLeave, WorkerThreadEnds, WorkerPeek, WorkerAdmit, WorkerRelease
    <2> QED BY <1>4, <2>1, <2>2, <2>3, <2>4 DEF Worker
  <1>5. CASE StorageFault
    BY <1>5 DEF StorageFault, WorkerClaimFails, WorkerStoreFails, WorkerSettleFails,
                StopDrainFails
  <1>6. CASE Deletion
    BY <1>6 DEF Deletion, DeleteLookup, DeleteDecide, DeleteCancel, DeleteErase
  <1>7. CASE Retention
    BY <1>7 DEF Retention, Evict
  <1>8. ASSUME NEW s \in Stoppers, Stop(s) PROVE QueuedJobs' \subseteq QueuedJobs
    <2>1. CASE StopDrain(s)
      BY <2>1 DEF StopDrain
    <2>2. CASE \/ StopBegin(s) \/ StopSignal(s) \/ StopJoin(s) \/ StopReadWorker(s)
               \/ StopReadExecuting(s) \/ StopClaim(s) \/ StopArm(s) \/ StopClose(s)
      BY <2>2 DEF StopBegin, StopSignal, StopJoin, StopReadWorker, StopReadExecuting, StopClaim,
                  StopArm, StopClose
    <2> QED BY <1>8, <2>1, <2>2 DEF Stop
  <1>9. CASE Reaper
    BY <1>9 DEF Reaper, ReaperWakes, ReaperFinal
  <1>10. CASE UNCHANGED vars
    BY <1>10 DEF vars
  <1> QED BY <1>1, <1>2, <1>3, <1>4, <1>5, <1>6, <1>7, <1>8, <1>9, <1>10 DEF Next

\* Nothing but a submission changes the reservations.
LEMMA ReservationFrame ==
  ASSUME TypeOK, [Next]_vars, ~Submission
  PROVE  UNCHANGED <<reserved, jpc>>
  <1>1. Start \/ SyncRequest \/ Worker => UNCHANGED <<reserved, jpc>>
    BY DEF Start, SyncRequest, SyncCheck, SyncAdmit, SyncDeny, SyncFinish, Worker, WorkerLeave,
           WorkerThreadEnds, WorkerPeek, WorkerAdmit, WorkerCancelUnadmitted, WorkerClaim,
           WorkerSettle, WorkerRelease
  <1>2. StorageFault \/ Deletion \/ Retention \/ Reaper => UNCHANGED <<reserved, jpc>>
    BY DEF StorageFault, WorkerClaimFails, WorkerStoreFails, WorkerSettleFails, StopDrainFails,
           Deletion, DeleteLookup, DeleteDecide, DeleteCancel, DeleteErase, Retention, Evict,
           Reaper, ReaperWakes, ReaperFinal
  <1>3. ASSUME NEW s \in Stoppers, Stop(s) PROVE UNCHANGED <<reserved, jpc>>
    BY <1>3 DEF Stop, StopBegin, StopSignal, StopDrain, StopJoin, StopReadWorker,
              StopReadExecuting, StopClaim, StopArm, StopClose
  <1>4. CASE UNCHANGED vars
    BY <1>4 DEF vars
  <1> QED BY <1>1, <1>2, <1>3, <1>4 DEF Next

\* Counting the reservations by the uploads that hold them, and the queue with them.
CapacityInv == ReservationsAccounted /\ QueueNeverOverbooked

\* Nothing is queued or reserved before start().
LEMMA CapacityInit == Init => CapacityInv
  <1> SUFFICES ASSUME Init PROVE CapacityInv
    OBVIOUS
  <1>1. QueuedJobs = {} /\ Reserving = {} /\ reserved = 0
    BY DEF Init, QueuedJobs, Reserving
  <1> QED BY <1>1, FS_EmptySet, RuntimeAssumption
          DEF CapacityInv, ReservationsAccounted, QueueNeverOverbooked

\* Reserve, commit and release keep the count of slots; the rest only takes jobs out of the queue.
LEMMA CapacityStep == TypeOK /\ CapacityInv /\ [Next]_vars => CapacityInv'
  <1> SUFFICES ASSUME TypeOK, CapacityInv, [Next]_vars PROVE CapacityInv'
    OBVIOUS
  <1>0. /\ reserved \in Nat /\ jpc \in [Jobs -> {"new", "checked", "reserved", "built",
                                               "accepted", "refused"}]
        /\ JobQueueDepth \in Nat /\ TypeOK'
    BY RuntimeAssumption, StepType DEF TypeOK
  <1>1. /\ IsFiniteSet(QueuedJobs) /\ Cardinality(QueuedJobs) \in Nat
        /\ IsFiniteSet(QueuedJobs') /\ Cardinality(QueuedJobs') \in Nat
    <2>1. QueuedJobs \subseteq Jobs /\ QueuedJobs' \subseteq Jobs
      BY <1>0 DEF TypeOK, QueuedJobs
    <2> QED BY <2>1, RuntimeAssumption, FS_Subset, FS_CardinalityType
  <1>2. IsFiniteSet(Reserving) /\ Cardinality(Reserving) \in Nat
    BY ReservingIsFinite
  <1>3. /\ reserved = Cardinality(Reserving)
        /\ Cardinality(QueuedJobs) + reserved <= JobQueueDepth
    BY DEF CapacityInv, ReservationsAccounted, QueueNeverOverbooked
  <1>4. QueuedJobs' \subseteq QueuedJobs => Cardinality(QueuedJobs') <= Cardinality(QueuedJobs)
    BY <1>1, FS_Subset
  <1>5. SUFFICES /\ reserved' = Cardinality(Reserving')
                 /\ Cardinality(QueuedJobs') + reserved' <= JobQueueDepth
    BY DEF CapacityInv, ReservationsAccounted, QueueNeverOverbooked
  <1>6. CASE ~Submission
    <2>1. UNCHANGED <<reserved, jpc>> /\ QueuedJobs' \subseteq QueuedJobs
      BY <1>6, ReservationFrame, QueueShrinks DEF Submission
    <2>2. Reserving' = Reserving
      BY <2>1 DEF Reserving
    <2> QED BY <1>0, <1>1, <1>3, <1>4, <2>1, <2>2
  <1>7. ASSUME NEW j \in Jobs, CheckAccepting(j)
        PROVE  UNCHANGED <<Reserving, QueuedJobs, reserved>>
    BY <1>0, <1>7 DEF CheckAccepting, JobStep, Reserving, QueuedJobs
  <1>8. ASSUME NEW j \in Jobs, BuildRecord(j)
        PROVE  UNCHANGED <<Reserving, QueuedJobs, reserved>>
    BY <1>0, <1>8 DEF BuildRecord, JobStep, Reserving, QueuedJobs
  <1>9. ASSUME NEW j \in Jobs, ReserveSlot(j)
        PROVE  \/ UNCHANGED <<Reserving, QueuedJobs, reserved>>
               \/ /\ Reserving' = Reserving \cup {j} /\ j \notin Reserving
                  /\ QueuedJobs' = QueuedJobs /\ reserved' = reserved + 1
                  /\ Cardinality(QueuedJobs) + reserved < JobQueueDepth
    BY <1>0, <1>9 DEF ReserveSlot, JobStep, Reserving, QueuedJobs
  <1>10. ASSUME NEW j \in Jobs, Commit(j)
         PROVE  /\ Reserving' = Reserving \ {j} /\ j \in Reserving
                /\ QueuedJobs' = QueuedJobs \cup {j} /\ reserved' = reserved - 1
    BY <1>0, <1>10 DEF TypeOK, Commit, JobStep, SetStatus, Reserving, QueuedJobs
  <1>11. ASSUME NEW j \in Jobs, ReleaseReservation(j)
         PROVE  /\ Reserving' = Reserving \ {j} /\ j \in Reserving
                /\ QueuedJobs' = QueuedJobs /\ reserved' = reserved - 1
    BY <1>0, <1>11 DEF ReleaseReservation, JobStep, Reserving, QueuedJobs
  <1>12. CASE Submission
    <2>1. PICK j \in Jobs : CheckAccepting(j) \/ ReserveSlot(j) \/ BuildRecord(j) \/ Commit(j)
                              \/ ReleaseReservation(j)
      BY <1>12 DEF Submission
    <2>2. CASE UNCHANGED <<Reserving, QueuedJobs, reserved>>
      BY <1>3, <2>2
    <2>3. CASE ReserveSlot(j) /\ ~UNCHANGED <<Reserving, QueuedJobs, reserved>>
      BY <1>0, <1>1, <1>2, <1>3, <1>9, <2>3, SizeOfAddition
    <2>4. CASE Commit(j)
      <3>1. Cardinality(Reserving') = Cardinality(Reserving) - 1
        BY <1>2, <1>10, <2>4, SizeOfRemoval
      <3>2. Cardinality(QueuedJobs') <= Cardinality(QueuedJobs) + 1
        BY <1>1, <1>10, <2>4, SizeOfAddition
      <3> QED BY <1>0, <1>1, <1>3, <1>10, <2>4, <3>1, <3>2
    <2>5. CASE ReleaseReservation(j)
      <3>1. Cardinality(Reserving') = Cardinality(Reserving) - 1
        BY <1>2, <1>11, <2>5, SizeOfRemoval
      <3> QED BY <1>0, <1>1, <1>3, <1>11, <2>5, <3>1
    <2> QED BY <1>7, <1>8, <2>1, <2>2, <2>3, <2>4, <2>5
  <1> QED BY <1>6, <1>12

\* However many uploads, commits, claims, drains and deletions interleave, the rows that
\* are QUEUED and the slots held by uploads never exceed the queue depth together.
THEOREM QueueBound == Spec => []QueueNeverOverbooked
  <1>1. CapacityInv => QueueNeverOverbooked
    BY DEF CapacityInv
  <1> QED BY <1>1, CapacityInit, CapacityStep, TypeCorrect, PTL DEF Spec

\* No exit path of an upload loses its slot or gives it back twice.
THEOREM ReservationBalance == Spec => []ReservationsAccounted
  <1>1. CapacityInv => ReservationsAccounted
    BY DEF CapacityInv
  <1> QED BY <1>1, CapacityInit, CapacityStep, TypeCorrect, PTL DEF Spec

\* The bound and the balance together, for any number of uploads and any depth.
THEOREM CapacitySound == Spec => []CapacityAccounted
  <1> QED BY QueueBound, ReservationBalance, PTL DEF CapacityAccounted

-----------------------------------------------------------------------------
(* The drain leaves nothing queued                                             *)

\* Only start() and the threads that stop a runtime change its lifecycle state.
LEMMA LifecycleFrame ==
  ASSUME TypeOK, [Next]_vars, ~Start, ~StorageFault, ~Reaper, \A s \in Stoppers : ~Stop(s)
  PROVE  UNCHANGED <<state, spc>>
  <1>1. SyncRequest \/ Worker => UNCHANGED <<state, spc>>
    BY DEF SyncRequest, SyncCheck, SyncAdmit, SyncDeny, SyncFinish, Worker, WorkerLeave,
           WorkerThreadEnds, WorkerPeek, WorkerAdmit, WorkerCancelUnadmitted, WorkerClaim,
           WorkerSettle, WorkerRelease
  <1>2. Deletion \/ Retention => UNCHANGED <<state, spc>>
    BY DEF Deletion, DeleteLookup, DeleteDecide, DeleteCancel, DeleteErase, Retention, Evict
  <1>3. UNCHANGED vars => UNCHANGED <<state, spc>>
    BY DEF vars
  <1> QED BY <1>1, <1>2, <1>3, SubmissionFrame DEF Next

\* Before start() there is no drain to have missed anything.
LEMMA DrainInit == Init => DrainMissesNothing
  BY DEF Init, DrainMissesNothing

\* The only step that queues a job needs RUNNING; leaving RUNNING begins a drain; and the
\* drain ends at a look at an empty queue, or in an exception that keeps it unfinished.
LEMMA DrainStep ==
  TypeOK /\ ShutdownInv /\ DrainMissesNothing /\ [Next]_vars => DrainMissesNothing'
  <1> SUFFICES ASSUME TypeOK, ShutdownInv, DrainMissesNothing, [Next]_vars
               PROVE  DrainMissesNothing'
    OBVIOUS
  <1> USE DEF TypeOK, DrainMissesNothing
  <1>1. ASSUME NEW j \in Jobs, Commit(j) PROVE DrainMissesNothing'
    BY <1>1 DEF Commit
  <1>2. ASSUME ~\E j \in Jobs : Commit(j) PROVE DrainMissesNothing'
    <2>1. QueuedJobs' \subseteq QueuedJobs
      BY <1>2, QueueShrinks
    <2>2. CASE Start
      BY <2>2 DEF Start
    <2>3. CASE StorageFault
      BY <2>1, <2>3 DEF StorageFault, WorkerClaimFails, WorkerStoreFails, WorkerSettleFails,
                        StopDrainFails, StopStep
    <2>4. CASE Reaper
      BY <2>1, <2>4 DEF Reaper, ReaperWakes, ReaperFinal
    <2>5. ASSUME NEW s \in Stoppers, Stop(s) PROVE DrainMissesNothing'
      <3>1. CASE StopBegin(s)
        BY <2>1, <3>1 DEF StopBegin, StopStep
      <3>2. CASE StopSignal(s)
        BY <2>1, <3>2 DEF StopSignal, StopStep
      <3>3. CASE StopDrain(s)
        BY <2>1, <3>3 DEF StopDrain, StopStep
      <3>4. CASE \/ StopJoin(s) \/ StopReadWorker(s) \/ StopReadExecuting(s) \/ StopClaim(s)
                 \/ StopArm(s) \/ StopClose(s)
        BY <2>1, <3>4 DEF StopJoin, StopReadWorker, StopReadExecuting, StopClaim, StopArm, StopClose,
                          StopStep, ShutdownInv
      <3> QED BY <2>5, <3>1, <3>2, <3>3, <3>4 DEF Stop
    <2> QED BY <2>1, <2>2, <2>3, <2>4, <2>5, LifecycleFrame
  <1> QED BY <1>1, <1>2

\* Once the stop() that drains has done so, no job is QUEUED again: no upload that was
\* admitted before slips in behind it.
THEOREM DrainIsComplete == Spec => []DrainMissesNothing
  <1> QED BY DrainInit, DrainStep, ShutdownInit, ShutdownStep, TypeCorrect, PTL DEF Spec

-----------------------------------------------------------------------------
(* Permits                                                                     *)

\* Only the synchronous requests and the worker touch what the permits are counted by.
LEMMA PermitFrame ==
  ASSUME [Next]_vars, ~Start, ~SyncRequest, ~Worker, ~StorageFault
  PROVE  UNCHANGED <<inUse, leaked, ypc, wpc>>
  <1>1. Submission \/ Deletion \/ Retention \/ Reaper => UNCHANGED <<inUse, leaked, ypc, wpc>>
    BY SubmissionFrame
       DEF Deletion, DeleteLookup, DeleteDecide, DeleteCancel, DeleteErase, Retention, Evict,
           Reaper, ReaperWakes, ReaperFinal
  <1>2. ASSUME NEW s \in Stoppers, Stop(s) PROVE UNCHANGED <<inUse, leaked, ypc, wpc>>
    BY <1>2 DEF Stop, StopBegin, StopSignal, StopDrain, StopJoin, StopReadWorker,
              StopReadExecuting, StopClaim, StopArm, StopClose
  <1>3. CASE UNCHANGED vars
    BY <1>3 DEF vars
  <1> QED BY <1>1, <1>2, <1>3 DEF Next

\* No permit is in use before start().
LEMMA PermitsInit == Init => PermitsAccounted
  <1> SUFFICES ASSUME Init PROVE PermitsAccounted
    OBVIOUS
  <1>1. SyncExecuting = {} /\ WorkerPermits = 0 /\ inUse = 0 /\ leaked = 0
    BY DEF Init, SyncExecuting, WorkerPermits
  <1> QED BY <1>1, FS_EmptySet DEF PermitsAccounted

\* Each step takes or gives a permit together with the thread that holds it.
LEMMA PermitsStep == TypeOK /\ ShutdownInv /\ PermitsAccounted /\ [Next]_vars => PermitsAccounted'
  <1> SUFFICES ASSUME TypeOK, ShutdownInv, PermitsAccounted, [Next]_vars
               PROVE  inUse' = Cardinality(SyncExecuting') + WorkerPermits' + leaked'
    BY DEF PermitsAccounted
  <1>0. /\ inUse \in Nat /\ leaked \in Nat /\ WorkerPermits \in 0..1
        /\ ypc \in [SyncRequests -> {"new", "checked", "executing", "answered", "refused"}]
    BY DEF TypeOK, WorkerPermits
  <1>1. inUse = Cardinality(SyncExecuting) + WorkerPermits + leaked
    BY DEF PermitsAccounted
  <1>2. IsFiniteSet(SyncExecuting) /\ Cardinality(SyncExecuting) \in Nat
    BY RuntimeAssumption, FS_Subset, FS_CardinalityType DEF SyncExecuting
  <1>3. CASE UNCHANGED <<SyncExecuting, WorkerPermits, inUse, leaked>>
    BY <1>1, <1>3
  <1>4. CASE ~(Start \/ SyncRequest \/ Worker \/ StorageFault)
    BY <1>3, <1>4, PermitFrame DEF SyncExecuting, WorkerPermits
  <1>5. CASE Start
    BY <1>3, <1>5 DEF Start, ShutdownInv, SyncExecuting, WorkerPermits
  <1>6. ASSUME NEW y \in SyncRequests, SyncCheck(y) \/ SyncDeny(y)
        PROVE  UNCHANGED <<SyncExecuting, WorkerPermits, inUse, leaked>>
    BY <1>0, <1>6 DEF SyncCheck, SyncDeny, SyncStep, SyncExecuting, WorkerPermits
  <1>7. ASSUME NEW y \in SyncRequests, SyncAdmit(y)
        PROVE  inUse' = Cardinality(SyncExecuting') + WorkerPermits' + leaked'
    <2>1. /\ SyncExecuting' = SyncExecuting \cup {y} /\ y \notin SyncExecuting
          /\ inUse' = inUse + 1 /\ UNCHANGED <<WorkerPermits, leaked>>
      BY <1>0, <1>7 DEF SyncAdmit, SyncStep, TakePermit, SyncExecuting, WorkerPermits
    <2> QED BY <1>0, <1>1, <1>2, <2>1, SizeOfAddition
  <1>8. ASSUME NEW y \in SyncRequests, SyncFinish(y)
        PROVE  inUse' = Cardinality(SyncExecuting') + WorkerPermits' + leaked'
    <2>1. /\ SyncExecuting' = SyncExecuting \ {y} /\ y \in SyncExecuting
          /\ inUse' = inUse - 1 /\ UNCHANGED <<WorkerPermits, leaked>>
      BY <1>0, <1>8 DEF SyncFinish, SyncStep, GivePermit, SyncExecuting, WorkerPermits
    <2> QED BY <1>0, <1>1, <1>2, <2>1, SizeOfRemoval
  <1>9. CASE SyncRequest
    BY <1>3, <1>6, <1>7, <1>8, <1>9 DEF SyncRequest
  <1>10. CASE Worker
    <2>1. SyncExecuting' = SyncExecuting
      BY <1>10 DEF Worker, WorkerLeave, WorkerThreadEnds, WorkerPeek, WorkerAdmit,
                   WorkerCancelUnadmitted, WorkerClaim, WorkerSettle, WorkerRelease,
                   SyncExecuting
    <2>2. inUse' - WorkerPermits' = inUse - WorkerPermits /\ leaked' = leaked
          /\ inUse' \in Nat /\ WorkerPermits' \in 0..1
      BY <1>0, <1>10 DEF Worker, WorkerLeave, WorkerThreadEnds, WorkerPeek, WorkerAdmit,
                   WorkerCancelUnadmitted, WorkerClaim, WorkerSettle, WorkerRelease,
                   WorkerPermits, TakePermit, GivePermit
    <2> QED BY <1>0, <1>1, <1>2, <2>1, <2>2
  <1>11. CASE StorageFault
    <2>1. SyncExecuting' = SyncExecuting /\ inUse' = inUse
      BY <1>11 DEF StorageFault, WorkerClaimFails, WorkerStoreFails, WorkerSettleFails,
                   StopDrainFails, SyncExecuting
    <2>2. \/ UNCHANGED <<leaked, WorkerPermits>>
          \/ leaked' = leaked + 1 /\ WorkerPermits = 1 /\ WorkerPermits' = 0
      BY <1>11 DEF StorageFault, WorkerClaimFails, WorkerStoreFails, WorkerSettleFails,
                   StopDrainFails, WorkerPermits
    <2>3. CASE UNCHANGED <<leaked, WorkerPermits>>
      BY <1>3, <2>1, <2>3
    <2>4. CASE leaked' = leaked + 1 /\ WorkerPermits = 1 /\ WorkerPermits' = 0
      BY <1>0, <1>1, <1>2, <2>1, <2>4
    <2> QED BY <2>2, <2>3, <2>4
  <1> QED BY <1>4, <1>5, <1>9, <1>10, <1>11

\* The permits in use are exactly those of the executing requests, the worker's, and
\* those a failed claim has lost.
THEOREM PermitBalance == Spec => []PermitsAccounted
  <1> QED BY PermitsInit, PermitsStep, ShutdownInit, ShutdownStep, TypeCorrect, PTL DEF Spec

\* Slots and permits together: admission never admits more than there is room for, and no
\* path of an upload or a run loses what it took, but for the failed claim.
THEOREM AdmissionBalances == Spec => []AdmissionIsAccounted
  <1> QED BY CapacitySound, PermitBalance, PTL DEF AdmissionIsAccounted

-----------------------------------------------------------------------------
(* The job in execution keeps its row                                          *)

\* The copy of a row that a deletion acts on may be stale, yet never by so much that it
\* removes a job in execution: a row that was seen terminal stays terminal, and one that
\* was seen queued has to be cancelled first.
OwnershipInv ==
  /\ \A j \in rows : jpc[j] = "accepted"
  /\ \A d \in Deleters : dpc[d] \in {"decide", "cancel", "erase"} =>
       djob[d] \in Jobs /\ jpc[djob[d]] = "accepted"
  /\ Durable => \A d \in Deleters :
       /\ dpc[d] = "decide" => dseen[d] = "queued" \/ status[djob[d]] \in Terminal
       /\ dpc[d] = "erase" => status[djob[d]] \in Terminal
  /\ ExecutingJobIsRunning

\* Only a QUEUED job can be cancelled.
LEMMA CancelFrom ==
  ASSUME NEW s \in JobStatus
  PROVE  CanTransition(s, "cancelled") <=> s = "queued"
  BY DEF CanTransition, JOB_TRANSITIONS

\* Before start() the worker owns no job.
LEMMA OwnershipInit == Init => OwnershipInv
  BY DEF Init, OwnershipInv, ExecutingJobIsRunning

\* No step takes the row of the executing job away, nor makes a deletion of it look legal.
LEMMA OwnershipStep == TypeOK /\ ShutdownInv /\ OwnershipInv /\ [Next]_vars => OwnershipInv'
  <1> SUFFICES ASSUME TypeOK, ShutdownInv, OwnershipInv, [Next]_vars PROVE OwnershipInv'
    OBVIOUS
  <1> USE DEF TypeOK, OwnershipInv, ExecutingJobIsRunning
  <1>1. CASE Start
    BY <1>1 DEF Start
  <1>2. CASE Submission
    <2>1. ASSUME NEW j \in Jobs, CheckAccepting(j) PROVE OwnershipInv'
      BY <2>1 DEF CheckAccepting, JobStep
    <2>2. ASSUME NEW j \in Jobs, ReserveSlot(j) PROVE OwnershipInv'
      BY <2>2 DEF ReserveSlot, JobStep
    <2>3. ASSUME NEW j \in Jobs, BuildRecord(j) PROVE OwnershipInv'
      BY <2>3 DEF BuildRecord, JobStep
    <2>4. ASSUME NEW j \in Jobs, Commit(j) PROVE OwnershipInv'
      BY <2>4 DEF Commit, JobStep, SetStatus
    <2>5. ASSUME NEW j \in Jobs, ReleaseReservation(j) PROVE OwnershipInv'
      BY <2>5 DEF ReleaseReservation, JobStep
    <2> QED BY <1>2, <2>1, <2>2, <2>3, <2>4, <2>5 DEF Submission
  <1>3. CASE SyncRequest
    BY <1>3 DEF SyncRequest, SyncCheck, SyncAdmit, SyncDeny, SyncFinish
  <1>4. CASE Worker
    <2>1. CASE WorkerCancelUnadmitted
      BY <2>1 DEF WorkerCancelUnadmitted, QueuedJobs, SetStatus
    <2>2. CASE WorkerClaim
      BY <2>2 DEF WorkerClaim, IsNextQueued, QueuedJobs, SetStatus
    <2>3. CASE WorkerSettle
      BY <2>3 DEF WorkerSettle, SetStatus
    <2>4. CASE WorkerLeave \/ WorkerThreadEnds \/ WorkerPeek \/ WorkerAdmit \/ WorkerRelease
      BY <2>4 DEF WorkerLeave, WorkerThreadEnds, WorkerPeek, WorkerAdmit, WorkerRelease
    <2> QED BY <1>4, <2>1, <2>2, <2>3, <2>4 DEF Worker
  <1>5. CASE StorageFault
    BY <1>5 DEF StorageFault, WorkerClaimFails, WorkerStoreFails, WorkerSettleFails,
                StopDrainFails
  <1>6. CASE Deletion
    <2>1. ASSUME NEW d \in Deleters, DeleteLookup(d) PROVE OwnershipInv'
      BY <2>1 DEF DeleteLookup, DelStep
    <2>2. ASSUME NEW d \in Deleters, DeleteDecide(d) PROVE OwnershipInv'
      BY <2>2 DEF DeleteDecide, DelStep
    <2>3. ASSUME NEW d \in Deleters, DeleteCancel(d) PROVE OwnershipInv'
      <3>1. dpc[d] = "cancel" /\ djob[d] \in Jobs /\ jpc[djob[d]] = "accepted"
        BY <2>3 DEF DeleteCancel, DelStep
      <3>2. CanTransition(status[djob[d]], "cancelled") <=> status[djob[d]] = "queued"
        BY <3>1, CancelFrom
      <3> QED BY <2>3, <3>1, <3>2 DEF DeleteCancel, DelStep, SetStatus
    <2>4. ASSUME NEW d \in Deleters, DeleteErase(d) PROVE OwnershipInv'
      BY <2>4 DEF DeleteErase, DelStep
    <2> QED BY <1>6, <2>1, <2>2, <2>3, <2>4 DEF Deletion
  <1>7. CASE Retention
    BY <1>7 DEF Retention, Evict
  <1>8. ASSUME NEW s \in Stoppers, Stop(s) PROVE OwnershipInv'
    <2>1. CASE StopDrain(s)
      BY <2>1 DEF StopDrain, QueuedJobs, SetStatus
    <2>2. CASE \/ StopBegin(s) \/ StopSignal(s) \/ StopJoin(s) \/ StopReadWorker(s)
               \/ StopReadExecuting(s) \/ StopClaim(s) \/ StopArm(s) \/ StopClose(s)
      BY <2>2 DEF StopBegin, StopSignal, StopJoin, StopReadWorker, StopReadExecuting, StopClaim,
                  StopArm, StopClose
    <2> QED BY <1>8, <2>1, <2>2 DEF Stop
  <1>9. CASE Reaper
    BY <1>9 DEF Reaper, ReaperWakes, ReaperFinal
  <1>10. CASE UNCHANGED vars
    BY <1>10 DEF vars
  <1> QED BY <1>1, <1>2, <1>3, <1>4, <1>5, <1>6, <1>7, <1>8, <1>9, <1>10 DEF Next

\* With the SQLite store, the outcome of the job being executed can always be recorded.
THEOREM ExecutingJobKeepsItsRow == Spec => []ExecutingJobIsRunning
  <1>1. OwnershipInv => ExecutingJobIsRunning
    BY DEF OwnershipInv
  <1> QED BY <1>1, OwnershipInit, OwnershipStep, ShutdownInit, ShutdownStep, TypeCorrect, PTL
          DEF Spec

-----------------------------------------------------------------------------
(* The SQLite-backed runtime implements the job lifecycle                      *)

\* What a step other than a commit may do to the rows.
RowsMove ==
  /\ rows' \subseteq rows
  /\ \A j \in rows' : status'[j] = status[j] \/ CanTransition(status[j], status'[j])
  /\ \A j \in rows \ rows' : status[j] \in Terminal
  /\ \A j \in Jobs : jpc'[j] = "accepted" <=> jpc[j] = "accepted"

\* The moves of the transition table that the runtime makes.
LEMMA LegalMoves ==
  /\ CanTransition("queued", "running") /\ CanTransition("queued", "cancelled")
  /\ CanTransition("running", "succeeded") /\ CanTransition("running", "failed")
  BY DEF CanTransition, JOB_TRANSITIONS

\* A step other than a commit makes legal moves of statuses and removes rows that are terminal.
LEMMA StepMovesRows ==
  ASSUME Durable, TypeOK, OwnershipInv, [Next]_vars, ~\E j \in Jobs : Commit(j)
  PROVE  RowsMove
  <1> USE LegalMoves DEF TypeOK, OwnershipInv, RowsMove
  <1>1. CASE Start
    BY <1>1 DEF Start
  <1>2. CASE Submission
    <2>1. ASSUME NEW j \in Jobs, CheckAccepting(j) \/ ReserveSlot(j) \/ BuildRecord(j)
                                   \/ ReleaseReservation(j)
          PROVE  RowsMove
      BY <2>1 DEF CheckAccepting, ReserveSlot, BuildRecord, ReleaseReservation, JobStep
    <2> QED BY <1>2, <2>1 DEF Submission
  <1>3. CASE SyncRequest
    BY <1>3 DEF SyncRequest, SyncCheck, SyncAdmit, SyncDeny, SyncFinish
  <1>4. CASE Worker
    <2>1. CASE WorkerCancelUnadmitted
      BY <2>1 DEF WorkerCancelUnadmitted, QueuedJobs, SetStatus
    <2>2. CASE WorkerClaim
      BY <2>2 DEF WorkerClaim, QueuedJobs, SetStatus
    <2>3. CASE WorkerSettle
      BY <2>3 DEF WorkerSettle, SetStatus
    <2>4. CASE WorkerLeave \/ WorkerThreadEnds \/ WorkerPeek \/ WorkerAdmit \/ WorkerRelease
      BY <2>4 DEF WorkerLeave, WorkerThreadEnds, WorkerPeek, WorkerAdmit, WorkerRelease
    <2> QED BY <1>4, <2>1, <2>2, <2>3, <2>4 DEF Worker
  <1>5. CASE StorageFault
    BY <1>5 DEF StorageFault, WorkerClaimFails, WorkerStoreFails, WorkerSettleFails,
                StopDrainFails
  <1>6. CASE Deletion
    <2>1. ASSUME NEW d \in Deleters, DeleteLookup(d) \/ DeleteDecide(d) PROVE RowsMove
      BY <2>1 DEF DeleteLookup, DeleteDecide
    <2>2. ASSUME NEW d \in Deleters, DeleteCancel(d) PROVE RowsMove
      BY <2>2 DEF DeleteCancel, DelStep, SetStatus
    <2>3. ASSUME NEW d \in Deleters, DeleteErase(d) PROVE RowsMove
      BY <2>3 DEF DeleteErase, DelStep
    <2> QED BY <1>6, <2>1, <2>2, <2>3 DEF Deletion
  <1>7. CASE Retention
    BY <1>7 DEF Retention, Evict
  <1>8. ASSUME NEW s \in Stoppers, Stop(s) PROVE RowsMove
    <2>1. CASE StopDrain(s)
      BY <2>1 DEF StopDrain, QueuedJobs, SetStatus
    <2>2. CASE \/ StopBegin(s) \/ StopSignal(s) \/ StopJoin(s) \/ StopReadWorker(s)
               \/ StopReadExecuting(s) \/ StopClaim(s) \/ StopArm(s) \/ StopClose(s)
      BY <2>2 DEF StopBegin, StopSignal, StopJoin, StopReadWorker, StopReadExecuting, StopClaim,
                  StopArm, StopClose
    <2> QED BY <1>8, <2>1, <2>2 DEF Stop
  <1>9. CASE Reaper
    BY <1>9 DEF Reaper, ReaperWakes, ReaperFinal
  <1>10. CASE UNCHANGED vars
    BY <1>10 DEF vars
  <1> QED BY <1>1, <1>2, <1>3, <1>4, <1>5, <1>6, <1>7, <1>8, <1>9, <1>10 DEF Next

\* The empty store is the initial state of the lifecycle.
LEMMA LifecycleInitially == Init => Lifecycle!LifecycleInit
  BY DEF Init, Lifecycle!LifecycleInit, Phase

\* The instance's own copy of Cardinality is the one used everywhere else.
LEMMA SameCardinality == \A S : Lifecycle!Cardinality(S) = Cardinality(S)
  BY DEF Cardinality, Lifecycle!Cardinality

\* Every step of the runtime is a step of the lifecycle, or a stutter of it.
LEMMA LifecycleStep ==
  ASSUME Durable, TypeOK, TypeOK', OwnershipInv, CapacityInv, [Next]_vars
  PROVE  Lifecycle!LifecycleNext
  <1>1. CASE \E j \in Jobs : Commit(j)
    <2>1. PICK j \in Jobs : Commit(j)
      BY <1>1
    <2>2. /\ jpc[j] = "built" /\ j \notin rows /\ reserved > 0
          /\ rows' = rows \cup {j} /\ status' = [status EXCEPT ![j] = "queued"]
          /\ jpc' = [jpc EXCEPT ![j] = "accepted"]
      BY <2>1 DEF Commit, JobStep, SetStatus, OwnershipInv
    <2>3. Phase[j] = "absent"
      BY <2>2 DEF Phase
    <2>4. Phase' = [Phase EXCEPT ![j] = "queued"]
      BY <2>2 DEF Phase, TypeOK
    <2>5. Lifecycle!Queued(Phase) = QueuedJobs
      BY DEF Lifecycle!Queued, Phase, QueuedJobs, TypeOK
    <2>6. IsFiniteSet(QueuedJobs) /\ Cardinality(QueuedJobs) \in Nat
      <3>1. QueuedJobs \subseteq Jobs
        BY DEF QueuedJobs, TypeOK
      <3> QED BY <3>1, RuntimeAssumption, FS_Subset, FS_CardinalityType
    <2>7. Cardinality(QueuedJobs) < JobQueueDepth
      BY <2>2, <2>6, RuntimeAssumption DEF CapacityInv, QueueNeverOverbooked, TypeOK
    <2>8. Lifecycle!Accept(j)
      BY <2>3, <2>4, <2>5, <2>7, SameCardinality DEF Lifecycle!Accept
    <2> QED BY <2>8 DEF Lifecycle!LifecycleNext
  <1>2. CASE ~\E j \in Jobs : Commit(j)
    <2>1. RowsMove
      BY <1>2, StepMovesRows
    <2>2. Phase' \in [Jobs -> Lifecycle!Phases]
      BY DEF Phase, Lifecycle!Phases, TypeOK, Lifecycle!JobStatus
    <2>3. ASSUME NEW j \in Jobs
          PROVE  Phase'[j] = Phase[j] \/ Lifecycle!Edge(Phase[j], Phase'[j])
      <3>1. CASE j \notin rows
        BY <2>1, <3>1 DEF Phase, RowsMove
      <3>2. CASE j \in rows /\ j \in rows'
        BY <2>1, <3>2 DEF Phase, RowsMove, Lifecycle!Edge, Lifecycle!JobStatus, TypeOK,
                          CanTransition, Lifecycle!CanTransition, JOB_TRANSITIONS,
                          Lifecycle!JOB_TRANSITIONS
      <3>3. CASE j \in rows /\ j \notin rows'
        BY <2>1, <3>3 DEF Phase, RowsMove, Lifecycle!Edge, Lifecycle!Terminal, OwnershipInv
      <3> QED BY <3>1, <3>2, <3>3
    <2> QED BY <2>2, <2>3 DEF Lifecycle!LifecycleNext, Lifecycle!Advance
  <1> QED BY <1>1, <1>2

\* Uploads, the worker, deletions, retention sweeps, drains and storage faults, however
\* they interleave, show a client nothing but the abstract lifecycle of each job.
THEOREM RuntimeImplementsLifecycle ==
  ASSUME Durable
  PROVE  Spec => ImplementsLifecycle
  <1>1. TypeOK /\ TypeOK' /\ OwnershipInv /\ CapacityInv /\ [Next]_vars
          => [Lifecycle!LifecycleNext]_Phase
    BY LifecycleStep
  <1> QED BY <1>1, LifecycleInitially, OwnershipInit, OwnershipStep, CapacityInit, CapacityStep,
             ShutdownInit, ShutdownStep, TypeCorrect, PTL
          DEF Spec, ImplementsLifecycle, Lifecycle!LifecycleSpec
=============================================================================
