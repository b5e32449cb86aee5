----------------------------- MODULE WorkerStream -----------------------------
(***************************************************************************)
(* run_multi_worker_stream of benchmarks/industrial-scale/multi_worker.py:      *)
(* threads compute the tiles of their shards and put them in a bounded queue;   *)
(* the caller takes them out and commits them to the sink in the order of the   *)
(* plan.  A semaphore bounds the tiles that are computed and not committed.     *)
(*                                                                             *)
(* queue.Queue and threading are external: put() waits for room, get() for an   *)
(* item, and a timed acquire may find the semaphore taken and go round again.   *)
(***************************************************************************)
EXTENDS Naturals, Sequences, FiniteSets

CONSTANTS StreamTiles, StreamWorkers, QueueDepth

AtLeastOne(n) == IF n = 0 THEN 1 ELSE n

Plan == 1 .. StreamTiles
ResidentCap == AtLeastOne(QueueDepth) + AtLeastOne(StreamWorkers)
Sentinel == 0

ASSUME StreamAssumption ==
  StreamTiles \in Nat \ {0} /\ StreamWorkers \in Nat /\ QueueDepth \in Nat

\* plan_shards: round robin.
PlanShard(w) == {i \in Plan : (i - 1) % AtLeastOne(StreamWorkers) = w - 1}

\* A thread for each shard that is not empty.
Threads == {w \in 1 .. AtLeastOne(StreamWorkers) : PlanShard(w) # {}}

VARIABLES
  left,            \* the tiles each thread has not come to
  tile,            \* the last one it has a slot for (0: none yet)
  at,              \* each thread
  slots,           \* free slots of the semaphore
  queue,           \* computed tiles and sentinels
  raised,          \* threads in failures
  pending,         \* tiles in the ledger that wait for an earlier one
  committed,       \* how many are committed
  written,         \* what the sink has received
  owed,            \* slots of committed tiles that are to be released
  sentinels, gatherer

ledger == <<pending, committed, written>>
threads == <<left, tile, at, raised>>
streamVars == <<threads, slots, queue, ledger, owed, sentinels, gatherer>>

StreamInit ==
  /\ left = [w \in Threads |-> PlanShard(w)] /\ tile = [w \in Threads |-> 0]
  /\ at = [w \in Threads |-> "setup"]
  /\ slots = ResidentCap /\ queue = <<>> /\ raised = {}
  /\ pending = {} /\ committed = 0 /\ written = <<>> /\ owed = 0
  /\ sentinels = 0 /\ gatherer = "gather"

-----------------------------------------------------------------------------
(* The threads                                                                 *)

Moves(w, from, to) == at[w] = from /\ at' = [at EXCEPT ![w] = to]
caller == <<ledger, owed, sentinels, gatherer>>

\* put() of a bounded queue.
Offer(item) ==
  /\ Len(queue) < AtLeastOne(QueueDepth)
  /\ queue' = Append(queue, item)

\* The device and the forward of the worker.
Prepare(w) ==
  /\ Moves(w, "setup", "loop")
  /\ UNCHANGED <<left, tile, raised, slots, queue, caller>>

\* The tiles of a shard are taken in the order of the plan.
AcquireSlot(w) ==
  /\ slots > 0 /\ slots' = slots - 1 /\ Moves(w, "loop", "compute")
  /\ \E i \in left[w] :
       /\ \A j \in left[w] : i <= j
       /\ tile' = [tile EXCEPT ![w] = i] /\ left' = [left EXCEPT ![w] = @ \ {i}]
  /\ UNCHANGED <<raised, queue, caller>>

\* acquire() times out, and then the failures are looked at.
AcquireTimesOut(w) ==
  /\ left[w] # {} /\ slots = 0
  /\ Moves(w, "loop", "timed out")
  /\ UNCHANGED <<left, tile, raised, slots, queue, caller>>

LookAtFailures(w) ==
  /\ Moves(w, "timed out", IF raised = {} THEN "loop" ELSE "finally")
  /\ UNCHANGED <<left, tile, raised, slots, queue, caller>>

\* The window is read, forwarded, cut to its core and put in the queue.
Deliver(w) ==
  /\ Moves(w, "compute", "loop") /\ Offer(tile[w])
  /\ UNCHANGED <<left, tile, raised, slots, caller>>

EndShard(w) ==
  /\ left[w] = {} /\ Moves(w, "loop", "finally")
  /\ UNCHANGED <<left, tile, raised, slots, queue, caller>>

\* The set-up, the source or the forward raises.
\* Seeded fault: the exception ends the thread before its finally clause.
ThreadDies(w) ==
  /\ at[w] \in {"setup", "compute"} /\ at' = [at EXCEPT ![w] = "over"]
  /\ raised' = raised \cup {w}
  /\ UNCHANGED <<left, tile, slots, queue, caller>>
ThreadRaises(w) ==
  /\ at[w] \in {"setup", "compute"} /\ at' = [at EXCEPT ![w] = "finally"]
  /\ raised' = raised \cup {w}
  /\ UNCHANGED <<left, tile, slots, queue, caller>>

\* finally: one sentinel on every exit path.
PutSentinel(w) ==
  /\ Moves(w, "finally", "over") /\ Offer(Sentinel)
  /\ UNCHANGED <<left, tile, raised, slots, caller>>

-----------------------------------------------------------------------------
(* The caller                                                                  *)

\* A batch of releases ends before the next item is taken.
Gathering == gatherer = "gather" /\ owed = 0 /\ queue # <<>>

\* Seeded fault: whoever leaves first ends the gathering.
TakeFirstSentinel ==
  /\ Gathering /\ Head(queue) = Sentinel /\ queue' = Tail(queue)
  /\ sentinels' = Cardinality(Threads)
  /\ UNCHANGED <<threads, slots, ledger, owed, gatherer>>
TakeSentinel ==
  /\ Gathering /\ Head(queue) = Sentinel /\ queue' = Tail(queue)
  /\ sentinels' = sentinels + 1
  /\ UNCHANGED <<threads, slots, ledger, owed, gatherer>>

\* The ledger commits what it has up to the first gap, which is after n.
Ready(tiles, n) == (committed + 1) .. n \subseteq tiles /\ n + 1 \notin tiles

\* The sink receives the tiles up to n.
WriteUpTo(n) ==
  /\ committed' = n
  /\ written' = written \o [i \in 1 .. (n - committed) |-> committed + i]

\* OrderedCommitLedger.submit, and the slots its commits free.
\* Seeded fault: a slot is freed for what arrives, not for what is committed.
SubmitFreesOne ==
  /\ Gathering /\ Head(queue) # Sentinel /\ queue' = Tail(queue)
  /\ LET held == pending \cup {Head(queue)}
     IN  \E n \in committed .. StreamTiles :
           Ready(held, n) /\ WriteUpTo(n) /\ pending' = held \ 1 .. n /\ owed' = 1
  /\ UNCHANGED <<threads, slots, sentinels, gatherer>>
Submit ==
  /\ Gathering /\ Head(queue) # Sentinel /\ queue' = Tail(queue)
  /\ LET held == pending \cup {Head(queue)}
     IN  \E n \in committed .. StreamTiles :
           Ready(held, n) /\ WriteUpTo(n) /\ pending' = held \ 1 .. n /\ owed' = n - committed
  /\ UNCHANGED <<threads, slots, sentinels, gatherer>>

\* The core has not the planned shape, or the sink raises on one of the tiles it is
\* given: the exception leaves the function at once, and nobody tells the threads.
CommitRaises ==
  /\ Gathering /\ Head(queue) # Sentinel /\ queue' = Tail(queue) /\ gatherer' = "raised"
  /\ LET held == pending \cup {Head(queue)}
     IN  \/ UNCHANGED ledger
         \/ \E n \in committed .. StreamTiles - 1 :
              (committed + 1) .. n + 1 \subseteq held /\ WriteUpTo(n) /\ pending' = held \ 1 .. n + 1
  /\ UNCHANGED <<threads, slots, owed, sentinels>>

ReleaseSlot ==
  /\ gatherer = "gather" /\ owed > 0 /\ owed' = owed - 1 /\ slots' = slots + 1
  /\ UNCHANGED <<threads, queue, ledger, sentinels, gatherer>>

\* Every thread has left: WorkerFailureError, MissingTileError or the report.
EndStream ==
  /\ gatherer = "gather" /\ owed = 0 /\ sentinels = Cardinality(Threads)
  /\ gatherer' = CASE raised # {} -> "failed"
                   [] raised = {} /\ committed # StreamTiles -> "missing"
                   [] OTHER -> "returned"
  /\ UNCHANGED <<threads, slots, queue, ledger, owed, sentinels>>

-----------------------------------------------------------------------------

ThreadStep(w) ==
  \/ Prepare(w) \/ AcquireSlot(w) \/ AcquireTimesOut(w) \/ LookAtFailures(w)
  \/ Deliver(w) \/ EndShard(w) \/ ThreadRaises(w) \/ PutSentinel(w)
CallerStep == TakeSentinel \/ Submit \/ CommitRaises \/ ReleaseSlot \/ EndStream

StreamNext == CallerStep \/ \E w \in Threads : ThreadStep(w)

\* A forward ends or raises, and the interpreter runs every thread.
StreamFairness == WF_streamVars(CallerStep) /\ \A w \in Threads : WF_streamVars(ThreadStep(w))
StreamSpec == StreamInit /\ [][StreamNext]_streamVars /\ StreamFairness

-----------------------------------------------------------------------------

\* Type correctness.
StreamTypeOK ==
  /\ at \in [Threads -> {"setup", "loop", "timed out", "compute", "finally", "over"}]
  /\ slots \in 0 .. ResidentCap /\ owed \in 0 .. ResidentCap
  /\ committed \in 0 .. StreamTiles /\ pending \subseteq Plan
  /\ raised \subseteq Threads /\ sentinels \in 0 .. Cardinality(Threads)
  /\ gatherer \in {"gather", "returned", "failed", "missing", "raised"}

\* Tiles for which a thread has taken a slot and that are not committed.
Computing == {tile[w] : w \in {v \in Threads : at[v] = "compute"}}
Queued == {queue[i] : i \in DOMAIN queue} \ {Sentinel}

\* "Order-aware backpressure": each slot is free, owed, or held for one tile that is computed
\* and not committed, so that never more than the cap are resident, and none is lost while
\* nothing raises; and the sink has received exactly once, in the order of the plan, what
\* the ledger has committed.
ResidentIsBounded ==
  LET resident == Computing \cup Queued \cup pending
  IN  /\ slots + owed + Cardinality(resident) <= ResidentCap
      /\ raised = {} /\ gatherer # "raised" => slots + owed + Cardinality(resident) = ResidentCap
      /\ pending \cap 1 .. committed + 1 = {}
      /\ written = [i \in 1 .. committed |-> i]

\* The report is returned when the sink has every tile and no thread is left; a failure
\* has a thread that failed; and no tile is missed without one ("a failed shard
\* terminates as WorkerFailure/MissingTile, not a hang").
OutcomeIsEarned ==
  /\ gatherer = "returned" => committed = StreamTiles /\ raised = {}
  /\ gatherer = "failed" => raised # {}
  /\ gatherer # "missing"
  /\ gatherer \in {"returned", "failed"} => queue = <<>> /\ \A w \in Threads : at[w] = "over"

\* All slots are taken by tiles that wait in the ledger for one whose thread waits for a slot.
Starved ==
  /\ gatherer = "gather" /\ slots = 0 /\ Cardinality(pending) = ResidentCap
  /\ \E w \in Threads : at[w] \in {"loop", "timed out"} /\ committed + 1 \in left[w]

\* The call ends, unless the threads ahead have starved the one the ledger waits for.
StreamEndsOrStarves == <>(gatherer # "gather" \/ Starved)

\* The comment on the semaphore, "a worker may produce tile i+1 only after uncommitted work
\* drains below the cap", and on the sentinels, "not a hang": so the call ends.
StreamEnds == <>(gatherer # "gather")
=============================================================================
