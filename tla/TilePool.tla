------------------------------- MODULE TilePool -------------------------------
(***************************************************************************)
(* Two calls that share tiles out to worker processes and gather the results    *)
(* through one queue: parallel_tile_inference (workflow/parallel.py, call       *)
(* "tiles") sends a message per tile, reports errors and polls with a timeout;  *)
(* multiproc_predict (inference/multiproc.py, call "predict") sends one message *)
(* per worker, reports nothing and waits without one.                           *)
(*                                                                             *)
(* multiprocessing is external: put() hands a message to a feeder thread, which *)
(* writes it to the pipe later; a process that ends by itself flushes its       *)
(* feeder first, one that is killed does not.  A message is written whole.      *)
(***************************************************************************)
EXTENDS Integers, FiniteSets, Sequences

CONSTANTS NumTiles, NumWorkers

Tiles == 1 .. NumTiles
Workers == 1 .. NumWorkers

ASSUME PoolAssumption == NumWorkers \in Nat \ {0} /\ NumTiles \in Nat \ {0}

VARIABLES
  call,            \* "tiles" or "predict"
  todo,            \* the tiles of each worker's shard that are not computed
  wpc,             \* each worker
  buffer,          \* messages its feeder has not written
  pipe,            \* messages nobody has read
  results,         \* tiles whose result the parent has
  answers,         \* messages read by multiproc_predict
  ppc, outcome,    \* the parent
  weights,         \* the shared-memory blocks of multiproc_predict exist
  faults           \* ghost: workers that raised or were killed

poolVars == <<call, todo, wpc, buffer, pipe, results, answers, ppc, outcome, weights, faults>>

\* _round_robin_shards: tile i goes to worker i modulo the number of workers.
ShardOf(w) == {i \in Tiles : (i - 1) % NumWorkers = w - 1}

PoolInit ==
  /\ call \in {"tiles", "predict"}
  /\ todo = [w \in Workers |-> ShardOf(w)] /\ wpc = [w \in Workers |-> "absent"]
  /\ buffer = [w \in Workers |-> <<>>] /\ pipe = <<>>
  /\ results = {} /\ answers = 0 /\ ppc = "start" /\ outcome = "none"
  /\ weights = TRUE /\ faults = {}

Alive(w) == wpc[w] \notin {"absent", "dead"}
Become(w, from, to) == wpc[w] = from /\ wpc' = [wpc EXCEPT ![w] = to]
Result(ts) == [kind |-> "result", tiles |-> ts]
Error == [kind |-> "error", tiles |-> {}]
Put(w, message) == buffer' = [buffer EXCEPT ![w] = Append(@, message)]
parent == <<pipe, results, answers, ppc, outcome, weights>>

-----------------------------------------------------------------------------
(* The workers                                                                 *)

\* Registry, weights and setup.
SetUp(w) ==
  /\ Become(w, "setup", "working") /\ (call = "predict" => weights)
  /\ UNCHANGED <<call, todo, buffer, parent, faults>>

\* The next tile: put at once, or kept for the one message at the end.
Compute(w) ==
  /\ wpc[w] = "working"
  /\ \E i \in todo[w] :
       /\ \A j \in todo[w] : i <= j
       /\ todo' = [todo EXCEPT ![w] = @ \ {i}]
       /\ IF call = "tiles" THEN Put(w, Result({i})) ELSE UNCHANGED buffer
  /\ UNCHANGED <<call, wpc, parent, faults>>

\* The end of the shard: teardown, or the message with every result.
Conclude(w) ==
  /\ todo[w] = {} /\ Become(w, "working", "exiting")
  /\ IF call = "predict" THEN Put(w, Result(ShardOf(w))) ELSE UNCHANGED buffer
  /\ UNCHANGED <<call, todo, parent, faults>>

\* Setup, a prediction or the teardown raises: reported by the one call only.
WorkerRaises(w) ==
  /\ wpc[w] \in {"setup", "working"} /\ wpc' = [wpc EXCEPT ![w] = "exiting"]
  /\ IF call = "tiles" THEN Put(w, Error) ELSE UNCHANGED buffer
  /\ faults' = faults \cup {w}
  /\ UNCHANGED <<call, todo, parent>>

Feed(w) ==
  /\ Alive(w) /\ buffer[w] # <<>>
  /\ pipe' = Append(pipe, Head(buffer[w])) /\ buffer' = [buffer EXCEPT ![w] = Tail(@)]
  /\ UNCHANGED <<call, todo, wpc, results, answers, ppc, outcome, weights, faults>>

Exit(w) ==
  /\ buffer[w] = <<>> /\ Become(w, "exiting", "dead")
  /\ UNCHANGED <<call, todo, buffer, parent, faults>>

Killed(w) ==
  /\ Alive(w) /\ wpc' = [wpc EXCEPT ![w] = "dead"]
  /\ buffer' = [buffer EXCEPT ![w] = <<>>] /\ faults' = faults \cup {w}
  /\ UNCHANGED <<call, todo, parent>>

-----------------------------------------------------------------------------
(* The parent                                                                  *)

Waiting(c) == ppc = "get" /\ call = c

\* start() of one process after the other.
StartWorker ==
  /\ ppc = "start"
  /\ \E w \in Workers :
       /\ wpc[w] = "absent" /\ \A v \in Workers : wpc[v] = "absent" => w <= v
       /\ wpc' = [wpc EXCEPT ![w] = "setup"]
  /\ ppc' = IF \E w \in Workers : wpc'[w] = "absent" THEN ppc ELSE "get"
  /\ UNCHANGED <<call, todo, buffer, pipe, results, answers, outcome, weights, faults>>

\* Nothing handles an exception of start(), nor one in multiproc_predict after it: the call
\* leaves the processes that it has started as they are.
Abandon == ppc' = "ended" /\ outcome' = "abandoned"
StartFails ==
  /\ ppc = "start" /\ Abandon
  /\ UNCHANGED <<call, todo, wpc, buffer, pipe, results, answers, weights, faults>>
GatherFails ==
  /\ Waiting("predict") \/ ppc = "join"
  /\ Abandon
  /\ UNCHANGED <<call, todo, wpc, buffer, pipe, results, answers, weights, faults>>

\* Then SharedStateDictServer is collected, and __del__ cleans up.
ServerCollected ==
  /\ outcome = "abandoned" /\ call = "predict" /\ weights /\ weights' = FALSE
  /\ UNCHANGED <<call, todo, wpc, buffer, pipe, results, answers, ppc, outcome, faults>>

\* terminate() of every worker that is alive.
TerminateAll ==
  /\ wpc' = [w \in Workers |-> "dead"] /\ buffer' = [w \in Workers |-> <<>>]

\* A result is kept, until all are there; an error ends the call.
TakeItem ==
  /\ Waiting("tiles") /\ pipe # <<>>
  /\ pipe' = Tail(pipe) /\ results' = results \cup Head(pipe).tiles
  /\ CASE Head(pipe).kind = "error" ->
            TerminateAll /\ ppc' = "finally" /\ outcome' = "failed"
       [] Head(pipe).kind # "error" /\ results' = Tiles ->
            UNCHANGED <<wpc, buffer>> /\ ppc' = "finally" /\ outcome' = "returned"
       [] OTHER -> UNCHANGED <<wpc, buffer, ppc, outcome>>
  /\ UNCHANGED <<call, todo, answers, weights, faults>>

\* progress_cb raises, or the user interrupts; the workers are stopped in Finally.
Interrupted ==
  /\ Waiting("tiles") /\ outcome' = "interrupted" /\ ppc' = "finally"
  /\ UNCHANGED <<call, todo, wpc, buffer, pipe, results, answers, weights, faults>>

\* get() times out; then the workers are looked at, and then the queue.
TimeOut ==
  /\ Waiting("tiles") /\ pipe = <<>> /\ ppc' = "workers"
  /\ UNCHANGED <<call, todo, wpc, buffer, pipe, results, answers, outcome, weights, faults>>

\* Seeded fault: a worker that ended well does not count as gone.
LookAtExitCodes ==
  /\ ppc = "workers"
  /\ ppc' = IF \A w \in Workers : ~Alive(w) /\ w \in faults THEN "queue" ELSE "get"
  /\ UNCHANGED <<call, todo, wpc, buffer, pipe, results, answers, outcome, weights, faults>>
LookAtWorkers ==
  /\ ppc = "workers"
  /\ ppc' = IF \A w \in Workers : ~Alive(w) THEN "queue" ELSE "get"
  /\ UNCHANGED <<call, todo, wpc, buffer, pipe, results, answers, outcome, weights, faults>>

\* Seeded fault: the workers have gone, so the call has failed.
LookAtNothing ==
  /\ ppc = "queue" /\ ppc' = "finally" /\ outcome' = "failed"
  /\ UNCHANGED <<call, todo, wpc, buffer, pipe, results, answers, weights, faults>>
LookAtQueue ==
  /\ ppc = "queue"
  /\ IF pipe = <<>> THEN ppc' = "finally" /\ outcome' = "failed"
                    ELSE ppc' = "get" /\ UNCHANGED outcome
  /\ UNCHANGED <<call, todo, wpc, buffer, pipe, results, answers, weights, faults>>

\* Each worker is joined for five seconds, and terminated when it is still there.
Finally ==
  /\ ppc = "finally" /\ TerminateAll /\ ppc' = "ended"
  /\ UNCHANGED <<call, todo, pipe, results, answers, outcome, weights, faults>>

\* multiproc_predict: one message per worker, whatever it holds.
\* Seeded fault: the gathering ends with the first message.
TakeOneAnswer ==
  /\ Waiting("predict") /\ pipe # <<>>
  /\ pipe' = Tail(pipe) /\ results' = results \cup Head(pipe).tiles /\ answers' = answers + 1
  /\ ppc' = "join"
  /\ UNCHANGED <<call, todo, wpc, buffer, outcome, weights, faults>>
TakeAnswer ==
  /\ Waiting("predict") /\ pipe # <<>>
  /\ pipe' = Tail(pipe) /\ results' = results \cup Head(pipe).tiles /\ answers' = answers + 1
  /\ ppc' = IF answers' = NumWorkers THEN "join" ELSE ppc
  /\ UNCHANGED <<call, todo, wpc, buffer, outcome, weights, faults>>

\* join(timeout=30) of each, then cleanup() and the list of outputs.
JoinAndCleanUp ==
  /\ ppc = "join" /\ weights' = FALSE
  /\ ppc' = "ended" /\ outcome' = IF results = Tiles THEN "returned" ELSE "failed"
  /\ UNCHANGED <<call, todo, wpc, buffer, pipe, results, answers, faults>>

-----------------------------------------------------------------------------

WorkerStep(w) == SetUp(w) \/ Compute(w) \/ Conclude(w) \/ Feed(w) \/ Exit(w)
ParentStep ==
  StartWorker \/ TakeItem \/ TimeOut \/ LookAtWorkers \/ LookAtQueue \/ Finally
  \/ TakeAnswer \/ JoinAndCleanUp

PoolNext ==
  \/ \E w \in Workers : WorkerStep(w) \/ WorkerRaises(w) \/ Killed(w)
  \/ ParentStep \/ Interrupted \/ StartFails \/ GatherFails \/ ServerCollected

\* A model's predict() ends or raises, and the scheduler runs every process.
PoolFairness == WF_poolVars(ParentStep) /\ \A w \in Workers : WF_poolVars(WorkerStep(w))
PoolSpec == PoolInit /\ [][PoolNext]_poolVars /\ PoolFairness

-----------------------------------------------------------------------------

\* Type correctness.
PoolTypeOK ==
  /\ call \in {"tiles", "predict"} /\ results \subseteq Tiles /\ answers \in 0 .. NumWorkers
  /\ wpc \in [Workers -> {"absent", "setup", "working", "exiting", "dead"}]
  /\ ppc \in {"start", "get", "workers", "queue", "finally", "join", "ended"}
  /\ outcome \in {"none", "returned", "failed", "interrupted", "abandoned"}
  /\ weights \in BOOLEAN /\ faults \subseteq Workers

\* A call that returns has a result for every tile; one that fails does so because a
\* worker raised or was killed, never because a fast worker, or all of them, had left
\* when the parent looked ("a single fast worker finishing early must not abort the run").
OutcomeIsJust ==
  /\ outcome = "returned" => results = Tiles
  /\ outcome = "failed" => faults # {}

\* When a call has ended no worker of it works any more, and multiproc_predict has taken
\* its shared memory away, under nobody who has still to attach to it.  Not so of a call that
\* an exception of start() ends, or of a multiproc_predict that is interrupted: the source
\* handles neither, so that the processes go on and the memory goes when it is collected.
NothingLeftBehind ==
  outcome # "abandoned" =>
    /\ (ppc = "ended" /\ call = "tiles") => \A w \in Workers : ~Alive(w)
    /\ (ppc = "ended" /\ call = "predict") => ~weights
    /\ ~weights => \A w \in Workers : wpc[w] \in {"exiting", "dead"}

\* A worker of multiproc_predict that has gone and left no answer.
Silent(w) ==
  /\ call = "predict" /\ wpc[w] = "dead" /\ ~(ShardOf(w) \subseteq results)
  /\ ShardOf(w) \notin {pipe[i].tiles : i \in DOMAIN pipe}

\* Both calls end, whatever workers raise or are killed, but for multiproc_predict after
\* the loss of a worker: it waits for the answer for ever.
CallEnds == <>(ppc = "ended" \/ \E w \in Workers : Silent(w))
=============================================================================
