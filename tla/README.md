# A verification development for OpenLithoHub

OpenLithoHub optimises lithography masks: a layout is cut into tiles, a model is
run over every tile, and the mask is written out. Around that numeric core it has
an HTTP server with durable asynchronous jobs, a streaming tile pipeline, a planner,
a verification layer and a command line. This directory holds TLA+ models of the
parts whose correctness depends on *order* (threads, crashes, partial failures),
the TLC configurations that check them on small instances, and theorems that the
TLA+ proof system proves for every value of the constants.

Paths below are relative to `src/openlithohub/` of the repository.

## 1. Inventory

| Part | State it keeps | Operations | What is hard about it |
|---|---|---|---|
| **Server runtime** `server/runtime.py` | lifecycle state, `_shutdown` and `_worker_exited` events, admission semaphore and its counter, `_slots_reserved`, worker and reaper threads, artifact leases | `start`, `stop`, `run_admitted`, `reserve_job_slot`/`commit`, the worker loop, `delete_job`, leases, retention sweep | one worker, any number of request threads and several `stop()` callers interleave; every wait can time out; every storage call can raise |
| **Job store** `server/job_store.py` | the rows of the jobs, the state directory (`tmp/`, `jobs/<id>/`), the directory lock | `create_queued`, `peek_next_queued`, `claim_next`, `transition`, `delete`, `evict_terminal`, `recover`, `collect_garbage`, `close` | rows and files are two stores without a common transaction; the process may die between any two steps |
| **HTTP handlers** `server/app.py` | scratch directories, staging files | submit, run synchronously, read, download, delete | check first, act later across a long upload or a streaming response; each exit path cleans up by itself |
| **Model cache** `server/app.py` | LRU of loaded models, per-key locks, reference counts, parked models | `_get_or_load_model`, `_release_model`, `_run_optimize` | slow loads and teardowns outside the lock; decisions that are stale when applied |
| **Job vocabulary** `server/schemas.py` | none | `transition_job_status` | the one table every writer must go through |
| **Streaming pipeline** `streaming/` | work stack, ownership tree, forward batch, sink, work ledger | `run_streaming`, `subdivide`, `write_core`, `set_terminal` | refinement replaces tiles while others are written; sequential, but with errors half-way and many fail-closed checks |
| **Verification fold** `streaming/verification.py` | a reducer per verifier | `add`, `retire`, `finalize`, `fold_global` | PASS, FAIL and INCONCLUSIVE must never be folded into a stronger verdict, nor speak of tiles that are gone |
| **Vector source** `streaming/vector_runs.py` | polygons by bands of rows | `polygon_row_spans`, `iter_owned_runs_for_bbox`, `read_window` | exact geometry at fractional crossings; every tile has to see one and the same mask |
| **Planner and tiling** `workflow/execution.py`, `tiling.py`, `halo.py` | none | dense or streaming, tile grid, halo, blending | a decision from partial knowledge; boundary arithmetic |
| **Process pools** `workflow/parallel.py`, `inference/multiproc.py` | worker processes, one result queue, shared memory | scatter, gather, terminate | a worker that dies without a word |
| **Worker stream** `benchmarks/industrial-scale/multi_worker.py` | threads, a bounded queue, a semaphore, the commit ledger | `run_multi_worker_stream`, `submit`, `finish` | results come in any order, commits go in one; two bounds that wait for each other |
| **Leaderboard** `leaderboard/tracker.py` | one JSON file and a lock file | `submit`, `query` | read-modify-write by several processes; files of older releases |
| **Evidence** `benchmarks/industrial/`, `scripts/` | checkpoint journals, a workspace per run identity, a public root with its staging directory, a canonical root | measure or resume, `write_artifact`, `publish_family`, `verify`, `promote` | families of files without a common rename; kills, full disks and other processes between any two steps |
| **Client** `client/_client.py` | a `.part` file | submit, poll, download, delete | deadlines against late answers; jobs that go while they are asked for |
| Models, simulators, metrics, data, CLI, plug-ins, plots | tensors, files | numeric code and its front ends | numerics |

How they interact: a handler of `app.py` asks the *runtime* for a slot or a permit;
the runtime keeps job rows in the *store*, wakes its *worker*, and the worker (or the
handler itself, in `run_admitted`) calls `_run_optimize`, which takes a model from the
*cache*, runs the *planner*, and through it the dense loop, with or without a *process
pool*, or the *streaming pipeline*, which reads windows of a *vector source* and folds the
verdicts of its verifiers. The store, the cache and the counters are shared state under
separate locks; `stop()` and the reaper end all of it. The *client* sees only rows and
artifacts, by polling and downloading. The worker stream, the evidence and the leaderboard stand beside
the server: a benchmark harness over the streaming plan, the publication of what such
harnesses measure, and a file on a user's disk.

What makes each modelled part correct:

- runtime: the queue is never overbooked, slots and permits are never lost or given
  back twice, STOPPED really means that nothing runs, the store is closed last, the job
  in execution keeps its row, accepted jobs are taken up, `stop()` returns;
- store: whatever a crash cuts short, an acknowledged job exists, a QUEUED row has its
  input, a SUCCEEDED row its complete artifact, no job is executed twice, and recovery
  hands over a settled store;
- delivery: no sweep takes a file that was promised to a download, leases are those of
  responses and each is accounted for, what the client saves is whole (which the code does not
  keep when two downloads share a destination) and no part file stays behind; a poll ends;
- cache: a model is loaded once, run by one request at a time and never freed in use,
  and no request waits for ever;
- streaming: every pixel is written exactly once, by the leaf that owns it in the end, the
  report is of those leaves, and the pipeline's own checks never stop it;
- pools and streams: a call that returns has everything, one that fails has a reason, a
  call ends and leaves nobody behind, and memory stays within its bound;
- evidence: what a verifier accepts is the measurement on record, whole and of one run, and
  a publication that nobody disturbs is accepted whatever earlier ones left behind;
- leaderboard: no acknowledged submission is lost, and scores that cannot be compared are
  not ranked against each other;
- decisions: each pixel of the mask is the geometry's, each pixel of the chip is some
  tile's, and a plan is possible, asked for and within its memory policy (which the code does
  not keep for a layout it cannot measure);
- jobs: each goes through the abstract lifecycle, and through nothing else.

## 2. Modules

| Module | What it is |
|---|---|
| `JobStates` | the status set, `JOB_TRANSITIONS` and `CanTransition` (`schemas.py`), used by every module about jobs |
| `JobLifecycle` | abstract: what a client is promised of each job, and a bound on the queue |
| `ServerRuntime`, `ServerRuntimeProps` | the threads of one server process over one table of rows; invariants, liveness and the refinement of `JobLifecycle` |
| `JobStoreDurable`, `JobStoreDurableProps` | rows and files of one state directory through crashes and restarts; the same |
| `ArtifactDelivery` | leases, retention sweeps and deletions around clients that poll and download |
| `ModelCache` | the cache and the requests that use it |
| `ChipCover` | abstract: pixels are decided once, and a report comes when all are |
| `TileGeometry` | boxes, read windows, the grid of cores and its subdivision, as functions |
| `Verdicts` | results of tiles, with status, coverage and error bound, and the verdict on the chip that `finalize` and `fold_global` make of them |
| `StreamingPipeline`, `StreamingPipelineProps` | `run_streaming` over those; invariants and the refinement of `ChipCover` |
| `TilePool` | the two ways of sharing tiles among processes |
| `WorkerStream` | threads, a bounded queue and an ordered ledger |
| `Leaderboard` | submitters and readers of one file |
| `EvidencePublication` | benchmark processes, their journals and workspaces, and the public root they share |
| `CanonicalPromotion` | operators who promote verified families to one canonical root |
| `VectorRuns`, `DenseTiling`, `ExecutionPlanner` | pure: scan conversion, dense tiles, the plan |
| `ServerRuntime_proofs`, `JobStoreDurable_proofs`, `ModelCache_proofs`, `ArtifactDelivery_proofs` | the theorems about the component of that name |
| `Protocols_proofs` | the theorems about `TilePool`, `WorkerStream` and `Leaderboard` |
| `Evidence_proofs` | the theorems about `EvidencePublication`, `CanonicalPromotion` and the decisions |
| `TileGeometry_proofs`, `StreamingPipeline_proofs` | the theorems about `TileGeometry` and `VectorRuns`, and about the pipeline, which rest on them |
| `MCServerRuntime`, `MCJobStoreDurable`, `MCStreamingPipeline` | constants and symmetry for TLC |
| `MCModelCache` | `ModelCache` with requests in order of arrival and one history variable |
| `MCProtocols` | `TilePool`, `WorkerStream`, `Leaderboard` and `ArtifactDelivery` side by side |
| `MCDecisions` | the inputs on which the pure modules are compared with a reference, and their properties |
| `MCEvidence` | `EvidencePublication`, `CanonicalPromotion`, `MCDecisions` and `StreamingPipeline` side by side |

`ServerRuntime`, `JobStoreDurable` and `ArtifactDelivery` cut the same code along three
lines. The first keeps every thread step and lock of `runtime.py` and takes a row for the
whole job; the second takes the worker as one sequential thread and keeps every file and
every step between two file or row operations; the third takes a job as a row with an age
and an artifact, and keeps every step of a sweep and of a download. What one abstracts
another keeps: `Claim` of `JobStoreDurable` allows the orphaned claim whose circumstances
`ServerRuntime` shows, `Evict` of `ServerRuntime` allows any terminal row to go at any
time, and `ArtifactDelivery` says when one does.

### ServerRuntime and the code

An action is one critical section, or a stretch of code that no other thread can see
into. The program counters name the place between two of them.

| State | Code |
|---|---|
| `state`, `shutdown`, `workerExited`, `reaper` | `_state`, `_shutdown`, `_worker_exited`, `_reaper_thread` |
| `store` | open until `stop()` or the reaper calls `close()`; a closed SQLite store raises, a closed in-memory one goes on working |
| `rows`, `status`, `stamp`, `clock` | the table; `stamp` is what the store orders by: `created_unix`, taken when the record is built (SQLite), or the insertion order (in memory) |
| `reserved`, `inUse` | `_slots_reserved`, `_admission_in_use` (and the semaphore, which moves with it) |
| `leaked` | ghost: permits that no thread holds any more |
| `wpc`, `wjob` | the worker: `top` of the loop, `admit`, `unadmitted`, `claim`, `execute`, `release`, `crashing` (an exception on its way out), `leaving`, `dead` |
| `jpc`, `ypc`, `dpc`, `spc` | submissions, synchronous requests, deletions, `stop()` calls |
| `djob`, `dseen` | what a deletion looked up; with SQLite `dseen` is the copy it decides on |

`Backend` selects the store. It matters in three places: the order of the queue, copies
against live records (`DeleteDecide`), and which errors a closed or failing store raises.

Runner failures are the choice of `failed` in `WorkerSettle`; an exception that no
handler of `_execute_job` catches is `WorkerSettleFails`, which kills the thread.

The end of `stop()` is four steps: `worker_alive` is read, then `executing`
(`_owns_no_execution`, which no lock protects), then STOPPED is claimed under the lock on what
was read, and then the store is closed; or the reaper is armed.
Recovery at start is left to `JobStoreDurable`: here the store starts empty.

### JobStoreDurable and the code

`staged`, `input`, `tmpArt` and `art` are the files `tmp/<id>.upload`,
`jobs/<id>/input`, `artifact.tmp.oas` and `artifact.oas`; `mode` is the process. A
transaction and a rename are atomic and survive the process. `Crash` is enabled in every
state in which the process runs, between any two steps, those of recovery and garbage
collection included; it forgets the program counters and keeps rows and files. `lost`
and `discarded` are ghosts that say for which inputs somebody outside the server, and
for which jobs a client, is to blame.

### ModelCache and the code

The three critical sections of `_get_or_load_model`, the load between them, the sweep
after them, the run under the per-key lock and `_release_model` are separate actions. A
request whose model does not support the device (`RefuseDevice`) releases it without having
taken that lock; which requests those are is left open, where `DeviceMayBeRefused`.
Each load makes a new instance and each `threading.Lock()` a new lock, so that a lock
which was dropped and made anew is told from the old one. Reference counts are natural
numbers for which 0 is "no entry", as `dict.get(key, 0)` reads them.

### ArtifactDelivery and the code

`row`, `stale` and `artifact` are the table, the rows that are older than the TTL, and the
artifact files; `leases` is `_artifact_leases`. A sweep (`_evict_terminal`) has two steps:
it takes the leases under the runtime's lock (`skip` holds what it saw) and evicts under
the store's. Each caller of it, a poll and a download, has its own. A download goes on
from `get_job_artifact` to the background task that releases its lease, and on the other
side of the socket from the open `.part` file to the rename. `server` and `cpc` are the two
sides. The lease is released by the background task of a response that was sent to its end;
`OpenResponse` (the file is gone) and `DropResponse` (nothing is sent, or not all of it) are the
ways in which the task never runs. `Destination` says which downloads save to the same path;
they share one `.part` file there, which each of them may truncate, move or unlink. `part`
and `saved` name such a file by the download that created it, `writers` and `flushed` say who
writes to it and who is through. `GrowStale` is the clock: a row may get older than the
TTL at any time after it is terminal, and touching it makes it young again.

### StreamingPipeline and the code

One step is one iteration of the loop of `run_streaming` or one of its halves: a tile is
taken, screened, forwarded, shown to the verifiers and committed, batched or refined. A
leaf is named by its path from the plan (`#q<index>` at each level), `leaves` is the
ownership tree, `final` its final leaves, `latest` the reducers, `written` the sink,
`cover` and the counters the work ledger, `touched` a ghost: the pixels that went through
the model. A verifier answers with any result that `AnswersOn` has for the layout, with a
status, a coverage and whether its halo error bound is above the tolerance; masks and the advice
of a verifier are chosen freely too. The reducers are the stock one; a plug-in may bring its own,
of which the pipeline asks only `add`, `retire` and `finalize`. `CallbackRaises`
is an exception of any code that is not the pipeline's. The checks of the ownership tree,
the sink and the coverage ledger are in the model, with the state `rejected` behind them.

### TilePool, WorkerStream, Leaderboard and the code

`TilePool` models `parallel_tile_inference` and `multiproc_predict` with one set of
actions, since they differ in four points: what a message is, who reports an error, how
long the parent waits, and what it leaves behind. Processes are started one after the other,
and a `start()` that raises (`StartFails`), or an exception or interrupt in the gathering or the
joins of `multiproc_predict` (`GatherFails`), ends the call as `abandoned`: no handler stops the
processes that run, and the shared memory goes when its server is collected. `multiprocessing` is external: `buffer`
is what a process has put and its feeder thread has not yet written, `pipe` what it has
written; a process that ends by itself flushes its feeder, one that is killed does not.
There may be more workers than tiles, as in `multiproc_predict`; `parallel_tile_inference`
starts at most one for each tile.

`WorkerStream` keeps each thread's place between two of its waits (slot, queue), the
semaphore, the bounded queue and the ledger. A timed `acquire` is two steps: it times out,
and then looks at the failures.

`Leaderboard` has one step per file operation of `submit` and one per end of a query; the
lock is taken and freed by a submitter, and freed by the kernel when it dies. An entry is
its id, its score (or none) and whether that score is an old sum.

### VectorRuns, DenseTiling, ExecutionPlanner and the code

These are operators: what the functions compute from their arguments, with exact fractions
as pairs of integers. `MCDecisions` poses one case per step and compares: scan conversion
with the point-in-polygon rule on pixel centres, grids with the set of pixels they should
tile, blending with a positive weight for every pixel, plans with what the request needs.

### EvidencePublication and the code

`Start` is `main` up to the workspace of the run identity, with the freeze and the run config
as one file. A row is one key of the journal; `known` is `Checkpoint.rows`, read once, and
`journal` the file, in which `broken` marks an identity with a line cut short: whoever loads
it raises, and what is appended behind it joins that line. `OpenFile` and the action that
fills the file are the two halves of `write_text`. From `Gate` on the actions are
`publish_family`, one per file operation: the staging directory, its copies, the `.tmp` copies
of the root and their replacements, the manifest last. The measuring stages are one, the data
members two of the five. `stamp` tells what one process wrote from what another did.
`Accepted` is `verify` of `scripts/verify_industrial_artifacts.py`; the ghost `crowded` holds
the processes that ran beside another.

### CanonicalPromotion and the code

`Examine` is `promotion_blockers` with the workspace staged and verified: what depends on
anything shared is `_target_blockers`. `OpenMember` and `FillMember` are the `copy2` of
`promote_canonical_family`, `VerifyRoot` the verifier behind it. `EditFile` and `Retire` are
the hands that the docstring warns of and points to. The ghost `overlapped` says that two
promotions ran at the same time.

### Seeded faults

In front of some definitions stands a variant marked *Seeded fault*: a plausible slip in that
piece of code (a dropped guard, an off-by-one, a missing reset, a swapped order). No
specification uses it. Substituted for the definition that follows it, it must make the
property it is paired with in `PROJECT.json` fail; that every property has one shows
that the property depends on the code and not on the shape of the model.

## 3. What TLC checks

| Run | Specification and bounds | Shows |
|---|---|---|
| `RuntimeSafety` | SQLite; two jobs for a queue of one, one synchronous request and the worker for two permits, a deletion, two `stop()` calls, one storage error; 3.24 million states | the safety invariants, and that `ServerRuntime` implements `JobLifecycle` |
| `RuntimeLiveness` | SQLite; two jobs, a synchronous request, one permit, a deletion, one `stop()`, which is fair; no storage error; 419,550 states | `StopReturns`; and `QueuedJobIsTakenUp` and `DrainStops` as long as the runtime's threads run |
| `StoreCrashes` | two jobs, two crashes, one storage error, one lost input; fair start-up, worker and shutdown | the crash-safety invariants, the lifecycle across restarts, `QueuedIsSettled` |
| `CacheOfFour` | four requests, two keys, capacity one, loads that may fail and devices that may be refused, fair requests; 243,779 states | what holds of counts, parking, teardown and locks, and that each request ends |
| `Protocols` | four tiles and three processes, in both forms; seven tiles, three threads, a queue of one; three submissions and two queries; a poll, two downloads to one path and a DELETE of a job, three at a time, or with a second job in a history of one; 523,485 states | `TilePool`, `WorkerStream`, `Leaderboard` and `ArtifactDelivery` |
| `Evidence` | two processes, two run identities, two rows, two starts and two faults; two promoters of two families of three files, four promotions and three troubles; layouts of up to two polygons on a grid of four, grids of up to ten pixels, every request to the planner; a chip of 3 by 2 pixels, cores of 2, halo 1, one verifier with three answers on each of four layouts, two refinements per tile, batches of 2, callbacks that may raise; 2.24 million states | `EvidencePublication`, `CanonicalPromotion`, the pure modules against their references, and the five properties of the pipeline, the refinement of `ChipCover` included |

The invariants of `RuntimeSafety` are proved for the in-memory store too, except
`ExecutingJobIsRunning` and `ImplementsLifecycle`, which are claims about SQLite: the
in-memory store hands out its live records and does not keep them (see below).

`AdmissionIsAccounted` and `AcceptedJobIsSafe` are conjunctions, whose parts are theorems of
their own (section 4). The permits are counted with those that failed claims have lost
(`leaked`): `AdmissionIsAccounted` shows that there is no other way to lose one, and not that
none is lost.

`LocksExclude` of `CacheOfFour` is conditional. Mutual exclusion of
loads and of runs, and that no model is freed in use, hold without a condition for three
requests; from four on they hold until a teardown drops the lock of a key that is wanted
again, which the history variable `dropped` of `MCModelCache` records. `CacheFreedInUse`
(below) shows what follows when it does.

**Bounds.** Each run has two of each thing that races (jobs, requests, `stop()` calls,
downloads) or one where one suffices, a capacity that can be reached and exceeded (queue
depth, permits and history of one or two), and one or two faults or crashes. The races in
the server are between two parties: two submissions for the last slot, a submission and a
deletion around one claim, a second `stop()` around the first, two downloads of one artifact
around a sweep of a third party, two requests for a key with one to evict it. Two crashes let
the second one hit the recovery from the first. In the cache four requests are needed for
the longest race: one that uses the model first, one that evicts it and is slow to sweep,
one that loads it again meanwhile and one that evicts it a second time. The chip of the
streaming run has a full core and a cut one, so that subdivision meets even, odd and single
pixels, and two refinements make grandchildren; its layouts are none, a corner of either tile and
the whole chip, on which a verifier may pass, fail and be unsure, cover all or a part, and pass
with its error bound above the tolerance. The scenes of `Protocols` about one job have all the
callers whose races meet on it three at a time: two downloads and a DELETE, two downloads and a
poll; those with a second job make the history overflow. Three processes for four tiles make one
worker with two tiles and two with one. A stream of seven tiles over three threads with four
slots is the smallest in which threads can starve a third one with a tile to spare. The grid
of four pixels of `MCDecisions` has triangles and trapezoids with every fraction of small
slopes, holes that touch their outline, and objects that overlap. `MaxCrashes`, `MaxFaults`
and `MaxLosses` bound the environment; jobs and requests are used up, so that every counter
is bounded by them. In `Evidence` two starts are a run
and its resumption, or two runs beside each other, of one identity or of two; two rows make
one that is resumed and one that is not, and two faults a disk that fills and a kill. Four
promotions with three troubles let one break off, be retired and be done again by the other.
`MCProtocols` begins in one of its four protocols, with the others
at rest, as they share nothing, and `MCEvidence` stays in the one that moves first; the product
would show nothing more. The configurations that
set `CHECK_DEADLOCK FALSE` are of systems that come to rest: all requests answered, the
runtime stopped, the call over or the crash budget used.

**Fairness.** `StopperSpec` of `ServerRuntime` assumes only that a `stop()` that was called
goes on, which is the point of a grace period: `StopReturns` holds although everything it waits
for may hang. The other two liveness properties have as an antecedent what they need besides,
`OwnThreadsRun`: the worker, an admitted run and the reaper go on, as threads that the process
schedules. Nothing is assumed of clients: an upload or a deletion may never go on, and `stop()`
need not be called. `FairSpec` is both. In `JobStoreDurable` a process that is down is started again
and its worker and shutdown go on; the number of crashes is bounded, as no job ends under
a process that always dies first. In `ArtifactDelivery` only the polling client goes on, and
time passes; `WaitEnds` is about a `wait_for_job` that was given a timeout, as the
default of the code is. In `TilePool` the scheduler runs every process and a prediction ends
or raises; in `WorkerStream` it runs every thread. Weak fairness suffices everywhere, but it
is stated of each process, each synchronous request and each `stop()` by itself. The slot of
`WorkerStream` is the one place where strong fairness might seem due, a semaphore serving
whoever comes; the run shows that the call hangs or not by what the threads do before, so
that the weaker assumption loses nothing.

**Exceptions stated in a property.** Five properties name what the code does not keep, so that
they hold of the rest: `AdmissionIsAccounted` the permits lost by failed claims;
`LeasesAreAccounted` the leases of responses that ended without their background task, which
keep their job from retention for ever; `LeasedArtifactIsKept` the deletions, which do not look at
leases; `NothingLeftBehind` the calls that `start()` or an interrupt of `multiproc_predict` has
ended; `CallEnds` the `multiproc_predict` that has lost a worker. `ReportIsOfFinalLeaves` states
the verdict as `finalize` makes it; what the documents say of partial cover is
`PartialCoverBlocksPass` below. `RankingIsSound` is about scores; entries whose scores tie come in
any order, where `tracker.py:201-211` goes on to compare further columns.

### What the code does otherwise than it says

Each of these runs checks one sentence of a comment or a document, and TLC shows a
behaviour of the code that contradicts it. `PROJECT.json` quotes them under `findings`.

| Run | What happens |
|---|---|
| `OrphanRunning` | the worker claims another job than it peeked, and leaves it RUNNING for ever |
| `CacheFreedInUse` | the sweep after an insertion drops the count of a model that was loaded again meanwhile, and a later eviction frees it in use |
| `StreamHangs` | a worker that is slow to start is starved of slots by workers whose tiles have to wait for its own, and the stream never ends |
| `PartialCoverPasses` | each tile that claims coverage is covered in part, so that none is covered: the chip's coverage becomes INCONCLUSIVE instead of PARTIAL_COVER, which blocks nothing, and the report is PASS |
| `PlanFailsOpen` | a layout that the probe cannot measure has the shape (0, 0), hence a footprint of 0 bytes, and `auto` plans it dense whatever its size and the policy |
| `PartialFileSaved` | of two downloads to one destination the first moves the `.part` file into place while the second, which has truncated it, still writes to it |

The hang of `StreamHangs` is the code's: with two workers, six tiles, a queue depth of one
and a `forward_factory` that takes a second for worker 0, `run_multi_worker_stream` does
not return. `StreamEndsOrStarves` shows that there is no other way to hang.

The modules define more properties that the code does not have. Each can be seen by naming
it in a configuration of its own:

- `FailedClaimIsRetried` (`ServerRuntimeProps`, one permit, one fault, `FairSpec`): the
  handler of a failing `claim_next` keeps the permit, and nothing is claimed again, where
  `runtime.py:734` logs "job claim failed; retrying after poll interval".
- `ReaperCompletesStop` (`FairSpec`, a grace that may expire): the reaper looks once, before
  the worker thread has ended, skips STOPPED and does not look again; `runtime.py:26-27` says
  that a reaper completes the transition.
- `QueuedWorkloadSurvives` (`JobStoreDurableProps`): an orderly `stop()` cancels the durable
  queue, which `docs/server-api-contract.md:21-23` lets survive a restart.
- `EvictedFilesAreReclaimed`: both callers of `_evict_terminal` drop the directories it
  returns (`runtime.py:602`, `:636`); the files stay until the next start collects them.
  Were they removed there, the sweep's stale view of the leases would take leased files: the
  fault seeded for `LeasedArtifactIsKept` does just that.
- `SkippedContextIsEmpty` (`StreamingPipelineProps`, a screening run): the children of a tile
  at the edge of the chip inherit its clipped halo and are skipped on a context that is too
  small, where `pipeline.py:434-437` says that windows are never clipped to the parent's.

- `MixedFamilyNeverAppears` (`EvidencePublication`): the members of the public root are
  replaced one by one, so that a second publication shows files of both runs while it lasts
  and leaves them when it is killed, where `write_artifact`
  (`run_industrial_benchmark.py:1011-1013`) says that "a partial or mixed-run family can never
  appear there". `publish_family` says what holds instead, and `AcceptedFamilyIsOnRecord` checks
  it: readers must validate first.
- `DriftIsNotOverwritten` (`CanonicalPromotion`): the target is compared by `SHA256SUMS.txt`
  alone; a file that was edited under an unchanged one is overwritten by the next promotion,
  where `promote_industrial_v2_artifacts.py:23-25` says that a drifted authority never is.
- `BrokenOffIsUntouched` (`CanonicalPromotion`): a promotion that ends with an exception during
  the copies exits with 1 and leaves files behind, where lines 27-28 say "nonzero = refused,
  nothing written to the canonical root". Later promotions refuse that root until it is retired.

The same models show smaller disagreements:

- after a journal line was cut short, by a full disk or by a loss of power, no run of that
  identity starts again, where `run_industrial_benchmark.py:18` says "safe to interrupt and
  resume"; a process that had read the journal before goes on, and what it appends is lost
  behind the broken line;
- a kill between the copy and the replacement of a member leaves an `industrial-*.tmp` file,
  with which the verifier refuses a root that is otherwise as it was;
- two publications at a time remove each other's `.publish-staging`;

- a worker admitted before `stop()` began claims and starts a job after the drain has begun
  (`runtime.py:427` says it must never);
- with the in-memory store a job claimed between the two tests of `delete_job` is removed
  while it runs (`runtime.py:656`: "running jobs are refused");
- a worker thread killed by a storage error never sets `_worker_exited`, and the reaper
  waits for ever; a `stop()` overtaken by a second one raises on the closed store;
- a commit refused by the drain leaves `jobs/<id>/input` on disk until the next start
  (`app.py:1119`: no un-tracked bytes);
- a lease is never given back when the response finds its file gone, is never sent or is cut
  short, and its job is never evicted again (`app.py:1168`);
- a parked model that is taken back may exceed `_MODEL_CACHE_CAP`;
- an edge tile certified by its kernel tail is CERTIFIED although its halo was clipped;
- a tolerance of 0.0 falls back to the default, and an upper bound of 0.0 is forgotten by
  the fold (`verification.py`, `or` on numbers);
- `subdivide` changes its state before it meets a duplicate child, against its docstring,
  and does not test that children are disjoint; `write_core` marks a tile before it
  validates it. `ChecksNeverFire` shows that the pipeline never gets there;
- `multiproc_predict` waits for ever when a worker dies without its answer (`Silent` in
  `CallEnds` is exactly this case), and leaves its processes running when it is interrupted;
- after the sink of a worker stream raises, nobody tells the threads, which wait as daemons
  until the process ends; the docstring bounds the ledger by queue depth times workers, the
  code by their sum.

## 4. What is proved

### The runtime

`ServerRuntime_proofs` proves, for any finite sets of jobs, requests and `stop()`
callers, any set of deletions, any capacities, either backend and any number of storage errors:

| Theorem | Statement |
|---|---|
| `TypeCorrect` | `Spec => []TypeOK` |
| `StopSound` | `Spec => []StopIsSound`, of `StoppedIsSound` and `StoreIsClosedLast` |
| `DrainIsComplete` | `Spec => []DrainMissesNothing` |
| `CapacitySound` | `Spec => []CapacityAccounted`, of `QueueBound` and `ReservationBalance` |
| `PermitBalance` | `Spec => []PermitsAccounted` |
| `AdmissionBalances` | `Spec => []AdmissionIsAccounted`, of these two |
| `ExecutingJobKeepsItsRow` | `Spec => []ExecutingJobIsRunning` |
| `RuntimeImplementsLifecycle` | with SQLite, `Spec => ImplementsLifecycle` |

The assumptions are those of `RuntimeAssumption` (a finite set of jobs and of requests,
positive capacities) and `GraceAssumption`; TLC evaluates both in every run.

*Shutdown* (`ShutdownInv`). That STOPPED owns nothing is not inductive: the verdict of
`stop()` and the close of the store are separate steps, and the reaper decides on what
it saw before. The strengthening says what each of them may rely on: a stopper past its
signal has left RUNNING behind for good, so that no new run is admitted; `_worker_exited`
implies a worker past its last access; a reaper in its last step has seen no run
executing, and none can have begun since.

*Drain.* `DrainMissesNothing` is inductive with `ShutdownInv`: only a commit queues a job
and it needs RUNNING, leaving RUNNING starts a drain, and a drain ends at an empty queue.

*Capacity* (`CapacityInv`). `_slots_reserved` is the number of uploads in their with
block, and queued rows and slots together stay within the depth. Only a commit adds a
queued row, and it consumes the slot of the upload that commits; everything else only
takes rows out (`QueueShrinks`) and leaves the reservations alone (`ReservationFrame`).

*Permits.* The counter is the number of executing requests, plus the worker's permit
between admission and release, plus those that failed claims lost.

*Ownership* (`OwnershipInv`). A deletion acts on a copy that may be stale. The invariant
says by how much: a row seen terminal is terminal still, and a deletion that reaches the
removal step has a terminal row, since only a QUEUED one can be cancelled and a RUNNING
one is refused by `CanTransition`. Hence the job in execution keeps its row.

*Refinement.* The mapping `Phase` gives each job its status while it has a row, `gone`
once its submission was accepted and the row is no longer there, `absent` before. A
commit is `Accept`, and has room by `CapacityInv`; every other step moves rows along legal
edges or removes terminal ones (`StepMovesRows`, from `OwnershipInv`), which is
`Advance` or a stutter.

### The durable store

`JobStoreDurable_proofs` proves, for any finite set of jobs and any numbers of crashes,
storage errors and lost inputs (`StoreAssumption`):

| Theorem | Statement |
|---|---|
| `TypeCorrect` | `Spec => []TypeOK` |
| `ArtifactsWhole` | `Spec => []ArtifactsAreWhole`, of `SucceededIsServable` and `ArtifactIsWhole` |
| `AcceptedIsExecutable` | `Spec => []AcceptedJobIsExecutable`, of `AcknowledgedIsDurable` and `QueuedIsExecutable` |
| `NeverExecutedTwice` | `Spec => []ExecutedAtMostOnce` |
| `AcceptedIsSafe` | `Spec => []AcceptedJobIsSafe`, of these two |
| `RemovalIsSafe` | `Spec => []RemovalIsOfRemovedRows` |
| `ServesSettled` | `Spec => ServesFromSettledStore` |
| `StoreImplementsLifecycle` | `Spec => ImplementsLifecycle` |

None of the invariants is inductive alone; their conjunction with three more is
(`StoreInv`). `SubmissionInv` relates a submission to the table: before its row is
inserted a job is known to nobody, so that no deletion or drain removes the input that
it has published, and the row that it answers for can only go once settled. `WorkerInv`
ties the row and the files of the job in the worker's hands to the worker's place: the
row is RUNNING, the temp file complete before the rename and the artifact complete
before the commit; a RUNNING row cannot be evicted or deleted, so nobody removes these
files meanwhile. It also says that a QUEUED job has never run, and as neither recovery nor
anything else leads back to QUEUED, no job runs twice. `ProcessInv` says what a start may
rely on: nothing of the old process is left, and past the recovery transaction no row is
RUNNING, however many recoveries were cut short before. With it, `StartServing`, the only
step into service (`ServesSettled`), finds a settled table.

The refinement maps a job to its status while it has a row, to `gone` when the row went
after it was settled, and to `absent` before its INSERT. The INSERT is `Accept`; every
other step, the recovery of many rows at once included, follows legal edges
(`StepMovesRows`). The durable store sets no bound on the queue: the depth is that of
`ServerRuntime`.

### The model cache

`ModelCache_proofs` proves what holds of the cache for any requests, keys and capacity
(`CacheAssumption`):

| Theorem | Statement |
|---|---|
| `CountsAreBalanced` | `Spec => []ReferencesAreAccounted`, of `CountsHaveHolders` and `ParkedWillBeReleased` |
| `TeardownHappensOnce` | `Spec => []TeardownIsFinal` |
| `LocksAreExclusive` | `MCSpec => []LocksExclude` |

*Counts.* `RefcountsHaveHolders` is inductive: each step that counts makes a holder of the
same key (`HolderJoins`), each release takes one from both (`HolderLeaves`), and a sweep only
lowers counts. `ParkedIsHeld` needs it twice: an evicted model is parked because its
count is positive, hence somebody holds it; and a release that leaves it parked found a
count above one, hence another holder. What fails from four requests on (section 3) is the
converse: a holder need not be counted.

*Instances* (`InstanceInv`). An instance is in one place at a time, and there once: loaded and
not inserted yet (`FreshOnce`), cached (`CachedOnce`), parked (`ParkedOnce`), with a request
that will tear it down (`DoomedOnce`), or torn down (`TornOnce`). Each action that touches the
dictionaries moves instances from one of these to the next (`InsertMoves`, `UnparkMoves`,
`ReleaseMoves`, `DoomedIsTorn`), and no action leads back from the last two, so that a teardown
happens once and to nothing that can be found. The order of the cache comes in through `LruInv`: the
sequence `lru` has each cached key once, which `move_to_end` and the eviction from the front
preserve (`MovedToEnd`, `PutAtEnd`, `FrontEvicted`).

*Locks* (`HolderInv`, `WantedInv`). That whoever is at a lock holds it (`HolderInv`) holds
always. What a lock protects holds only until one is dropped whose key is wanted again
(`CacheFreedInUse` shows the way there), which is the history variable `dropped`. Until then,
`WantedInv`: a key's model is cached or parked, never both, and its lock is kept with it;
whoever comes for the key or holds it knows that very lock; who loads it finds nobody else's;
who holds it has the very instance; and each holder is counted, so that what nobody counts
nobody uses. A sweep and a last release that pass the guard of `dropped` find nobody
(`WantedSwept`, `WantedReleased`). Two loads of one key, or two runs of one instance, would then
hold one lock.

### Delivery

`ArtifactDelivery_proofs` proves, for any number of jobs, pollers, deletions and history, any
finite set of downloads and any destinations (`DeliveryAssumption`):

| Theorem | Statement |
|---|---|
| `LeasesBalance` | `DeliverySpec => []LeasesAreAccounted` |
| `PromisedFileIsKept` | `DeliverySpec => []LeasedArtifactIsKept` |
| `PartsAreTemporary` | `DeliverySpec => []NoPartIsLeftBehind` |

Leases balance because a download enters the leased places by the step that counts it and
leaves them by the one that gives the lease back, or stays in one of the three places where
nobody gives it back. A promised file is kept because a lease is
taken of a file that is there, in one step with the test, and of everything that removes
files only a deletion is left, sweeps taking rows alone. The last one (`PartInv`) follows a destination
instead of a download: whoever opens a `.part` file is under way, and whoever ends, well or not,
takes away what is there, also when it is another's. What is saved need not be whole
(`PartialFileSaved`).

### The streaming pipeline

`TileGeometry_proofs` proves of the operators on boxes, for every chip, core size and number
of parts (each is an `ASSUME ... PROVE` over the operators):

| Theorem | Statement |
|---|---|
| `CoreGridTiles` | `CoreGrid` is an exact cover of the chip: each pixel in one core, no core empty |
| `PartitionTiles` | `PartitionCore` is an exact cover of the core |
| `EveryPixelHasACore` | whichever cores of a chip are split, and into however many parts each, each pixel is in exactly one leaf: a core that is not split, or one child of one that is |
| `SplitConserves` | the parts of a core are an exact cover that the check of the ownership tree accepts |

An axis is cut at increasing places, and a place between two cuts is in one interval; a grid
is the product of two axes read row by row, whose index is a quotient and a remainder
(`Quotient`, `RowByRow`). Sums over sequences are recursive functions, of which the provers
can only unfold a step. What they compute is shown by the least index at which they would
compute something else, and by showing that no other function satisfies the same equations.

`StreamingPipeline_proofs` proves, for every chip, core size, halo, budget, subdivision, batch
size and set of verifiers (`PipelineAssumption`):

| Theorem | Statement |
|---|---|
| `PipelineInvariant` | `Spec => []PipelineInv` |
| `PipelineIsAccepted` | `Spec => []ChecksNeverFire` |
| `LedgersCount` | `Spec => []LedgersAreExact` |
| `ReportIsExact` | `Spec => []ReportIsOfFinalLeaves` |
| `BudgetIsShared` | `Spec => []RefinementIsBounded` |
| `PipelineCovers` | `Spec => ImplementsCover` |

None of the properties is inductive; `PipelineInv` is their common strengthening. `WorkInv`: a
final leaf is committed, or waits on the stack or in the batch, once and with the core it is
owned by. `FreshInv`: identifiers grow from the plan, and only what is no longer final has
children, so that a new child's identifier is nobody's. `CoverInv`: the final leaves tile the
tiles of the plan that were started. With these three (`TreeInv`) the ownership tree and the
sink never reject: the leaves that a step subdivides or commits are where the tree expects
them, and by `PartitionTiles` the children conserve the parent. `SeenInv` says of each leaf
whether its pixels went through the model, and `UnionInv` that the recorded cores are apart and
have exactly these pixels, which is why the fold that adds up `unique_forward_pixels` is exact
for the counter; forwarding a queue keeps both, whatever its order. `VerdictInv` gives each
session a result of each committed leaf and of no leaf that was retired, and keeps the batch
empty where there are verifiers, since a batched tile is committed without being shown to any.
`BudgetInv` bounds the final leaves by what the tiles started so far may add, less what the
current one may still spend, and the depth of what waits by what is spent.

In the refinement a step of `ChipCover` decides the pixels of the leaves that the step
commits (`CommitDecides`), and a report finishes it: by then nothing waits, so that the committed
leaves are the final ones, which tile the plan, which tiles the chip.

### The pool of processes

`Protocols_proofs` proves, for any number of tiles and of workers (`PoolAssumption`):

| Theorem | Statement |
|---|---|
| `OutcomesAreJust` | `PoolSpec => []OutcomeIsJust` |
| `NothingStays` | `PoolSpec => []NothingLeftBehind` |

`LossInv` says where a tile is while nothing has failed: owed by the worker of its shard, in
a message of its feeder, in the pipe, or with the parent (`WorkerLosesNothing`). When the
parent of `parallel_tile_inference` finds all workers dead and the pipe empty there is no
place left, hence a worker has failed (`AllArrived`). `multiproc_predict` counts instead:
`CountInv` has at most one message per worker that has gone, so that the last of them
(`AllAnswered`) means that every worker has gone, that every shard is there, and that the
shared memory is nobody's. A process that was not started owes its whole shard. Of the parent
of an abandoned call the invariant says only that it has ended.

### The worker stream

`Protocols_proofs` proves, for any plan, number of workers and queue depth
(`StreamAssumption`):

| Theorem | Statement |
|---|---|
| `BackpressureHolds` | `StreamSpec => []ResidentIsBounded` |
| `OutcomeHolds` | `StreamSpec => []OutcomeIsEarned` |

The invariant of the first partitions the plan: each tile is still in a thread's shard, with
the thread, in the queue, in the ledger, committed, or lost with a thread that raised, and in
one of these places only; the slots that are free or owed and the tiles that are resident then
add up to the cap. The second adds what the end of the loop rests on (`OutcomeInv`): the
sentinels taken and those in the queue are as many as the threads that are over
(`SentinelsCounted`), once all are over the last thing in the queue is one of them
(`SentinelIsLast`), and while nobody raises, each tile is to be taken, resident or committed
(`NoneMissed`). A loop that has counted a sentinel per thread thus has the whole plan, unless
a thread or the sink raised.

### The leaderboard

`Protocols_proofs` proves, for any submitters, readers, scores and files of other
releases (`LeaderboardAssumption`: a score is one number or none, and a file of the current
version has no sums):

| Theorem | Statement |
|---|---|
| `NoSubmissionIsLost` | `Spec => []SubmissionsAreKept` |
| `RankingHolds` | `Spec => []RankingIsSound` |

*Submissions.* The file changes only at the replacement, whose submitter has held the lock
since it read; hence what it writes has every id of the file it replaces. An id that was
returned was written before, and an entry never leaves the file.

*Ranking.* "Ahead" is a strict total order of the positions of a list (`AheadIsAnOrder`), though
"ranks before" is none of the scores, which tie. Hence each entry is behind fewer than there are
entries and no two are behind as many (`StandingsAreTheOrder`), so that by the pigeonhole each
place is taken once (`RankingIsASort`): the ranked list has all entries, and a better score comes
first. `QueryInv` adds that a file of the current version, and a draft that will become one,
has no sum in it, and that whatever a query has to return is in the file it reads.

### Evidence

`Evidence_proofs` proves, for any harnesses, artifacts, rows and numbers of restarts
(`EvidenceAssumption`), and for any promoters, families and files and any numbers of
promotions and troubles (`PromotionAssumption`):

| Theorem | Statement |
|---|---|
| `AcceptedIsOnRecord` | `EvidenceSpec => []AcceptedFamilyIsOnRecord` |
| `PublicationAccepted` | `EvidenceSpec => PublicationIsAccepted` |
| `RootIsNeverMixed` | `PromotionSpec => []RootIsOfOneRun` |

*What the verifier accepts* (`EvidenceInv`). Every artifact, in a workspace, in the staging
directory, in a temporary file or in the root, is whole and of one identity, and its rows are on
record in that identity's journal unless a line there was cut short (`CopiesAreSound`). It was
collected so: each row was in the journal when it was in memory, or is of the resumed
journal (`Collected`), and journals only grow (`JournalsGrow`).

*An undisturbed publication* (`LoneInv`). A process that nobody runs beside is the only one
under way (`NoneBeside`), and its workspace, its staging directory and the members it has
replaced in the root are as it left them (`OwnWork`). At the end of the publication that is
the whole family, whatever the root held before.

*The canonical root.* That it is of one run says nothing of the next copy, which could be
of another. `PromoterOwnsRoot` adds that one promotion is under way at most and that whatever
the root has of any run is of the run being promoted. It is established by the examination: an
empty root has nothing, and a full one with the same `SHA256SUMS.txt` has, by `RootIsOfOneRun`
itself, nothing of another run (`FreeTargetIsOwn`).

### The decisions

`Evidence_proofs` proves, for any sizes of chips, axes, layouts and memory policies
(`DecisionsAssumption`), of the specification `MCSpec` of `MCEvidence`, in which the pure
algorithms are posed one question each:

| Theorem | Statement |
|---|---|
| `PlansAreSound` | `MCSpec => []PlanIsSound` |
| `PixelsAreTiled` | `MCSpec => []EveryPixelIsTiled` |
| `RunsAreMasked` | `MCSpec => []RunsAreTheMask` |
| `NoPixelIsBlack` | the weights that a pixel of the dense blend is divided by do not add up to zero |

*The planner.* A plan is streaming exactly when the list of blockers is empty, and a refusal
names the first of them; each blocker says what is missing, and `auto` asks for the list only of a
layout whose raster is over the policy (`PlanIsOfRequest`). The list is the same under every mode
and policy but for what `auto` adds, and a tighter policy is exceeded by whatever exceeds a wider
one; hence what `auto` streams can be asked for, and what it refuses it refuses under every tighter
policy.

*The dense grid.* The pieces of an axis reach its end, clamped or not (`PiecesOfAxis`). The
last piece that begins at or before a pixel holds it, and counts: were its ramp at zero there,
the pixel would be in the overlap, where the piece before it counts (`PixelHasAPiece`). A sum over a
finite set of natural numbers is no less than each of them (`SumIsNoLess`).

*The streaming grid.* `CoreGridCovers` and `SplitConserves` of `TileGeometry_proofs`; the window
of a core is clamped to the chip and thus widens it by the halo at most (`WindowIsAround`).

### Polygons and runs

The layouts that `MCDecisions` asks about are a triangle anywhere on the chip and one of five
shapes. `RunsAreMasked` rests on theorems of `TileGeometry_proofs` that know nothing of these: they
are about any finite set of polygons (`IsLayout`: loops of integer points, convex or not,
crossing themselves or not, with any holes), any row, width and height of a band.

| Theorem | Statement |
|---|---|
| `PolygonSpansAreInside` | `polygon_row_spans` has exactly the pixels whose centres are inside the outline and in no hole |
| `OwnedRowIsExact` | the runs of a row: a pixel with owners is in one run, which has them; one without is in none; runs that touch have different owners |
| `WindowIsExact` | `read_window` returns exactly the pixels of the window that are inside some polygon |
| `BoxesCoverForeground` | the Manhattan boxes of a core are an exact cover of its foreground, whatever the foreground is |

*Scanlines.* That a pixel is inside a loop means that an odd number of edges is to its left. The
crossings are paired two by two in their order, so a pixel is in a span exactly if an odd number of
crossings is at or before it (`TwoByTwo`): provided that rounding up a crossing keeps it on its side of
every pixel centre (`FirstIsRight`), and that the crossings of a row are even in number
(`CrossingsAreEven`), because a closed walk changes sides an even number of times
(`ChangesAreEven`). Cuts take from the spans what the hole spans, in any order (`CutsLeaveTheRest`).

*The union.* Active owners are told by counts of spans begun and ended (`ActiveOwnersAreOver`),
and between two neighbouring ends nothing changes (`NothingChangesBetween`). The sweep keeps
(`SweptTo`): the runs so far are in order, never meet with the same owners, end at or before
the place swept to, and cover what they should (`SweepStep`). A polygon over a pixel is in the band
and the rows by which it is looked up (`InsideIsCandidate`), so that the index drops none.

*The sink.* Between rows it holds boxes that are closed and runs that are open (`Holds`): the open
runs are the runs of the row above, and every pixel above is in one box or under one
open run. A row keeps this (`RowStep`) because the runs of a row are the longest ones
(`AreRunsOf`), so two that share a pixel are the same.

Holes, ends and rows are consumed by folds. A fold is a function on the parts of a set that is
defined by what it is for a smaller part (`PartsOfFold`). `FoldExists` shows that there is one, and that
what each of its steps preserves holds of it, by the least size of a part for which it would
not; `FoldIsOne` shows that there is no other. The predicate that is preserved is given as a
set of pairs, which the provers can instantiate where an operator they cannot.

### Model-checked only

- Liveness, which rests on `ENABLED` and fairness: `QueuedJobIsTakenUp`, `DrainStops`,
  `StopReturns`, `QueuedIsSettled`, `EveryRequestEnds`, `WaitEnds`, `CallEnds` and
  `StreamEndsOrStarves`.

Every invariant and action property of the passing runs is stated by a theorem above, the
three refinements (runtime, durable store, pipeline) among them. No module that is proved about
reaches a RECURSIVE operator.

## 5. What is not modelled, and why

- Tensors, optics, models, metrics, resist: floating-point code that a model checker
  over finite sets says nothing about.
- Layout formats, the command line, plots, plug-in registration, metrics and log lines:
  input and output without a protocol.
- The clock. TTL and history retention appear as "a terminal row may be evicted at any
  time" or "a row may grow stale at any time", grace periods as "may expire at any time".
  Every real schedule is among these.
- `_wake` notifications. The worker polls, so that a lost wake-up costs time only; the
  model's worker may look at any time.
- Power failures that lose a synced rename; two processes opening one state directory; a
  process killed in the middle of a write to a pipe.
- Of the evidence: the stages of measurement apart, a publication by `--stage manifest` alone,
  the progress and log files, the claims, and two publications that overlap inside the copy of
  one file, which would tear it; a file counts as written whole or not at all.
- The runner scripts of `benchmarks/industrial-scale`; data downloads; certificates, digests
  and layout ingestion.

Most of the repository by lines is numeric: optics, resist, ILT and OPC models, metrics,
phase diagrams, training scripts. These files have no protocol; what could be wrong in them
is a number. That is why the modelled share of the whole stays small, while every component
with shared state, concurrency, crash recovery or a decision over cases has a module.

## 6. Plan

1. *Done:* the modules of section 2 and the theorems of section 4, among them every safety
   property that a run checks.
2. Of the liveness properties, the safety half that a proof can reach: that no state short of
   the goal is stuck, as an invariant over the guards.
3. The hazards without a property: the claim of a worker against `stop()`, an exception of the
   store that ends the worker thread, directories of evicted rows, the count queries outside the
   connection lock.
