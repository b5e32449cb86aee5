--------------------------- MODULE ArtifactDelivery ---------------------------
(***************************************************************************)
(* From a terminal job to a file at the client: polling (wait_for_job against   *)
(* get_job), downloading (download_artifact against the artifact handler and    *)
(* its lease), DELETE, and the retention sweep that polls and downloads drive.  *)
(* Each request runs on its own thread of the server; a step is what happens    *)
(* under one lock, one statement of the store, or one file operation.           *)
(*                                                                             *)
(* Jobs are numbered by creation, the order in which retention goes through     *)
(* them.  Time is a row growing older than its TTL, and a deadline passing.     *)
(***************************************************************************)
EXTENDS JobStates, Naturals, FiniteSetsExt, SequencesExt

CONSTANTS
  NumJobs, HistoryCap,
  Pollers, Downloads, Deleters,
  JobOf,           \* the job each of them is about
  Destination      \* the path each download saves to

Jobs == 1 .. NumJobs
Callers == Pollers \cup Downloads \cup Deleters
Paths == {Destination[d] : d \in Downloads}
Nothing == "none"

ASSUME DeliveryAssumption ==
  /\ NumJobs \in Nat \ {0} /\ HistoryCap \in Nat
  /\ Pollers \cap Downloads = {} /\ Pollers \cap Deleters = {} /\ Downloads \cap Deleters = {}
  /\ JobOf \in [Callers -> Jobs] /\ DOMAIN Destination = Downloads
  /\ Nothing \notin Downloads /\ IsFiniteSet(Downloads)

VARIABLES
  row,             \* status of each job in the store, or "none"
  stale,           \* jobs whose last access is longer ago than the TTL
  artifact,        \* jobs whose output file is on disk
  leases,          \* _artifact_leases
  skip,            \* per request: the leases a sweep of it has seen
  server,          \* server side of each request, and the poll loop of a poller
  late,            \* pollers whose deadline has passed
  cpc,             \* client side of each download
  part, saved,     \* per path: the file at path.part and at path, by its creator
  writers, flushed \* per file: who opened it; the downloads that wrote all of theirs

store == <<row, stale, artifact>>
client == <<cpc, part, saved, writers, flushed>>
deliveryVars == <<store, leases, skip, server, late, client>>

\* Before anything is asked: the jobs that were submitted, and the callers that will come.
Expecting(jobs, come) ==
  /\ row = [j \in Jobs |-> IF j \in jobs THEN "queued" ELSE Nothing] /\ stale = {} /\ artifact = {}
  /\ leases = [j \in Jobs |-> 0]
  /\ skip = [c \in Pollers \cup Downloads |-> {}]
  /\ server = [c \in Callers |-> IF c \in come THEN "begin" ELSE "absent"] /\ late = {}
  /\ cpc = [d \in Downloads |-> IF d \in come THEN "idle" ELSE "absent"]
  /\ part = [p \in Paths |-> Nothing] /\ saved = [p \in Paths |-> Nothing]
  /\ writers = [d \in Downloads |-> {}] /\ flushed = {}

DeliveryInit == \E jobs \in SUBSET Jobs, come \in SUBSET Callers : Expecting(jobs, come)

Proceed(c, from, to) == server[c] = from /\ server' = [server EXCEPT ![c] = to]

-----------------------------------------------------------------------------
(* The worker and the clock                                                    *)

ClaimJob(j) ==
  /\ row[j] = "queued" /\ row' = [row EXCEPT ![j] = "running"]
  /\ UNCHANGED <<stale, artifact, leases, skip, server, late, client>>

FinishJob(j) ==
  /\ row[j] = "running"
  /\ \E s \in {"succeeded", "failed"} :
       /\ row' = [row EXCEPT ![j] = s]
       /\ artifact' = IF s = "succeeded" THEN artifact \cup {j} ELSE artifact
  /\ UNCHANGED <<stale, leases, skip, server, late, client>>

GrowStale(j) ==
  /\ row[j] \in Terminal /\ j \notin stale /\ stale' = stale \cup {j}
  /\ UNCHANGED <<row, artifact, leases, skip, server, late, client>>

-----------------------------------------------------------------------------
(* The retention sweep                                                         *)

\* evict_terminal, oldest first: terminal, not leased, and too many or too old.
\* Both callers drop the directories it reports, so no file goes.
Evict(rows, leased) ==
  LET Doomed(r, j) == /\ r[j] \in Terminal /\ j \notin leased
                      /\ Cardinality({k \in Jobs : r[k] # Nothing}) > HistoryCap \/ j \in stale
  IN  FoldLeft(LAMBDA r, j : IF Doomed(r, j) THEN [r EXCEPT ![j] = Nothing] ELSE r,
               rows, [i \in Jobs |-> i])

\* _evict_terminal, first half: the leases that are open now.
SweepLook(c, from, to) ==
  /\ Proceed(c, from, to)
  /\ skip' = [skip EXCEPT ![c] = {j \in Jobs : leases[j] > 0}]
  /\ UNCHANGED <<store, leases, late, client>>

\* Second half, on what was seen before.  An error of the store is logged only.
\* Seeded fault: the directories of what it evicts are removed.
SweepEvictFiles(c, from, to) ==
  /\ Proceed(c, from, to)
  /\ \E r \in {row, Evict(row, skip[c])} :
       /\ row' = r
       /\ artifact' = {j \in artifact : row[j] # Nothing => r[j] # Nothing}
  /\ skip' = [skip EXCEPT ![c] = {}] /\ UNCHANGED <<stale, leases, late, client>>
SweepEvict(c, from, to) ==
  /\ Proceed(c, from, to)
  /\ row' \in {row, Evict(row, skip[c])} /\ skip' = [skip EXCEPT ![c] = {}]
  /\ UNCHANGED <<stale, artifact, leases, late, client>>

-----------------------------------------------------------------------------
(* wait_for_job and get_job                                                    *)

PollLook(p) == SweepLook(p, "begin", "evict")
PollEvict(p) == SweepEvict(p, "evict", "get")

\* The snapshot, or 404; a terminal one is returned, else the deadline is looked at.
\* Seeded fault: the deadline is not looked at.
AfterPollForEver(p) ==
  CASE row[JobOf[p]] = Nothing        -> "unknown"
    [] row[JobOf[p]] \in Terminal  -> "returned"
    [] OTHER                       -> "begin"
AfterPoll(p) ==
  CASE row[JobOf[p]] = Nothing        -> "unknown"
    [] row[JobOf[p]] \in Terminal  -> "returned"
    [] OTHER                       -> IF p \in late THEN "timedout" ELSE "begin"

PollGet(p) ==
  /\ Proceed(p, "get", AfterPoll(p))
  /\ UNCHANGED <<store, leases, skip, late, client>>

\* A request is never retried: a connection that fails ends the wait.
PollFails(p) ==
  /\ Proceed(p, "begin", "raised")
  /\ UNCHANGED <<store, leases, skip, late, client>>

DeadlinePasses(p) ==
  /\ p \notin late /\ server[p] \in {"begin", "evict", "get"} /\ late' = late \cup {p}
  /\ UNCHANGED <<store, leases, skip, server, client>>

-----------------------------------------------------------------------------
(* download_artifact and the artifact handler                                  *)

\* The request is sent unless the file exists and may not be overwritten.
SendDownload(d) ==
  /\ cpc[d] = "idle"
  /\ \E overwrite \in BOOLEAN :
       cpc' = [cpc EXCEPT ![d] =
                 IF saved[Destination[d]] # Nothing /\ ~overwrite THEN "raised" ELSE "waiting"]
  /\ UNCHANGED <<store, leases, skip, server, late, part, saved, writers, flushed>>

TouchArtifact(d) ==
  /\ cpc[d] = "waiting" /\ Proceed(d, "begin", "read")
  /\ stale' = IF row[JobOf[d]] # Nothing THEN stale \ {JobOf[d]} ELSE stale
  /\ UNCHANGED <<row, artifact, leases, skip, late, client>>

\* Record, status and file are looked at; 404 and 409 are "refused".
CheckArtifact(d) ==
  /\ Proceed(d, "read",
       IF row[JobOf[d]] = "succeeded" /\ JobOf[d] \in artifact THEN "lease" ELSE "refused")
  /\ UNCHANGED <<store, leases, skip, late, client>>

\* The lease is registered before the sweep of the same request, and after the look.
AcquireLease(d) ==
  /\ Proceed(d, "lease", "look") /\ leases' = [leases EXCEPT ![JobOf[d]] = @ + 1]
  /\ UNCHANGED <<store, skip, late, client>>
LeaseLook(d) == SweepLook(d, "look", "evict")
LeaseEvict(d) == SweepEvict(d, "evict", "respond")

\* FileResponse opens the file; when it is gone the background task is never run.
OpenResponse(d) ==
  /\ Proceed(d, "respond", IF JobOf[d] \in artifact THEN "streaming" ELSE "broken")
  /\ UNCHANGED <<store, leases, skip, late, client>>

\* The response is dropped, before anything of it is sent or later, by an error of the send
\* or a cancelled task: the background task is never run either.
DropResponse(d) ==
  /\ Proceed(d, "respond", "unsent") \/ Proceed(d, "streaming", "cut")
  /\ UNCHANGED <<store, leases, skip, late, client>>

\* release_artifact_lease, the background task of a response that was sent to its end.
\* Seeded fault: the entry is popped whoever else holds a lease.
ReleaseAll(d) == [leases EXCEPT ![JobOf[d]] = 0]
Release(d) == [leases EXCEPT ![JobOf[d]] = IF @ > 1 THEN @ - 1 ELSE 0]

ReleaseLease(d) ==
  /\ Proceed(d, "streaming", "released") /\ leases' = Release(d)
  /\ UNCHANGED <<store, skip, late, client>>

\* Status 200: path.part is created, or the one that is there is truncated.
OpenPart(d) ==
  LET path == Destination[d]
      file == IF part[path] = Nothing THEN d ELSE part[path]
  IN  /\ cpc[d] = "waiting" /\ server[d] \in {"streaming", "released", "cut"}
      /\ cpc' = [cpc EXCEPT ![d] = "writing"]
      /\ part' = [part EXCEPT ![path] = file]
      /\ writers' = [writers EXCEPT ![file] = @ \cup {d}]
      /\ UNCHANGED <<store, leases, skip, server, late, saved, flushed>>

WriteLastChunk(d) ==
  /\ cpc[d] = "writing" /\ cpc' = [cpc EXCEPT ![d] = "written"]
  /\ flushed' = flushed \cup {d}
  /\ UNCHANGED <<store, leases, skip, server, late, part, saved, writers>>

\* os.replace; without a .part (another download has moved it) it raises.
SaveFile(d) ==
  LET path == Destination[d] IN
    /\ cpc[d] = "written"
    /\ cpc' = [cpc EXCEPT ![d] = IF part[path] = Nothing THEN "raised" ELSE "saved"]
    /\ saved' = [saved EXCEPT ![path] = IF part[path] = Nothing THEN @ ELSE part[path]]
    /\ part' = [part EXCEPT ![path] = Nothing]
    /\ UNCHANGED <<store, leases, skip, server, late, writers, flushed>>

\* An error status or an error while streaming: path.part is unlinked, whosever it is.
\* Seeded fault: it is unlinked for an error of the connection only.
DownloadFailsKeepingPart(d) ==
  /\ cpc[d] \in {"waiting", "writing"} /\ cpc' = [cpc EXCEPT ![d] = "raised"]
  /\ part' \in {part, [part EXCEPT ![Destination[d]] = Nothing]}
  /\ UNCHANGED <<store, leases, skip, server, late, saved, writers, flushed>>
DownloadFails(d) ==
  /\ cpc[d] \in {"waiting", "writing"} /\ cpc' = [cpc EXCEPT ![d] = "raised"]
  /\ part' = [part EXCEPT ![Destination[d]] = Nothing]
  /\ UNCHANGED <<store, leases, skip, server, late, saved, writers, flushed>>

-----------------------------------------------------------------------------
(* DELETE: reads the record, cancels a queued job, removes row, then files     *)

DeleteRead(x) ==
  /\ Proceed(x, "begin", CASE row[JobOf[x]] = Nothing      -> "unknown"
                        [] row[JobOf[x]] = "running" -> "refused"
                        [] row[JobOf[x]] = "queued"  -> "cancel"
                        [] OTHER                     -> "row")
  /\ UNCHANGED <<store, leases, skip, late, client>>

DeleteCancel(x) ==
  LET legal == row[JobOf[x]] = "queued" IN
    /\ Proceed(x, "cancel", IF legal THEN "row" ELSE "raised")
    /\ row' = IF legal THEN [row EXCEPT ![JobOf[x]] = "cancelled"] ELSE row
    /\ UNCHANGED <<stale, artifact, leases, skip, late, client>>

DeleteRow(x) ==
  /\ Proceed(x, "row", IF row[JobOf[x]] = Nothing THEN "raised" ELSE "files")
  /\ row' = [row EXCEPT ![JobOf[x]] = Nothing]
  /\ UNCHANGED <<stale, artifact, leases, skip, late, client>>

DeleteFiles(x) ==
  /\ Proceed(x, "files", "deleted") /\ artifact' = artifact \ {JobOf[x]}
  /\ UNCHANGED <<row, stale, leases, skip, late, client>>

-----------------------------------------------------------------------------

PollStep(p) == PollLook(p) \/ PollEvict(p) \/ PollGet(p)

DownloadStep(d) ==
  \/ SendDownload(d) \/ TouchArtifact(d) \/ CheckArtifact(d) \/ AcquireLease(d)
  \/ LeaseLook(d) \/ LeaseEvict(d) \/ OpenResponse(d) \/ DropResponse(d) \/ ReleaseLease(d)
  \/ OpenPart(d) \/ WriteLastChunk(d) \/ SaveFile(d) \/ DownloadFails(d)

DeleteStep(x) == DeleteRead(x) \/ DeleteCancel(x) \/ DeleteRow(x) \/ DeleteFiles(x)

DeliveryNext ==
  \/ \E j \in Jobs : ClaimJob(j) \/ FinishJob(j) \/ GrowStale(j)
  \/ \E p \in Pollers : PollStep(p) \/ PollFails(p) \/ DeadlinePasses(p)
  \/ \E d \in Downloads : DownloadStep(d)
  \/ \E x \in Deleters : DeleteStep(x)

\* A client goes on polling and time passes; jobs, downloads and deletions may hang.
DeliveryFairness ==
  \A p \in Pollers : WF_deliveryVars(PollStep(p)) /\ WF_deliveryVars(DeadlinePasses(p))

DeliverySpec ==
  DeliveryInit /\ [][DeliveryNext]_deliveryVars /\ DeliveryFairness

-----------------------------------------------------------------------------

Leased == {"look", "evict", "respond", "streaming"}
About(j) == {d \in Downloads : JobOf[d] = j}

\* Type correctness.
DeliveryTypeOK ==
  /\ row \in [Jobs -> JobStatus \cup {Nothing}] /\ stale \subseteq Jobs /\ artifact \subseteq Jobs
  /\ leases \in [Jobs -> 0 .. Cardinality(Downloads)]
  /\ \A c \in Pollers \cup Downloads : skip[c] \subseteq Jobs
  /\ late \subseteq Pollers /\ flushed \subseteq Downloads
  /\ {part, saved} \subseteq [Paths -> Downloads \cup {Nothing}]
  /\ writers \in [Downloads -> SUBSET Downloads]

\* The responses whose background task was not and will not be run: the file was gone, or
\* the response was dropped.
NeverReleased == {"broken", "unsent", "cut"}

\* A job is leased once for each response between its lease and the end of its stream,
\* whatever other downloads of it end meanwhile, and once for ever for each response that
\* ends without its background task.  Such a job is never evicted again.
LeasesAreAccounted ==
  \A j \in Jobs :
    leases[j] = Cardinality({d \in About(j) : server[d] \in Leased \cup NeverReleased})

\* A response that holds a lease finds the file it was promised: no sweep, of another
\* request or of its own, begun before the lease or after it, takes the file away.  Only
\* a DELETE does, which does not look at leases.
LeasedArtifactIsKept ==
  \A d \in Downloads : (server[d] \in {"look", "evict", "respond", "broken"} /\ JobOf[d] \notin artifact)
    => \E x \in Deleters : JobOf[x] = JobOf[d] /\ server[x] = "deleted"

\* However two downloads to one destination overlap, and whichever of them fails at
\* whatever byte, no path.part stays behind: where there is one, a download that saves to
\* that path is still under way.
NoPartIsLeftBehind ==
  \A p \in Paths : part[p] # Nothing
    => \E d \in Downloads : Destination[d] = p /\ cpc[d] \in {"writing", "written"}

\* Every byte of the file was written, and by downloads of one artifact.
Whole(file) ==
  writers[file] \subseteq flushed /\ \A d, e \in writers[file] : JobOf[d] = JobOf[e]

\* download_artifact: "never a partial file at the final path" (client/_client.py:457).
\* Two downloads to one destination share path.part: the first to end moves it into place
\* while the second, which has truncated it, is still writing to it.
NeverAPartialFile == \A p \in Paths : saved[p] # Nothing => Whole(saved[p])

\* wait_for_job ends, with a terminal snapshot, an error or its timeout, although the job
\* may hang, be deleted, or be evicted by the sweep of the very poll that asks for it.
WaitEnds ==
  \A p \in Pollers :
    server[p] = "begin" ~> server[p] \in {"returned", "unknown", "raised", "timedout"}
=============================================================================
