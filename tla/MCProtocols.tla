------------------------------ MODULE MCProtocols ------------------------------
(***************************************************************************)
(* The protocols between processes and threads, for TLC: the processes of       *)
(* TilePool, the threads of WorkerStream, the submitters and readers of          *)
(* Leaderboard, and the requests of ArtifactDelivery.  They share nothing, so a  *)
(* behaviour is one of any of them while the others are at rest: over, or not    *)
(* begun.                                                                       *)
(***************************************************************************)
EXTENDS TilePool, WorkerStream, Leaderboard, ArtifactDelivery

CONSTANTS s1, s2, s3, p1, d1, d2, x1

\* Three submissions, one of them without a score, over a legacy file with a sum in it,
\* a current one, a newer one, or none.
MCScoreOf == [s \in {s1, s2, s3} |-> CASE s = s1 -> {5} [] s = s2 -> {2} [] s = s3 -> {}]
MCLegacy ==
  {NoFile,
   [version |-> 0, entries |-> <<Entry("old", {1}, TRUE)>>],
   [version |-> 2, entries |-> <<Entry("old", {1}, TRUE), Entry("older", {}, FALSE)>>],
   [version |-> 3, entries |-> <<Entry("recent", {3}, FALSE)>>],
   [version |-> 4, entries |-> <<Entry("future", {3}, FALSE)>>]}

PoolIsOver ==
  /\ call = "tiles" /\ ppc = "ended" /\ outcome = "returned" /\ results = Tiles
  /\ todo = [w \in Workers |-> {}] /\ wpc = [w \in Workers |-> "dead"]
  /\ buffer = [w \in Workers |-> <<>>] /\ pipe = <<>> /\ answers = 0
  /\ weights = TRUE /\ faults = {}

StreamIsOver ==
  /\ left = [w \in Threads |-> {}] /\ tile = [w \in Threads |-> 0]
  /\ at = [w \in Threads |-> "over"]
  /\ slots = ResidentCap /\ queue = <<>> /\ raised = {} /\ pending = {} /\ owed = 0
  /\ committed = StreamTiles /\ written = [i \in Plan |-> i]
  /\ sentinels = Cardinality(Threads) /\ gatherer = "returned"

BoardIsQuiet ==
  /\ file = NoFile /\ lock = None /\ temp = {} /\ acked = {}
  /\ pc = [p \in Submitters \cup Readers |-> "absent"]
  /\ draft = [s \in Submitters |-> <<>>] /\ seen = [r \in Readers |-> <<>>]
  /\ before = [r \in Readers |-> {}]

\* A poll, two downloads to one path and a DELETE, of the first of two jobs.
MCJobOf == [c \in {p1, d1, d2, x1} |-> 1]
MCDestination == [d \in {d1, d2} |-> "mask.oas"]

\* The jobs that are there, and the callers that come: three for one job or, with a second
\* job to compete for the history, a poll, a download and a DELETE or the two downloads.
Scenes == {<<{1}, {d1, d2, x1}>>, <<{1}, {p1, d1, d2}>>, <<{1, 2}, {p1, d1, x1}>>, <<{1, 2}, {d1, d2}>>}

DeliveryIsQuiet == Expecting({}, {})

MCInit ==
  \/ PoolInit /\ StreamIsOver /\ BoardIsQuiet /\ DeliveryIsQuiet
  \/ PoolIsOver /\ StreamInit /\ BoardIsQuiet /\ DeliveryIsQuiet
  \/ PoolIsOver /\ StreamIsOver /\ Init /\ DeliveryIsQuiet
  \/ PoolIsOver /\ StreamIsOver /\ BoardIsQuiet /\ \E scene \in Scenes : Expecting(scene[1], scene[2])

MCNext ==
  \/ PoolNext /\ UNCHANGED <<streamVars, vars, deliveryVars>>
  \/ StreamNext /\ UNCHANGED <<poolVars, vars, deliveryVars>>
  \/ Next /\ UNCHANGED <<poolVars, streamVars, deliveryVars>>
  \/ DeliveryNext /\ UNCHANGED <<poolVars, streamVars, vars>>

MCSpec ==
  /\ MCInit /\ [][MCNext]_<<poolVars, streamVars, vars, deliveryVars>>
  /\ PoolFairness /\ StreamFairness /\ DeliveryFairness
=============================================================================
