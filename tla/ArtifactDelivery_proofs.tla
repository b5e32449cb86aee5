----------------------- MODULE ArtifactDelivery_proofs -----------------------
(***************************************************************************)
(* Theorems about ArtifactDelivery, for any number of jobs, polls, downloads    *)
(* and deletions, any retention limit and any choice of destinations.           *)
(***************************************************************************)
EXTENDS ArtifactDelivery, FiniteSetTheorems, TLAPS

USE DEF store, client

\* The responses that count as one lease each.
Holders(j) == {d \in About(j) : server[d] \in Leased \cup NeverReleased}

\* Where the request of a download has seen its file and not yet opened it, or found it gone.
Promised == {"lease", "look", "evict", "respond", "broken"}

\* Where a request can be, on the side of the server.
Places ==
  {"begin", "evict", "get", "unknown", "returned", "timedout", "raised", "read", "lease",
   "refused", "look", "respond", "broken", "unsent", "cut", "streaming", "released", "cancel",
   "row", "files", "deleted", "absent"}

PlacesInv == server \in [Callers -> Places] /\ leases \in [Jobs -> Nat]

\* A file that was promised is there, or its job was deleted.
KeptInv ==
  \A d \in Downloads : server[d] \in Promised /\ JobOf[d] \notin artifact
    => \E x \in Deleters : JobOf[x] = JobOf[d] /\ server[x] = "deleted"

DeliveryInv == PlacesInv /\ LeasesAreAccounted /\ KeptInv

\* The steps of other requests than downloads, and of downloads on the side of the client.
OtherStep ==
  \/ \E j \in Jobs : ClaimJob(j) \/ FinishJob(j) \/ GrowStale(j)
  \/ \E p \in Pollers : PollStep(p) \/ PollFails(p) \/ DeadlinePasses(p)
  \/ \E d \in Downloads :
       SendDownload(d) \/ OpenPart(d) \/ WriteLastChunk(d) \/ SaveFile(d) \/ DownloadFails(d)
  \/ \E x \in Deleters : DeleteStep(x)

-----------------------------------------------------------------------------
(* Counting                                                                    *)

\* Holders are finitely many.
LEMMA HoldersFinite ==
  \A j : IsFiniteSet(Holders(j)) /\ Cardinality(Holders(j)) \in Nat
  <1> TAKE j
  <1>1. Holders(j) \in SUBSET Downloads /\ IsFiniteSet(Downloads)
    BY DeliveryAssumption DEF Holders, About
  <1> QED BY <1>1, FS_Subset, FS_CardinalityType

\* Nothing is leased and nothing promised at first.
LEMMA DeliveryStarts == DeliveryInit => DeliveryInv
  <1> SUFFICES ASSUME DeliveryInit PROVE DeliveryInv
    OBVIOUS
  <1> PICK jobs, come : Expecting(jobs, come)
    BY DEF DeliveryInit
  <1>1. \A d \in Downloads : server[d] \in {"begin", "absent"}
    BY DEF Expecting, Callers
  <1>2. \A j : Holders(j) = {}
    BY <1>1 DEF Holders, About, Leased, NeverReleased
  <1>3. LeasesAreAccounted
    BY <1>2, FS_EmptySet DEF Expecting, LeasesAreAccounted, Holders
  <1> QED BY <1>1, <1>3 DEF Expecting, DeliveryInv, PlacesInv, Places, KeptInv, Promised

\* Where no download comes or goes, the account stays as it is.
LEMMA LeasesStay ==
  ASSUME LeasesAreAccounted, leases' = leases,
         \A d \in Downloads : server'[d] \in Leased \cup NeverReleased <=> server[d] \in Leased \cup NeverReleased
  PROVE  LeasesAreAccounted'
  <1>1. \A j : Holders(j)' = Holders(j)
    BY DEF Holders, About
  <1> QED BY <1>1 DEF LeasesAreAccounted, Holders

-----------------------------------------------------------------------------
(* The steps                                                                   *)

\* Whatever is done for others takes away no file but that of a job it deletes.
LEMMA OtherStepKeeps ==
  ASSUME DeliveryInv, OtherStep
  PROVE  DeliveryInv'
  <1> USE DEF DeliveryInv
  <1>1. leases' = leases
    BY DEF OtherStep, ClaimJob, FinishJob, GrowStale, PollStep, PollLook, PollEvict, SweepLook,
           SweepEvict, PollGet, PollFails, DeadlinePasses, SendDownload, OpenPart,
           WriteLastChunk, SaveFile, DownloadFails, DeleteStep, DeleteRead, DeleteCancel,
           DeleteRow, DeleteFiles
  <1>2. /\ PlacesInv' /\ \A d \in Downloads : server'[d] = server[d]
        /\ \A x \in Deleters : server[x] = "deleted" => server'[x] = "deleted"
        /\ \A j \in artifact : j \notin artifact' =>
             \E x \in Deleters : JobOf[x] = j /\ server'[x] = "deleted"
    <2>1. CASE server' = server
      <3>1. artifact \subseteq artifact'
        BY <2>1 DEF OtherStep, ClaimJob, FinishJob, GrowStale, PollStep, PollLook, PollEvict,
                    SweepLook, SweepEvict, PollGet, PollFails, DeadlinePasses, SendDownload,
                    OpenPart, WriteLastChunk, SaveFile, DownloadFails, DeleteStep, DeleteRead,
                    DeleteCancel, DeleteRow, DeleteFiles, Proceed, PlacesInv, Callers
      <3> QED BY <1>1, <2>1, <3>1 DEF PlacesInv
    <2>2. ASSUME NEW p \in Pollers, PollStep(p) \/ PollFails(p)
          PROVE  /\ artifact' = artifact
                 /\ \E to \in Places : server' = [server EXCEPT ![p] = to]
      <3>1. AfterPoll(p) \in Places
        BY DEF AfterPoll, Places
      <3> QED BY <2>2, <3>1 DEF PollStep, PollLook, PollEvict, SweepLook, SweepEvict, PollGet,
                                PollFails, Proceed, Places
    <2>3. ASSUME NEW x \in Deleters, DeleteStep(x)
          PROVE  /\ \E to \in Places : server' = [server EXCEPT ![x] = to]
                 /\ server[x] # "deleted"
                 /\ \A j \in artifact : j \notin artifact' => JobOf[x] = j /\ server'[x] = "deleted"
      <3>1. x \in Callers
        BY DEF Callers
      <3>2. CASE DeleteFiles(x)
        BY <3>1, <3>2 DEF DeleteFiles, Proceed, PlacesInv, Places
      <3>3. CASE DeleteRead(x) \/ DeleteCancel(x) \/ DeleteRow(x)
        <4>1. PICK from, to \in Places : Proceed(x, from, to) /\ artifact' = artifact /\ from # "deleted"
          BY <3>3 DEF DeleteRead, DeleteCancel, DeleteRow, Places
        <4> QED BY <4>1 DEF Proceed
      <3> QED BY <2>3, <3>2, <3>3 DEF DeleteStep
    <2>4. ASSUME NEW c \in Pollers \cup Deleters, NEW to \in Places, server' = [server EXCEPT ![c] = to]
          PROVE  /\ PlacesInv' /\ \A d \in Downloads : server'[d] = server[d]
                 /\ \A x \in Deleters : x # c => server'[x] = server[x]
      BY <1>1, <2>4, DeliveryAssumption DEF PlacesInv, Callers
    <2>5. CASE \E p \in Pollers : PollStep(p) \/ PollFails(p)
      BY <2>2, <2>4, <2>5, DeliveryAssumption
    <2>6. CASE \E x \in Deleters : DeleteStep(x)
      BY <2>3, <2>4, <2>6
    <2>7. OtherStep => server' = server \/ (\E p \in Pollers : PollStep(p) \/ PollFails(p))
                                \/ (\E x \in Deleters : DeleteStep(x))
      BY DEF OtherStep, ClaimJob, FinishJob, GrowStale, DeadlinePasses, SendDownload, OpenPart,
             WriteLastChunk, SaveFile, DownloadFails
    <2> QED BY <2>1, <2>5, <2>6, <2>7
  <1>3. KeptInv'
    BY <1>2 DEF KeptInv
  <1> QED BY <1>1, <1>2, <1>3, LeasesStay

\* A response that goes on is promised no more than it was, unless it has seen its file.
LEMMA PromiseStays ==
  ASSUME DeliveryInv, NEW d \in Downloads, NEW to \in Places, server' = [server EXCEPT ![d] = to],
         leases' \in [Jobs -> Nat], artifact' = artifact,
         to \in Promised => server[d] \in Promised \/ JobOf[d] \in artifact
  PROVE  PlacesInv' /\ KeptInv'
  <1>1. PlacesInv'
    BY DEF DeliveryInv, PlacesInv
  <1>2. \A x \in Deleters : server'[x] = server[x]
    BY DeliveryAssumption DEF DeliveryInv, PlacesInv
  <1>3. \A e \in Downloads : server'[e] \in Promised => server[e] \in Promised \/ JobOf[e] \in artifact
    BY DEF DeliveryInv, PlacesInv, Callers
  <1>4. KeptInv'
    BY <1>2, <1>3 DEF DeliveryInv, KeptInv
  <1> QED BY <1>1, <1>4

\* The steps that take no lease and give none back.
LEMMA ResponseGoesOn ==
  ASSUME DeliveryInv, NEW d \in Downloads,
         TouchArtifact(d) \/ CheckArtifact(d) \/ LeaseLook(d) \/ LeaseEvict(d) \/ OpenResponse(d)
           \/ DropResponse(d)
  PROVE  DeliveryInv'
  <1>1. PICK to \in Places :
          /\ server' = [server EXCEPT ![d] = to]
          /\ to \in Promised => server[d] \in Promised \/ JobOf[d] \in artifact
          /\ to \in Leased \cup NeverReleased <=> server[d] \in Leased \cup NeverReleased
    BY DEF TouchArtifact, CheckArtifact, LeaseLook, LeaseEvict, OpenResponse, DropResponse,
           SweepLook, SweepEvict, Proceed, Places, Promised, Leased, NeverReleased
  <1>2. leases' = leases /\ artifact' = artifact
    BY DEF TouchArtifact, CheckArtifact, LeaseLook, LeaseEvict, OpenResponse, DropResponse,
           SweepLook, SweepEvict
  <1>3. PlacesInv' /\ KeptInv'
    BY <1>1, <1>2, PromiseStays DEF DeliveryInv, PlacesInv
  <1>4. \A e \in Downloads : server'[e] \in Leased \cup NeverReleased <=> server[e] \in Leased \cup NeverReleased
    BY <1>1 DEF DeliveryInv, PlacesInv, Callers
  <1> QED BY <1>2, <1>3, <1>4, LeasesStay DEF DeliveryInv

\* A lease is taken by a response that has seen its file.
LEMMA LeaseIsTaken ==
  ASSUME DeliveryInv, NEW d \in Downloads, AcquireLease(d)
  PROVE  DeliveryInv'
  <1>1. /\ server[d] = "lease" /\ server' = [server EXCEPT ![d] = "look"] /\ artifact' = artifact
        /\ leases' = [leases EXCEPT ![JobOf[d]] = @ + 1]
    BY DEF AcquireLease, Proceed
  <1>2. d \in Callers /\ JobOf[d] \in Jobs
    BY DeliveryAssumption DEF Callers
  <1>3. leases' \in [Jobs -> Nat]
    BY <1>1, <1>2 DEF DeliveryInv, PlacesInv
  <1>4. PlacesInv' /\ KeptInv'
    BY <1>1, <1>3, PromiseStays DEF Places, Promised
  <1>5. LeasesAreAccounted'
    <2> SUFFICES ASSUME NEW j \in Jobs PROVE leases'[j] = Cardinality(Holders(j)')
      BY DEF LeasesAreAccounted, Holders
    <2>1. leases[j] = Cardinality(Holders(j)) /\ leases[j] \in Nat
      BY DEF DeliveryInv, LeasesAreAccounted, Holders, PlacesInv
    <2>2. CASE j = JobOf[d]
      <3>1. Holders(j)' = Holders(j) \cup {d} /\ d \notin Holders(j)
        BY <1>1, <1>2, <2>2 DEF Holders, About, Leased, NeverReleased, DeliveryInv, PlacesInv, Callers
      <3>2. Cardinality(Holders(j)') = Cardinality(Holders(j)) + 1
        BY <3>1, HoldersFinite, FS_AddElement
      <3> QED BY <1>1, <2>1, <2>2, <3>2 DEF DeliveryInv, PlacesInv
    <2>3. CASE j # JobOf[d]
      <3>1. Holders(j)' = Holders(j)
        BY <1>1, <2>3 DEF Holders, About, DeliveryInv, PlacesInv, Callers
      <3> QED BY <1>1, <2>1, <2>3, <3>1 DEF DeliveryInv, PlacesInv
    <2> QED BY <2>2, <2>3
  <1> QED BY <1>4, <1>5 DEF DeliveryInv

\* A lease is given back by the response that holds it, and the others keep theirs.
LEMMA LeaseIsGivenBack ==
  ASSUME DeliveryInv, NEW d \in Downloads, ReleaseLease(d)
  PROVE  DeliveryInv'
  <1>1. /\ server[d] = "streaming" /\ server' = [server EXCEPT ![d] = "released"] /\ artifact' = artifact
        /\ leases' = [leases EXCEPT ![JobOf[d]] = IF @ > 1 THEN @ - 1 ELSE 0]
    BY DEF ReleaseLease, Release, Proceed
  <1>2. d \in Callers /\ JobOf[d] \in Jobs
    BY DeliveryAssumption DEF Callers
  <1>3. leases' \in [Jobs -> Nat]
    BY <1>1, <1>2 DEF DeliveryInv, PlacesInv
  <1>4. PlacesInv' /\ KeptInv'
    BY <1>1, <1>3, PromiseStays DEF Places, Promised
  <1>5. LeasesAreAccounted'
    <2> SUFFICES ASSUME NEW j \in Jobs PROVE leases'[j] = Cardinality(Holders(j)')
      BY DEF LeasesAreAccounted, Holders
    <2>1. leases[j] = Cardinality(Holders(j)) /\ leases[j] \in Nat
      BY DEF DeliveryInv, LeasesAreAccounted, Holders, PlacesInv
    <2>2. CASE j = JobOf[d]
      <3>1. Holders(j)' = Holders(j) \ {d} /\ d \in Holders(j)
        BY <1>1, <1>2, <2>2 DEF Holders, About, Leased, NeverReleased, DeliveryInv, PlacesInv, Callers
      <3>2. Cardinality(Holders(j)') = Cardinality(Holders(j)) - 1
        BY <3>1, HoldersFinite, FS_RemoveElement
      <3>3. Cardinality(Holders(j)') \in Nat
        BY <3>1, HoldersFinite, FS_RemoveElement, FS_CardinalityType
      <3>4. leases'[j] = IF leases[j] > 1 THEN leases[j] - 1 ELSE 0
        BY <1>1, <1>2, <2>2 DEF DeliveryInv, PlacesInv
      <3> QED BY <2>1, <3>2, <3>3, <3>4
    <2>3. CASE j # JobOf[d]
      <3>1. Holders(j)' = Holders(j)
        BY <1>1, <2>3 DEF Holders, About, DeliveryInv, PlacesInv, Callers
      <3> QED BY <1>1, <2>1, <2>3, <3>1 DEF DeliveryInv, PlacesInv
    <2> QED BY <2>2, <2>3
  <1> QED BY <1>4, <1>5 DEF DeliveryInv

\* The invariant is inductive.
LEMMA DeliveryInductive == DeliveryInv /\ [DeliveryNext]_deliveryVars => DeliveryInv'
  <1> SUFFICES ASSUME DeliveryInv, [DeliveryNext]_deliveryVars PROVE DeliveryInv'
    OBVIOUS
  <1>1. CASE OtherStep
    BY <1>1, OtherStepKeeps
  <1>2. CASE UNCHANGED deliveryVars
    <2>1. PlacesInv' /\ KeptInv'
      BY <1>2 DEF deliveryVars, DeliveryInv, PlacesInv, KeptInv
    <2> QED BY <1>2, <2>1, LeasesStay DEF deliveryVars, DeliveryInv
  <1>3. ASSUME NEW d \in Downloads, DownloadStep(d), ~OtherStep PROVE DeliveryInv'
    BY <1>3, ResponseGoesOn, LeaseIsTaken, LeaseIsGivenBack DEF DownloadStep, OtherStep
  <1> QED BY <1>1, <1>2, <1>3 DEF DeliveryNext, OtherStep

\* However downloads of one artifact begin, overlap and end, each one that holds a lease is
\* counted once and no other is: release_artifact_lease pops no entry that is still in use.
THEOREM LeasesBalance == DeliverySpec => []LeasesAreAccounted
  <1> QED BY DeliveryStarts, DeliveryInductive, PTL DEF DeliverySpec, DeliveryInv

\* No retention sweep takes a file that a response was promised, whatever leases it had seen
\* when it began.
THEOREM PromisedFileIsKept == DeliverySpec => []LeasedArtifactIsKept
  <1>1. DeliveryInv => LeasedArtifactIsKept
    BY DEF DeliveryInv, KeptInv, Promised, LeasedArtifactIsKept
  <1> QED BY <1>1, DeliveryStarts, DeliveryInductive, PTL DEF DeliverySpec

-----------------------------------------------------------------------------
(* What is left beside the file                                                *)

\* A part of a file is beside its destination only while a download to it is under way.
PartInv ==
  /\ part \in [Paths -> Downloads \cup {Nothing}] /\ DOMAIN cpc = Downloads
  /\ NoPartIsLeftBehind

\* A download and the path it saves to.
LEMMA PathOf == \A d \in Downloads : Destination[d] \in Paths /\ d # Nothing
  BY DeliveryAssumption DEF Paths

\* Nothing is there at first.
LEMMA PartInitially == DeliveryInit => PartInv
  BY PathOf DEF DeliveryInit, Expecting, PartInv, NoPartIsLeftBehind

\* A download that opens its part is under way, and one that ends, well or not, takes away
\* whatever part is there: what another has begun beside the same path is not left behind.
LEMMA PartInductive == PartInv /\ [DeliveryNext]_deliveryVars => PartInv'
  <1> SUFFICES ASSUME PartInv, [DeliveryNext]_deliveryVars PROVE PartInv'
    OBVIOUS
  <1> USE PathOf DEF PartInv, NoPartIsLeftBehind
  <1>1. ASSUME NEW d \in Downloads, SendDownload(d) PROVE PartInv'
    <2>1. /\ cpc[d] = "idle" /\ part' = part
          /\ \E to : cpc' = [cpc EXCEPT ![d] = to]
      BY <1>1 DEF SendDownload
    <2> QED BY <2>1
  <1>2. ASSUME NEW d \in Downloads, OpenPart(d) PROVE PartInv'
    <2> DEFINE file == IF part[Destination[d]] = Nothing THEN d ELSE part[Destination[d]]
    <2>0. file \in Downloads
      OBVIOUS
    <2>1. /\ cpc' = [cpc EXCEPT ![d] = "writing"]
          /\ part' = [part EXCEPT ![Destination[d]] = file]
      BY <1>2 DEF OpenPart
    <2> HIDE DEF file
    <2>2. cpc'[d] = "writing" /\ \A e \in Downloads \ {d} : cpc'[e] = cpc[e]
      BY <2>1
    <2> QED BY <2>0, <2>1, <2>2
  <1>3. ASSUME NEW d \in Downloads, WriteLastChunk(d) PROVE PartInv'
    <2>1. cpc' = [cpc EXCEPT ![d] = "written"] /\ part' = part
      BY <1>3 DEF WriteLastChunk
    <2>2. cpc'[d] = "written" /\ \A e \in Downloads \ {d} : cpc'[e] = cpc[e]
      BY <2>1
    <2> QED BY <2>1, <2>2
  <1>4. ASSUME NEW d \in Downloads, SaveFile(d) \/ DownloadFails(d) PROVE PartInv'
    <2>1. PICK to :
            cpc' = [cpc EXCEPT ![d] = to] /\ part' = [part EXCEPT ![Destination[d]] = Nothing]
      BY <1>4 DEF SaveFile, DownloadFails
    <2>2. \A p \in Paths : part'[p] # Nothing => p # Destination[d] /\ part[p] # Nothing
      BY <2>1
    <2>3. \A e \in Downloads : Destination[e] # Destination[d] => cpc'[e] = cpc[e]
      BY <2>1
    <2> QED BY <2>1, <2>2, <2>3
  <1>5. CASE UNCHANGED client
    BY <1>5
  <1>6. ASSUME NEW d \in Downloads,
               TouchArtifact(d) \/ CheckArtifact(d) \/ AcquireLease(d) \/ LeaseLook(d)
                 \/ LeaseEvict(d) \/ OpenResponse(d) \/ DropResponse(d) \/ ReleaseLease(d)
        PROVE  UNCHANGED client
    BY <1>6 DEF TouchArtifact, CheckArtifact, AcquireLease, LeaseLook, LeaseEvict, OpenResponse,
                DropResponse, ReleaseLease, SweepLook, SweepEvict
  <1>7. ASSUME NEW d \in Downloads, DownloadStep(d) PROVE PartInv'
    BY <1>1, <1>2, <1>3, <1>4, <1>5, <1>6, <1>7 DEF DownloadStep
  <1>8. (\E j \in Jobs : ClaimJob(j) \/ FinishJob(j) \/ GrowStale(j)) => UNCHANGED client
    BY DEF ClaimJob, FinishJob, GrowStale
  <1>9. (\E p \in Pollers : PollStep(p) \/ PollFails(p) \/ DeadlinePasses(p)) => UNCHANGED client
    BY DEF PollStep, PollLook, PollEvict, PollGet, PollFails, DeadlinePasses, SweepLook, SweepEvict
  <1>10. (\E x \in Deleters : DeleteStep(x)) => UNCHANGED client
    BY DEF DeleteStep, DeleteRead, DeleteCancel, DeleteRow, DeleteFiles
  <1> QED BY <1>5, <1>7, <1>8, <1>9, <1>10 DEF DeliveryNext, deliveryVars

\* However downloads to one destination overlap and fail, none leaves a part of a file behind
\* once all of them are over.
THEOREM PartsAreTemporary == DeliverySpec => []NoPartIsLeftBehind
  <1> QED BY PartInitially, PartInductive, PTL DEF DeliverySpec, PartInv
=============================================================================
