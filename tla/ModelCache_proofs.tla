-------------------------- MODULE ModelCache_proofs --------------------------
(***************************************************************************)
(* Theorems about ModelCache, for any finite set of requests, any keys and     *)
(* any capacity, whatever loads fail.                                          *)
(***************************************************************************)
EXTENDS MCModelCache, FiniteSetTheorems, TLAPS

USE DEF cacheVars, reqVars

-----------------------------------------------------------------------------
(* Holders and reference counts                                                *)

Places == {"new", "waiting", "recheck", "loading", "insert", "sweep", "acquired", "running",
           "finished", "teardown"} \cup Ended

\* What the counts rest on: dictionaries over the keys, one place per request.
CountTypes ==
  /\ refs \in [Keys -> Nat] /\ parked \in [Keys -> Nat] /\ cached \in [Keys -> Nat]
  /\ inst \in [Requests -> Nat] /\ made \in Nat
  /\ key \in [Requests -> Keys] /\ pc \in [Requests -> Places]

\* A request holds its key from the step that counts it to the step that uncounts it.
Holds(r) == pc[r] \in {"sweep", "acquired", "running", "finished"}

\* The holders of a key are finitely many.
LEMMA HoldersFinite ==
  ASSUME NEW k
  PROVE  IsFiniteSet(Holding(k)) /\ Cardinality(Holding(k)) \in Nat
  <1>1. Holding(k) \subseteq Requests
    BY DEF Holding
  <1> QED BY <1>1, CacheAssumption, FS_Subset, FS_CardinalityType

\* A request that starts to hold its key adds one to its holders and to those of no other.
LEMMA HolderJoins ==
  ASSUME CountTypes, key' = key, NEW r \in Requests, NEW p \in {"sweep", "acquired"},
         ~Holds(r), pc' = [pc EXCEPT ![r] = p]
  PROVE  /\ Cardinality(Holding(key[r])') = Cardinality(Holding(key[r])) + 1
         /\ \A k \in Keys \ {key[r]} : Holding(k)' = Holding(k)
         /\ \A k \in Keys : Holding(k) \subseteq Holding(k)'
  <1>1. Holding(key[r])' = Holding(key[r]) \cup {r} /\ r \notin Holding(key[r])
    BY DEF Holding, Holds, CountTypes
  <1>2. \A k \in Keys \ {key[r]} : Holding(k)' = Holding(k)
    BY DEF Holding, CountTypes
  <1>3. Cardinality(Holding(key[r]) \cup {r}) = Cardinality(Holding(key[r])) + 1
    BY <1>1, HoldersFinite, FS_AddElement
  <1> QED BY <1>1, <1>2, <1>3

\* A request that lets its key go takes one from its holders and from those of no other.
LEMMA HolderLeaves ==
  ASSUME CountTypes, key' = key, NEW r \in Requests, NEW p \in {"done", "teardown"},
         Holds(r), pc' = [pc EXCEPT ![r] = p]
  PROVE  /\ Cardinality(Holding(key[r])') = Cardinality(Holding(key[r])) - 1
         /\ \A k \in Keys \ {key[r]} : Holding(k)' = Holding(k)
  <1>1. Holding(key[r])' = Holding(key[r]) \ {r} /\ r \in Holding(key[r])
    BY DEF Holding, Holds, CountTypes
  <1>2. \A k \in Keys \ {key[r]} : Holding(k)' = Holding(k)
    BY DEF Holding, CountTypes
  <1>3. Cardinality(Holding(key[r]) \ {r}) = Cardinality(Holding(key[r])) - 1
    BY <1>1, HoldersFinite, FS_RemoveElement
  <1> QED BY <1>1, <1>2, <1>3

\* A step of a request that neither starts nor ends holding leaves the holders alone.
LEMMA HoldersStay ==
  ASSUME CountTypes, key' = key, NEW r \in Requests, NEW p,
         pc' = [pc EXCEPT ![r] = p],
         Holds(r) <=> p \in {"sweep", "acquired", "running", "finished"}
  PROVE  \A k \in Keys : Holding(k)' = Holding(k)
  BY DEF Holding, Holds, CountTypes

CountInv == CountTypes /\ RefcountsHaveHolders /\ ParkedIsHeld

\* Nothing is counted and nothing is parked at first.
LEMMA CountInit == Init => CountInv
  <1> SUFFICES ASSUME Init PROVE CountInv
    OBVIOUS
  <1>1. CountTypes
    BY DEF Init, CountTypes, Places
  <1>2. RefcountsHaveHolders
    BY HoldersFinite DEF Init, RefcountsHaveHolders
  <1>3. ParkedIsHeld
    BY DEF Init, ParkedIsHeld
  <1> QED BY <1>1, <1>2, <1>3 DEF CountInv

\* A step that counts an acquisition by its new holder keeps the counts below the holders.
LEMMA JoinCounts ==
  ASSUME CountInv, NEW r \in Requests, NEW p \in {"sweep", "acquired"}, key' = key,
         ~Holds(r), pc' = [pc EXCEPT ![r] = p], refs' = [refs EXCEPT ![key[r]] = @ + 1],
         \A k \in Keys : parked'[k] # 0 => parked[k] # 0 \/ refs[k] > 0
  PROVE  RefcountsHaveHolders' /\ ParkedIsHeld'
  <1> USE DEF CountInv, CountTypes
  <1>1. /\ Cardinality(Holding(key[r])') = Cardinality(Holding(key[r])) + 1
        /\ \A k \in Keys \ {key[r]} : Holding(k)' = Holding(k)
        /\ \A k \in Keys : Holding(k) \subseteq Holding(k)'
    BY HolderJoins
  <1>2. \A k \in Keys : refs[k] > 0 => Holding(k) # {}
    BY FS_EmptySet, HoldersFinite DEF RefcountsHaveHolders
  <1>3. ASSUME NEW k \in Keys PROVE refs'[k] <= Cardinality(Holding(k)')
    <2>1. CASE k = key[r]
      BY <1>1, <2>1, HoldersFinite DEF RefcountsHaveHolders
    <2>2. CASE k # key[r]
      BY <1>1, <2>2 DEF RefcountsHaveHolders
    <2> QED BY <2>1, <2>2
  <1>4. ASSUME NEW k \in Keys, parked'[k] # 0 PROVE Holding(k)' # {}
    BY <1>1, <1>2, <1>4 DEF ParkedIsHeld
  <1> QED BY <1>3, <1>4 DEF RefcountsHaveHolders, ParkedIsHeld

\* A step that changes no holder, adds to no count and parks nothing keeps both.
LEMMA StayCounts ==
  ASSUME CountInv, \A k \in Keys : Holding(k)' = Holding(k),
         \A k \in Keys : refs'[k] = refs[k] \/ refs'[k] = 0,
         parked' = parked
  PROVE  RefcountsHaveHolders' /\ ParkedIsHeld'
  <1>1. ASSUME NEW k \in Keys PROVE refs'[k] <= Cardinality(Holding(k)')
    BY HoldersFinite DEF CountInv, RefcountsHaveHolders
  <1>2. ASSUME NEW k \in Keys, parked'[k] # 0 PROVE Holding(k)' # {}
    BY <1>2 DEF CountInv, ParkedIsHeld
  <1> QED BY <1>1, <1>2 DEF RefcountsHaveHolders, ParkedIsHeld

\* The release takes one from the count and from the holders, and parks nothing; the last
\* one takes the parked instance along.
LEMMA ReleaseCounts ==
  ASSUME CountInv, NEW r \in Requests, Release(r)
  PROVE  RefcountsHaveHolders' /\ ParkedIsHeld'
  <1> USE DEF CountInv, CountTypes
  <1>1. PICK p \in {"done", "teardown"} :
          pc[r] = "finished" /\ pc' = [pc EXCEPT ![r] = p] /\ key' = key
    BY DEF Release, Step
  <1>2. /\ Cardinality(Holding(key[r])') = Cardinality(Holding(key[r])) - 1
        /\ \A k \in Keys \ {key[r]} : Holding(k)' = Holding(k)
    BY <1>1, HolderLeaves DEF Holds
  <1>3. /\ \A k \in Keys \ {key[r]} : refs'[k] = refs[k] /\ parked'[k] = parked[k]
        /\ \/ refs[key[r]] > 1 /\ refs'[key[r]] = refs[key[r]] - 1
           \/ refs'[key[r]] = 0 /\ parked'[key[r]] = 0
    BY DEF Release, Unpark
  <1>4. IsFiniteSet(Holding(key[r])') /\ Cardinality(Holding(key[r])') \in Nat
    <2>1. Holding(key[r])' \subseteq Requests
      BY DEF Holding
    <2> QED BY <2>1, CacheAssumption, FS_Subset, FS_CardinalityType
  <1>5. ASSUME NEW k \in Keys PROVE refs'[k] <= Cardinality(Holding(k)')
    <2>1. CASE k = key[r]
      BY <1>1, <1>2, <1>3, <1>4, <2>1, HoldersFinite DEF RefcountsHaveHolders
    <2>2. CASE k # key[r]
      BY <1>2, <1>3, <2>2 DEF RefcountsHaveHolders
    <2> QED BY <2>1, <2>2
  <1>6. ASSUME NEW k \in Keys, parked'[k] # 0 PROVE Holding(k)' # {}
    <2>1. CASE k = key[r]
      <3>1. Cardinality(Holding(key[r])) >= 2
        BY <1>3, <1>6, <2>1, HoldersFinite DEF RefcountsHaveHolders
      <3>2. Cardinality(Holding(key[r])') # 0
        BY <1>2, <3>1, HoldersFinite
      <3> QED BY <1>1, <2>1, <3>2, FS_EmptySet
    <2>2. CASE k # key[r]
      BY <1>2, <1>3, <1>6, <2>2 DEF ParkedIsHeld
    <2> QED BY <2>1, <2>2
  <1> QED BY <1>5, <1>6 DEF RefcountsHaveHolders, ParkedIsHeld

\* No step makes a value that is not in its set.
LEMMA StepCountTypes == CountTypes /\ [Next]_vars => CountTypes'
  <1> SUFFICES ASSUME CountTypes, [Next]_vars PROVE CountTypes'
    OBVIOUS
  <1> USE DEF CountTypes, Places, Ended, Step, AcquireLocked
  <1>1. ASSUME NEW r \in Requests, GetOrLoad(r) PROVE CountTypes'
    <2>1. CASE LookupHit(r) \/ LookupMiss(r) \/ TakeLoadLock(r)
      BY <2>1 DEF LookupHit, LookupMiss, TakeLoadLock
    <2>2. CASE RecheckHit(r) \/ RecheckMiss(r)
      BY <2>2 DEF RecheckHit, RecheckMiss
    <2>3. CASE RecheckUnpark(r)
      <3>1. parked[key[r]] \in Nat
        OBVIOUS
      <3> QED BY <2>3, <3>1 DEF RecheckUnpark, Unpark
    <2>4. CASE Load(r) \/ LoadFails(r)
      BY <2>4 DEF Load, LoadFails
    <2>5. CASE Insert(r)
      BY <2>5 DEF Insert
    <2>6. CASE SweepOne(r)
      <3>1. PICK e : refs' = [refs EXCEPT ![e] = 0]
        BY <2>6 DEF SweepOne
      <3>2. UNCHANGED <<cached, parked, made, pc, key, inst>>
        BY <2>6 DEF SweepOne
      <3>3. refs' \in [Keys -> Nat]
        BY <3>1
      <3> QED BY <3>2, <3>3
    <2>7. CASE SweepDone(r)
      BY <2>7 DEF SweepDone
    <2> QED BY <1>1, <2>1, <2>2, <2>3, <2>4, <2>5, <2>6, <2>7 DEF GetOrLoad
  <1>2. ASSUME NEW r \in Requests, Use(r) PROVE CountTypes'
    <2>1. CASE BeginRun(r) \/ RefuseDevice(r) \/ EndRun(r) \/ TeardownParked(r)
      BY <2>1 DEF BeginRun, RefuseDevice, EndRun, TeardownParked
    <2>2. CASE Release(r)
      BY <2>2 DEF Release, Unpark
    <2> QED BY <1>2, <2>1, <2>2 DEF Use
  <1>3. CASE UNCHANGED vars
    BY <1>3 DEF vars
  <1> QED BY <1>1, <1>2, <1>3 DEF Next, AllAnswered

\* Each step counts for a request that holds its key, or takes counts away.
LEMMA CountStep == CountInv /\ [Next]_vars => CountInv'
  <1> SUFFICES ASSUME CountInv, [Next]_vars PROVE RefcountsHaveHolders' /\ ParkedIsHeld'
    BY StepCountTypes DEF CountInv
  <1>0. CountTypes
    BY DEF CountInv
  <1>1. ASSUME NEW r \in Requests, GetOrLoad(r) PROVE RefcountsHaveHolders' /\ ParkedIsHeld'
    <2>1. CASE \E l \in {"acquired"} :
                 /\ ~Holds(r) /\ pc' = [pc EXCEPT ![r] = l] /\ key' = key
                 /\ refs' = [refs EXCEPT ![key[r]] = @ + 1]
                 /\ \A k \in Keys : parked'[k] # 0 => parked[k] # 0
      BY <2>1, JoinCounts
    <2>2. CASE LookupHit(r)
      <3>1. CASE sidecar[key[r]] # 0
        BY <2>1, <2>2, <3>1 DEF LookupHit, Step, AcquireLocked, Holds
      <3>2. CASE sidecar[key[r]] = 0
        <4>1. \A k \in Keys : Holding(k)' = Holding(k)
          BY <1>0, <2>2, <3>2, HoldersStay DEF LookupHit, Step, Holds
        <4> QED BY <2>2, <3>2, <4>1, StayCounts DEF LookupHit
      <3> QED BY <3>1, <3>2
    <2>3. CASE RecheckHit(r)
      BY <2>1, <2>3 DEF RecheckHit, Step, AcquireLocked, Holds
    <2>4. CASE RecheckUnpark(r)
      BY <1>0, <2>1, <2>4 DEF RecheckUnpark, Step, AcquireLocked, Unpark, Holds, CountTypes
    <2>5. CASE LookupMiss(r) \/ TakeLoadLock(r) \/ RecheckMiss(r) \/ Load(r) \/ LoadFails(r)
                 \/ SweepDone(r)
      <3>1. PICK p : /\ pc' = [pc EXCEPT ![r] = p] /\ key' = key
                     /\ Holds(r) <=> p \in {"sweep", "acquired", "running", "finished"}
                     /\ refs' = refs /\ parked' = parked
        BY <2>5 DEF LookupMiss, TakeLoadLock, RecheckMiss, Load, LoadFails, SweepDone, Step,
                    Holds
      <3>2. \A k \in Keys : Holding(k)' = Holding(k)
        BY <1>0, <3>1, HoldersStay
      <3> QED BY <3>1, <3>2, StayCounts
    <2>6. CASE Insert(r)
      <3>1. /\ ~Holds(r) /\ pc' = [pc EXCEPT ![r] = "sweep"] /\ key' = key
            /\ refs' = [refs EXCEPT ![key[r]] = @ + 1]
        BY <2>6 DEF Insert, Step, Holds
      <3>2. \A k \in Keys : parked'[k] # 0 => parked[k] # 0 \/ refs[k] > 0
        BY <2>6 DEF Insert
      <3> QED BY <3>1, <3>2, JoinCounts
    <2>7. CASE SweepOne(r)
      <3>1. \A k \in Keys : Holding(k)' = Holding(k)
        BY <2>7 DEF SweepOne, Holding
      <3>2. \A k \in Keys : refs'[k] = refs[k] \/ refs'[k] = 0
        BY <1>0, <2>7 DEF SweepOne, CountTypes
      <3> QED BY <2>7, <3>1, <3>2, StayCounts DEF SweepOne
    <2> QED BY <1>1, <2>2, <2>3, <2>4, <2>5, <2>6, <2>7 DEF GetOrLoad
  <1>2. ASSUME NEW r \in Requests, Use(r) PROVE RefcountsHaveHolders' /\ ParkedIsHeld'
    <2>1. CASE BeginRun(r) \/ RefuseDevice(r) \/ EndRun(r) \/ TeardownParked(r)
      <3>1. PICK p : /\ pc' = [pc EXCEPT ![r] = p] /\ key' = key
                     /\ Holds(r) <=> p \in {"sweep", "acquired", "running", "finished"}
                     /\ refs' = refs /\ parked' = parked
        BY <2>1 DEF BeginRun, RefuseDevice, EndRun, TeardownParked, Step, Holds
      <3>2. \A k \in Keys : Holding(k)' = Holding(k)
        BY <1>0, <3>1, HoldersStay
      <3> QED BY <3>1, <3>2, StayCounts
    <2>2. CASE Release(r)
      BY <2>2, ReleaseCounts
    <2> QED BY <1>2, <2>1, <2>2 DEF Use
  <1>3. CASE UNCHANGED vars
    BY <1>3, StayCounts DEF vars, Holding
  <1> QED BY <1>1, <1>2, <1>3 DEF Next, AllAnswered

\* Sweeps that drop a whole count, releases that come late: no key is ever counted for
\* more requests than will release it.
THEOREM CountsHaveHolders == Spec => []RefcountsHaveHolders
  <1> QED BY CountInit, CountStep, PTL DEF Spec, CountInv

\* Whatever is parked has a holder, whose release will tear it down.
THEOREM ParkedWillBeReleased == Spec => []ParkedIsHeld
  <1> QED BY CountInit, CountStep, PTL DEF Spec, CountInv

\* Both together: the reference counts of app.py are balanced.
COROLLARY CountsAreBalanced == Spec => []ReferencesAreAccounted
  <1> QED BY CountsHaveHolders, ParkedWillBeReleased, PTL DEF ReferencesAreAccounted

-----------------------------------------------------------------------------
(* Where the instances are                                                     *)

\* An instance is cached or parked under a key, fresh from its load, due for its teardown,
\* or torn down.
IsCached(i) == \E k \in Keys : cached[k] = i
IsParked(i) == \E k \in Keys : parked[k] = i
IsFresh(i)  == \E r \in Requests : pc[r] = "insert" /\ inst[r] = i
IsDoomed(i) == \E r \in Requests : \E n \in DOMAIN doomed[r] : doomed[r][n][2] = i
IsTorn(i)   == \E n \in DOMAIN torn : torn[n] = i

NoneTwice(s) == \A m, n \in DOMAIN s : s[m] = s[n] => m = n

InstanceTypes ==
  /\ CountTypes /\ lru \in Seq(Keys) /\ torn \in Seq(Nat)
  /\ doomed = [r \in Requests |-> doomed[r]]
  /\ \A r \in Requests : DOMAIN doomed[r] \subseteq Nat

LruInv == NoneTwice(lru) /\ \A k \in Keys : k \in Range(lru) <=> cached[k] # 0

\* It is in one of these places, and there once.
CachedOnce ==
  \A k \in Keys : cached[k] # 0 =>
    /\ cached[k] <= made /\ ~IsParked(cached[k]) /\ ~IsFresh(cached[k])
    /\ ~IsDoomed(cached[k]) /\ ~IsTorn(cached[k])
    /\ \A l \in Keys : cached[l] = cached[k] => l = k
ParkedOnce ==
  \A k \in Keys : parked[k] # 0 =>
    /\ parked[k] <= made /\ ~IsFresh(parked[k]) /\ ~IsDoomed(parked[k]) /\ ~IsTorn(parked[k])
    /\ \A l \in Keys : parked[l] = parked[k] => l = k
FreshOnce ==
  \A r \in Requests : pc[r] = "insert" =>
    /\ inst[r] \in 1 .. made /\ ~IsDoomed(inst[r]) /\ ~IsTorn(inst[r])
    /\ \A q \in Requests : pc[q] = "insert" /\ inst[q] = inst[r] => q = r
DoomedOnce ==
  \A r \in Requests : \A n \in DOMAIN doomed[r] :
    /\ doomed[r][n][2] \in 1 .. made /\ ~IsTorn(doomed[r][n][2])
    /\ \A q \in Requests : \A m \in DOMAIN doomed[q] :
         doomed[q][m][2] = doomed[r][n][2] => q = r /\ m = n
TornOnce == NoneTwice(torn) /\ \A m \in DOMAIN torn : torn[m] \in 1 .. made

\* A request in the deferred teardown has one instance to tear down.
TeardownHasOne == \A r \in Requests : pc[r] = "teardown" => DOMAIN doomed[r] = {1}

PlaceInv ==
  CachedOnce /\ ParkedOnce /\ FreshOnce /\ DoomedOnce /\ TornOnce /\ TeardownHasOne
InstanceInv == InstanceTypes /\ LruInv /\ PlaceInv

-----------------------------------------------------------------------------
(* The order of use                                                            *)

\* A key that is moved to the end leaves the others where they are.
LEMMA MovedToEnd ==
  ASSUME NEW s \in Seq(Keys), NoneTwice(s), NEW k \in Range(s)
  PROVE  LET t == Append(Without(s, k), k)
         IN  t \in Seq(Keys) /\ NoneTwice(t) /\ Range(t) = Range(s)
  <1>1. /\ Len(s) \in Nat /\ DOMAIN s = 1 .. Len(s) /\ \A i \in 1 .. Len(s) : s[i] \in Keys
        /\ Range(s) = {s[i] : i \in 1 .. Len(s)}
    BY DEF Range
  <1>2. PICK at \in 1 .. Len(s) : s[at] = k
    BY <1>1
  <1> DEFINE u == Without(s, k)
             from(i) == IF i >= at THEN i + 1 ELSE i
  <1>3. \A i \in 1 .. Len(s) - 1 : (\E j \in 1 .. i : s[j] = k) <=> i >= at
    BY <1>1, <1>2 DEF NoneTwice
  <1>4. u = [i \in 1 .. Len(s) - 1 |-> s[from(i)]]
    BY <1>3 DEF Without
  <1>5. \A i \in 1 .. Len(s) - 1 : from(i) \in 1 .. Len(s) /\ from(i) # at
    BY <1>1, <1>2
  <1>6. Len(s) - 1 \in Nat
    BY <1>1, <1>2
  <1>7. u \in Seq(Keys) /\ Len(u) = Len(s) - 1
    <2>1. u \in [1 .. Len(s) - 1 -> Keys]
      BY <1>1, <1>4, <1>5
    <2> QED BY <1>6, <2>1
  <1> DEFINE t == Append(u, k)
  <1>8. /\ t \in Seq(Keys) /\ DOMAIN t = 1 .. Len(s) /\ t[Len(s)] = k
        /\ \A i \in 1 .. Len(s) - 1 : t[i] = s[from(i)]
    <2>1. k \in Keys
      BY <1>1, <1>2
    <2>2. \A i \in 1 .. Len(s) - 1 : u[i] = s[from(i)]
      BY <1>4
    <2>3. Len(s) = Len(u) + 1 /\ Len(u) \in Nat
      BY <1>1, <1>6, <1>7
    <2> HIDE DEF u
    <2>4. /\ t \in Seq(Keys) /\ DOMAIN t = 1 .. Len(u) + 1 /\ t[Len(u) + 1] = k
          /\ \A i \in 1 .. Len(u) : t[i] = u[i]
      BY <1>7, <2>1
    <2> QED BY <2>2, <2>3, <2>4, <1>7
  <1> HIDE DEF u, t
  <1>9. NoneTwice(t)
    <2>1. \A m \in 1 .. Len(s) - 1 : t[m] # k
      <3> TAKE m \in 1 .. Len(s) - 1
      <3>1. PICK f \in 1 .. Len(s) : f # at /\ t[m] = s[f]
        BY <1>5, <1>8
      <3> QED BY <1>1, <1>2, <3>1 DEF NoneTwice
    <2>2. \A m, n \in 1 .. Len(s) - 1 : t[m] = t[n] => m = n
      <3> TAKE m, n \in 1 .. Len(s) - 1
      <3>1. t[m] = t[n] => from(m) = from(n)
        BY <1>1, <1>5, <1>8 DEF NoneTwice
      <3>2. from(m) = from(n) => m = n
        BY <1>1, <1>2
      <3> QED BY <3>1, <3>2
    <2>3. Len(s) \in Nat /\ \A m \in 1 .. Len(s) : m \in 1 .. Len(s) - 1 \/ m = Len(s)
      <3>1. \A N \in Nat : \A m \in 1 .. N : m \in 1 .. N - 1 \/ m = N
        OBVIOUS
      <3>2. Len(s) \in Nat
        BY <1>1
      <3> QED BY <3>1, <3>2
    <2>4. DOMAIN t = 1 .. Len(s) /\ t[Len(s)] = k
      BY <1>8
    <2> QED BY <2>1, <2>2, <2>3, <2>4 DEF NoneTwice
  <1>10. Range(t) = Range(s)
    <2>1. \A i \in 1 .. Len(s) : t[i] \in Range(s)
      BY <1>1, <1>5, <1>8
    <2>2. \A i \in 1 .. Len(s) : \E j \in 1 .. Len(s) : t[j] = s[i]
      <3> TAKE i \in 1 .. Len(s)
      <3>1. CASE i = at
        BY <1>1, <1>2, <1>8, <3>1
      <3>2. CASE i < at
        BY <1>1, <1>2, <1>8, <3>2
      <3>3. CASE i > at
        <4>1. i - 1 \in 1 .. Len(s) - 1 /\ from(i - 1) = i /\ i - 1 \in 1 .. Len(s)
          BY <1>1, <1>2, <3>3
        <4>2. t[i - 1] = s[from(i - 1)]
          BY <1>8, <4>1
        <4>3. t[i - 1] = s[i]
          BY <4>1, <4>2
        <4> QED BY <4>1, <4>3
      <3> QED BY <1>1, <1>2, <3>1, <3>2, <3>3
    <2>3. DOMAIN t = 1 .. Len(s) /\ DOMAIN s = 1 .. Len(s)
      BY <1>1, <1>8
    <2>4. Range(t) \subseteq Range(s)
      BY <2>1, <2>3 DEF Range
    <2>5. ASSUME NEW e \in Range(s) PROVE e \in Range(t)
      <3>1. PICK i \in 1 .. Len(s) : e = s[i]
        BY <2>3 DEF Range
      <3>2. PICK j \in 1 .. Len(s) : t[j] = s[i]
        BY <2>2
      <3> QED BY <2>3, <3>1, <3>2 DEF Range
    <2> QED BY <2>4, <2>5
  <1> QED BY <1>8, <1>9, <1>10 DEF t, u

\* A key that was not there is put at the end.
LEMMA PutAtEnd ==
  ASSUME NEW s \in Seq(Keys), NoneTwice(s), NEW k \in Keys \ Range(s)
  PROVE  LET t == Append(s, k)
         IN  /\ t \in Seq(Keys) /\ NoneTwice(t) /\ Range(t) = Range(s) \cup {k}
             /\ Len(t) = Len(s) + 1 /\ t[Len(t)] = k
  <1>1. /\ Len(s) \in Nat /\ DOMAIN s = 1 .. Len(s)
        /\ Append(s, k) \in Seq(Keys) /\ Len(Append(s, k)) = Len(s) + 1
        /\ DOMAIN Append(s, k) = 1 .. Len(s) + 1
        /\ Append(s, k)[Len(s) + 1] = k /\ \A i \in 1 .. Len(s) : Append(s, k)[i] = s[i]
    OBVIOUS
  <1>2. \A i \in 1 .. Len(s) : s[i] # k
    BY <1>1 DEF Range
  <1>3. NoneTwice(Append(s, k))
    BY <1>1, <1>2 DEF NoneTwice
  <1>4. Range(Append(s, k)) = Range(s) \cup {k}
    BY <1>1 DEF Range
  <1> QED BY <1>1, <1>3, <1>4

\* What is evicted from the front and what stays.
LEMMA FrontEvicted ==
  ASSUME NEW s \in Seq(Keys), NoneTwice(s), NEW n \in 0 .. Len(s)
  PROVE  LET out == SubSeq(s, 1, n)
             rest == SubSeq(s, n + 1, Len(s))
         IN  /\ out \in Seq(Keys) /\ NoneTwice(out) /\ DOMAIN out = 1 .. n
             /\ rest \in Seq(Keys) /\ NoneTwice(rest)
             /\ Range(rest) = Range(s) \ Range(out) /\ Range(out) \subseteq Range(s)
             /\ \A i \in 1 .. n : out[i] = s[i]
  <1>1. Len(s) \in Nat /\ DOMAIN s = 1 .. Len(s) /\ n \in Nat
    OBVIOUS
  <1> DEFINE out == SubSeq(s, 1, n)
             rest == SubSeq(s, n + 1, Len(s))
  <1>2. out \in Seq(Keys) /\ DOMAIN out = 1 .. n /\ \A i \in 1 .. n : out[i] = s[i]
    BY <1>1
  <1>3. /\ rest \in Seq(Keys) /\ DOMAIN rest = 1 .. Len(s) - n
        /\ \A i \in 1 .. Len(s) - n : rest[i] = s[n + i]
    BY <1>1
  <1> HIDE DEF out, rest
  <1>4. NoneTwice(out)
    BY <1>1, <1>2 DEF NoneTwice
  <1>5. NoneTwice(rest)
    <2> SUFFICES ASSUME NEW i \in 1 .. Len(s) - n, NEW j \in 1 .. Len(s) - n, rest[i] = rest[j]
                 PROVE  i = j
      BY <1>3 DEF NoneTwice
    <2>1. n + i \in 1 .. Len(s) /\ n + j \in 1 .. Len(s) /\ s[n + i] = s[n + j]
      BY <1>1, <1>3
    <2>2. n + i = n + j
      BY <1>1, <2>1 DEF NoneTwice
    <2> QED BY <1>1, <2>2
  <1>6. Range(out) \subseteq Range(s)
    BY <1>1, <1>2 DEF Range
  <1>7. Range(rest) = Range(s) \ Range(out)
    <2>1. ASSUME NEW i \in 1 .. Len(s) - n PROVE rest[i] \in Range(s) \ Range(out)
      <3>1. n + i \in 1 .. Len(s) /\ rest[i] = s[n + i]
        BY <1>1, <1>3
      <3>2. \A j \in 1 .. n : s[j] # s[n + i]
        BY <1>1, <3>1 DEF NoneTwice
      <3> QED BY <1>1, <1>2, <3>1, <3>2 DEF Range
    <2>2. ASSUME NEW i \in 1 .. Len(s), s[i] \notin Range(out) PROVE s[i] \in Range(rest)
      <3>1. i > n
        BY <1>1, <1>2, <2>2 DEF Range
      <3>2. i - n \in 1 .. Len(s) - n /\ rest[i - n] = s[i]
        BY <1>1, <1>3, <3>1
      <3> QED BY <1>3, <3>2 DEF Range
    <2> QED BY <1>1, <1>3, <2>1, <2>2 DEF Range
  <1> QED BY <1>2, <1>3, <1>4, <1>5, <1>6, <1>7 DEF out, rest

-----------------------------------------------------------------------------
(* How they move                                                               *)

\* Nothing is anywhere at first.
LEMMA InstanceInit == Init => InstanceInv
  <1> SUFFICES ASSUME Init PROVE InstanceInv
    OBVIOUS
  <1>1. InstanceTypes
    BY CountInit DEF Init, InstanceTypes, CountInv
  <1>2. LruInv
    BY DEF Init, LruInv, NoneTwice, Range
  <1>3. PlaceInv
    BY DEF Init, PlaceInv, CachedOnce, ParkedOnce, FreshOnce, DoomedOnce, TornOnce, NoneTwice,
           TeardownHasOne
  <1> QED BY <1>1, <1>2, <1>3 DEF InstanceInv

\* A step that takes nothing anywhere.
LEMMA PlacesStay ==
  ASSUME InstanceInv, CountTypes', UNCHANGED <<cached, parked, made, torn, doomed>>,
         lru' \in Seq(Keys), NoneTwice(lru'), Range(lru') = Range(lru),
         \A q \in Requests : pc'[q] = "insert" => pc[q] = "insert" /\ inst'[q] = inst[q],
         \A q \in Requests : pc'[q] = "teardown" => pc[q] = "teardown"
  PROVE  InstanceInv'
  <1> USE DEF InstanceInv
  <1>1. InstanceTypes'
    BY DEF InstanceTypes
  <1>2. LruInv'
    BY DEF LruInv
  <1>3. /\ \A i : IsCached(i)' = IsCached(i) /\ IsParked(i)' = IsParked(i) /\ IsTorn(i)' = IsTorn(i)
        /\ \A i : IsDoomed(i)' = IsDoomed(i) /\ (IsFresh(i)' => IsFresh(i))
    BY DEF IsCached, IsParked, IsTorn, IsDoomed, IsFresh
  <1>4. CachedOnce' /\ ParkedOnce'
    BY <1>3 DEF PlaceInv, CachedOnce, ParkedOnce
  <1>5. FreshOnce' /\ DoomedOnce'
    BY <1>3 DEF PlaceInv, FreshOnce, DoomedOnce
  <1>6. TornOnce' /\ TeardownHasOne'
    BY DEF PlaceInv, TornOnce, TeardownHasOne
  <1> QED BY <1>1, <1>2, <1>4, <1>5, <1>6 DEF PlaceInv

\* A load makes an instance that was nowhere.
LEMMA LoadMakesNew ==
  ASSUME InstanceInv, CountTypes', NEW r \in Requests, Load(r)
  PROVE  InstanceInv'
  <1> USE DEF InstanceInv
  <1>1. /\ made' = made + 1 /\ inst' = [inst EXCEPT ![r] = made + 1] /\ pc' = [pc EXCEPT ![r] = "insert"]
        /\ UNCHANGED <<lru, cached, parked, torn, doomed>> /\ pc[r] = "loading"
    BY DEF Load, Step
  <1>2. InstanceTypes'
    BY <1>1 DEF InstanceTypes
  <1>3. LruInv'
    BY <1>1 DEF LruInv
  <1>4. /\ made \in Nat /\ inst \in [Requests -> Nat] /\ DOMAIN pc = Requests
        /\ cached \in [Keys -> Nat] /\ parked \in [Keys -> Nat] /\ torn \in Seq(Nat)
    BY DEF InstanceTypes, CountTypes
  <1>5. /\ \A i : IsCached(i)' = IsCached(i) /\ IsParked(i)' = IsParked(i) /\ IsTorn(i)' = IsTorn(i)
        /\ \A i : IsDoomed(i)' = IsDoomed(i) /\ (IsFresh(i)' => IsFresh(i) \/ i = made + 1)
    BY <1>1, <1>4 DEF IsCached, IsParked, IsTorn, IsDoomed, IsFresh
  <1>6. ~IsTorn(made + 1) /\ ~IsDoomed(made + 1)
    BY <1>4 DEF PlaceInv, TornOnce, DoomedOnce, IsTorn, IsDoomed
  <1>7. CachedOnce' /\ ParkedOnce'
    BY <1>1, <1>4, <1>5 DEF PlaceInv, CachedOnce, ParkedOnce
  <1>8. FreshOnce'
    BY <1>1, <1>4, <1>5, <1>6 DEF PlaceInv, FreshOnce
  <1>9. DoomedOnce'
    BY <1>1, <1>4, <1>5 DEF PlaceInv, DoomedOnce
  <1>10. TornOnce' /\ TeardownHasOne'
    BY <1>1, <1>4 DEF PlaceInv, TornOnce, TeardownHasOne
  <1> QED BY <1>2, <1>3, <1>7, <1>8, <1>9, <1>10 DEF PlaceInv

\* A parked instance is taken back into the cache.
LEMMA UnparkMoves ==
  ASSUME InstanceInv, CountTypes', NEW r \in Requests, RecheckUnpark(r)
  PROVE  InstanceInv'
  <1> USE DEF InstanceInv
  <1> DEFINE k == key[r]
  <1>1. /\ k \notin Range(lru) /\ parked[k] # 0 /\ pc[r] = "recheck"
        /\ pc' = [pc EXCEPT ![r] = "acquired"] /\ parked' = [parked EXCEPT ![k] = 0]
        /\ cached' = [cached EXCEPT ![k] = parked[k]] /\ lru' = Append(lru, k)
        /\ inst' = [inst EXCEPT ![r] = parked[k]]
        /\ UNCHANGED <<made, torn, doomed>>
    BY DEF RecheckUnpark, Step, Unpark, AcquireLocked
  <1>2. /\ made \in Nat /\ inst \in [Requests -> Nat] /\ DOMAIN pc = Requests /\ k \in Keys
        /\ cached \in [Keys -> Nat] /\ parked \in [Keys -> Nat] /\ torn \in Seq(Nat)
        /\ lru \in Seq(Keys)
    BY DEF InstanceTypes, CountTypes
  <1> HIDE DEF k
  <1>3. lru' \in Seq(Keys) /\ NoneTwice(lru') /\ Range(lru') = Range(lru) \cup {k}
    BY <1>1, <1>2, PutAtEnd DEF LruInv
  <1>4. InstanceTypes'
    BY <1>1, <1>3 DEF InstanceTypes
  <1>5. LruInv'
    BY <1>1, <1>2, <1>3 DEF LruInv
  <1>6. /\ \A l \in Keys : cached'[l] = (IF l = k THEN parked[k] ELSE cached[l])
        /\ \A l \in Keys : parked'[l] = (IF l = k THEN 0 ELSE parked[l])
        /\ \A q \in Requests : pc'[q] = "insert" => pc[q] = "insert" /\ inst'[q] = inst[q]
        /\ \A q \in Requests : pc'[q] = "teardown" => pc[q] = "teardown"
    BY <1>1, <1>2
  <1>7. /\ \A i : IsTorn(i)' = IsTorn(i) /\ IsDoomed(i)' = IsDoomed(i)
        /\ \A i : IsFresh(i)' => IsFresh(i)
    BY <1>1, <1>6 DEF IsTorn, IsDoomed, IsFresh
  <1>8. \A i : i # 0 => (IsParked(i)' => IsParked(i) /\ i # parked[k])
    BY <1>2, <1>6 DEF IsParked, PlaceInv, ParkedOnce
  <1>9. CachedOnce'
    <2> SUFFICES ASSUME NEW l \in Keys, NEW i \in Nat \ {0}, cached'[l] = i
                 PROVE  /\ i <= made' /\ ~IsParked(i)' /\ ~IsFresh(i)' /\ ~IsDoomed(i)' /\ ~IsTorn(i)'
                        /\ \A m \in Keys : cached'[m] = i => m = l
      <3>1. cached' \in [Keys -> Nat]
        BY DEF CountTypes
      <3> QED BY <3>1 DEF CachedOnce, IsParked, IsFresh, IsDoomed, IsTorn
    <2>1. CASE l = k
      <3>1. i = parked[k]
        BY <1>6, <2>1
      <3>2. i <= made /\ ~IsFresh(i) /\ ~IsDoomed(i) /\ ~IsTorn(i)
        BY <1>2, <3>1 DEF PlaceInv, ParkedOnce
      <3>3. ~IsParked(i)' /\ IsTorn(i)' = IsTorn(i) /\ IsDoomed(i)' = IsDoomed(i)
        BY <1>7, <1>8, <3>1
      <3>4. \A m \in Keys : cached[m] # i
        BY <1>2, <3>1 DEF PlaceInv, CachedOnce, IsParked
      <3>5. \A m \in Keys : cached'[m] = i => m = l
        BY <1>6, <2>1, <3>4
      <3> QED BY <1>1, <1>7, <3>2, <3>3, <3>5
    <2>2. CASE l # k
      <3>1. i = cached[l]
        BY <1>6, <2>2
      <3>2. /\ i <= made /\ ~IsParked(i) /\ ~IsFresh(i) /\ ~IsDoomed(i) /\ ~IsTorn(i)
            /\ \A m \in Keys : cached[m] = i => m = l
        BY <3>1 DEF PlaceInv, CachedOnce
      <3>3. ~IsParked(i)' /\ IsTorn(i)' = IsTorn(i) /\ IsDoomed(i)' = IsDoomed(i)
        BY <1>7, <1>8, <3>2
      <3>4. parked[k] # i
        BY <1>2, <3>2 DEF IsParked
      <3>5. \A m \in Keys : cached'[m] = i => m = l
        BY <1>6, <3>2, <3>4
      <3> QED BY <1>1, <1>7, <3>2, <3>3, <3>5
    <2> QED BY <2>1, <2>2
  <1>10. ParkedOnce'
    BY <1>1, <1>6, <1>7 DEF PlaceInv, ParkedOnce
  <1>11. FreshOnce' /\ DoomedOnce'
    BY <1>1, <1>6, <1>7 DEF PlaceInv, FreshOnce, DoomedOnce
  <1>12. TornOnce' /\ TeardownHasOne'
    BY <1>1, <1>6 DEF PlaceInv, TornOnce, TeardownHasOne
  <1> QED BY <1>4, <1>5, <1>9, <1>10, <1>11, <1>12 DEF PlaceInv

\* An insertion puts the fresh instance into the cache, and what it evicts among the parked
\* or the doomed ones.
LEMMA InsertMoves ==
  ASSUME InstanceInv, CountTypes', NEW r \in Requests, Insert(r)
  PROVE  InstanceInv'
  <1> USE DEF InstanceInv
  <1> DEFINE k == key[r]
             full == IF k \in Range(lru) THEN lru ELSE Append(lru, k)
             x == Excess(full)
             out == SubSeq(full, 1, x)
             rest == SubSeq(full, x + 1, Len(full))
             I == [cached EXCEPT ![k] = inst[r]]
             idle == {n \in DOMAIN out : ~(refs[out[n]] > 0)}
             queue == [n \in idle |-> <<out[n], I[out[n]]>>]
  <1>1. /\ pc[r] = "insert" /\ pc' = [pc EXCEPT ![r] = "sweep"] /\ lru' = rest
        /\ cached' = [e \in Keys |-> IF e \in Range(out) THEN 0 ELSE I[e]]
        /\ parked' = [e \in Keys |-> IF e \in Range(out) /\ refs[e] > 0 THEN I[e] ELSE parked[e]]
        /\ doomed' = [doomed EXCEPT ![r] = queue]
        /\ UNCHANGED <<made, torn, inst>>
    BY DEF Insert, Step
  <1>2. /\ made \in Nat /\ inst \in [Requests -> Nat] /\ DOMAIN pc = Requests /\ k \in Keys
        /\ cached \in [Keys -> Nat] /\ parked \in [Keys -> Nat] /\ torn \in Seq(Nat)
        /\ lru \in Seq(Keys) /\ refs \in [Keys -> Nat]
    BY DEF InstanceTypes, CountTypes
  <1>3. full \in Seq(Keys) /\ NoneTwice(full) /\ Range(full) = Range(lru) \cup {k}
    BY <1>2, PutAtEnd DEF LruInv
  <1>4. x \in 0 .. Len(full)
    BY <1>3, CacheAssumption DEF Excess
  <1>5. I \in [Keys -> Nat] /\ \A e \in Keys : I[e] = (IF e = k THEN inst[r] ELSE cached[e])
    BY <1>2
  <1> HIDE DEF k, full, x, I
  <1>6. /\ out \in Seq(Keys) /\ NoneTwice(out) /\ DOMAIN out = 1 .. x /\ x \in Nat
        /\ rest \in Seq(Keys) /\ NoneTwice(rest)
        /\ Range(rest) = Range(full) \ Range(out) /\ Range(out) \subseteq Range(full)
    BY <1>3, <1>4, FrontEvicted
  <1> HIDE DEF out, rest
  <1>7. Range(out) \subseteq Keys /\ \A n \in DOMAIN out : out[n] \in Range(out)
    BY <1>6 DEF Range
  <1>8. \A e \in Keys : e \in Range(full) <=> I[e] # 0
    BY <1>1, <1>2, <1>3, <1>5 DEF LruInv, PlaceInv, FreshOnce, k
  <1>9. ASSUME NEW e \in Keys, I[e] # 0
        PROVE  /\ I[e] \in 1 .. made /\ ~IsParked(I[e]) /\ ~IsDoomed(I[e]) /\ ~IsTorn(I[e])
               /\ \A q \in Requests \ {r} : pc[q] = "insert" => inst[q] # I[e]
               /\ \A f \in Keys : I[f] = I[e] => f = e
    <2>1. CASE e = k
      <3>1. I[e] = inst[r]
        BY <1>5, <2>1
      <3>2. /\ inst[r] \in 1 .. made /\ ~IsDoomed(inst[r]) /\ ~IsTorn(inst[r])
            /\ \A q \in Requests \ {r} : pc[q] = "insert" => inst[q] # inst[r]
        BY <1>1 DEF PlaceInv, FreshOnce
      <3>3. IsFresh(inst[r])
        BY <1>1 DEF IsFresh
      <3>4. ~IsParked(inst[r]) /\ \A f \in Keys : cached[f] # inst[r]
        BY <3>2, <3>3 DEF PlaceInv, CachedOnce, ParkedOnce, IsParked
      <3> QED BY <1>5, <2>1, <3>1, <3>2, <3>4
    <2>2. CASE e # k
      <3>1. I[e] = cached[e]
        BY <1>5, <2>2
      <3>2. /\ cached[e] <= made /\ ~IsParked(cached[e]) /\ ~IsFresh(cached[e])
            /\ ~IsDoomed(cached[e]) /\ ~IsTorn(cached[e])
            /\ \A l \in Keys : cached[l] = cached[e] => l = e
        BY <1>9, <3>1 DEF PlaceInv, CachedOnce
      <3>3. \A q \in Requests : pc[q] = "insert" => inst[q] # cached[e]
        BY <3>2 DEF IsFresh
      <3> QED BY <1>1, <1>2, <1>5, <1>9, <2>2, <3>1, <3>2, <3>3
    <2> QED BY <2>1, <2>2
  <1>10. /\ \A e \in Keys : cached'[e] = (IF e \in Range(out) THEN 0 ELSE I[e])
         /\ \A e \in Keys : parked'[e] = (IF e \in Range(out) /\ refs[e] > 0 THEN I[e] ELSE parked[e])
         /\ \A q \in Requests : doomed'[q] = (IF q = r THEN queue ELSE doomed[q])
         /\ \A q \in Requests : pc'[q] = "insert" => q # r /\ pc[q] = "insert" /\ inst'[q] = inst[q]
         /\ \A q \in Requests : pc'[q] = "teardown" => q # r /\ pc[q] = "teardown"
         /\ doomed' = [q \in Requests |-> doomed'[q]]
    BY <1>1, <1>2 DEF InstanceTypes
  <1>11. /\ DOMAIN queue \subseteq DOMAIN out
         /\ \A n \in DOMAIN queue : queue[n][2] = I[out[n]] /\ ~(refs[out[n]] > 0)
    OBVIOUS
  <1> HIDE DEF queue
  <1>12. InstanceTypes'
    BY <1>1, <1>6, <1>10, <1>11 DEF InstanceTypes
  <1>13. LruInv'
    BY <1>1, <1>6, <1>7, <1>8, <1>10 DEF LruInv
  <1>14. /\ \A i : IsTorn(i)' = IsTorn(i)
         /\ \A i : IsFresh(i)' => \E q \in Requests \ {r} : pc[q] = "insert" /\ inst[q] = i
         /\ \A i : IsFresh(i)' => IsFresh(i)
    BY <1>1, <1>10 DEF IsTorn, IsFresh
  <1>15. \A i : IsParked(i)' => IsParked(i) \/ \E e \in Range(out) : refs[e] > 0 /\ I[e] = i
    BY <1>10 DEF IsParked
  <1>16. \A i : IsDoomed(i)' => IsDoomed(i) \/ \E e \in Range(out) : ~(refs[e] > 0) /\ I[e] = i
    BY <1>7, <1>10, <1>11 DEF IsDoomed
  <1>17. CachedOnce'
    <2> SUFFICES ASSUME NEW l \in Keys, NEW i \in Nat \ {0}, cached'[l] = i
                 PROVE  /\ i <= made' /\ ~IsParked(i)' /\ ~IsFresh(i)' /\ ~IsDoomed(i)' /\ ~IsTorn(i)'
                        /\ \A m \in Keys : cached'[m] = i => m = l
      <3>1. cached' \in [Keys -> Nat]
        BY DEF CountTypes
      <3> QED BY <3>1 DEF CachedOnce, IsParked, IsFresh, IsDoomed, IsTorn
    <2>1. l \notin Range(out) /\ I[l] = i
      BY <1>10
    <2>2. /\ i <= made /\ ~IsParked(i) /\ ~IsDoomed(i) /\ ~IsTorn(i)
          /\ \A q \in Requests \ {r} : pc[q] = "insert" => inst[q] # i
          /\ \A f \in Keys : I[f] = i => f = l
      <3>1. /\ I[l] \in 1 .. made /\ ~IsParked(I[l]) /\ ~IsDoomed(I[l]) /\ ~IsTorn(I[l])
            /\ \A q \in Requests \ {r} : pc[q] = "insert" => inst[q] # I[l]
            /\ \A f \in Keys : I[f] = I[l] => f = l
        BY <1>9, <2>1
      <3> QED BY <1>2, <2>1, <3>1
    <2>3. \A e \in Range(out) : I[e] # i
      BY <1>7, <2>1, <2>2
    <2>4. ~IsParked(i)' /\ ~IsDoomed(i)' /\ ~IsFresh(i)' /\ ~IsTorn(i)'
      BY <1>14, <1>15, <1>16, <2>2, <2>3
    <2>5. \A m \in Keys : cached'[m] = i => m = l
      BY <1>10, <2>2
    <2> QED BY <1>1, <2>2, <2>4, <2>5
  <1>18. ParkedOnce'
    <2> SUFFICES ASSUME NEW l \in Keys, NEW i \in Nat \ {0}, parked'[l] = i
                 PROVE  /\ i <= made' /\ ~IsFresh(i)' /\ ~IsDoomed(i)' /\ ~IsTorn(i)'
                        /\ \A m \in Keys : parked'[m] = i => m = l
      <3>1. parked' \in [Keys -> Nat]
        BY DEF CountTypes
      <3> QED BY <3>1 DEF ParkedOnce, IsFresh, IsDoomed, IsTorn
    <2>1. CASE l \in Range(out) /\ refs[l] > 0
      <3>1. I[l] = i
        BY <1>10, <2>1
      <3>2. /\ i <= made /\ ~IsParked(i) /\ ~IsDoomed(i) /\ ~IsTorn(i)
            /\ \A q \in Requests \ {r} : pc[q] = "insert" => inst[q] # i
            /\ \A f \in Keys : I[f] = i => f = l
        BY <1>2, <1>9, <3>1
      <3>3. ~IsDoomed(i)' /\ ~IsFresh(i)' /\ ~IsTorn(i)'
        BY <1>7, <1>14, <1>16, <2>1, <3>2
      <3>4. \A m \in Keys : parked'[m] = i => m = l
        BY <1>10, <3>2 DEF IsParked
      <3> QED BY <1>1, <3>2, <3>3, <3>4
    <2>2. CASE ~(l \in Range(out) /\ refs[l] > 0)
      <3>1. parked[l] = i
        BY <1>10, <2>2
      <3>2. /\ i <= made /\ ~IsFresh(i) /\ ~IsDoomed(i) /\ ~IsTorn(i)
            /\ \A m \in Keys : parked[m] = i => m = l
        BY <3>1 DEF PlaceInv, ParkedOnce
      <3>3. \A e \in Keys : I[e] # i
        BY <1>9, <3>1 DEF IsParked
      <3>4. ~IsDoomed(i)' /\ ~IsFresh(i)' /\ ~IsTorn(i)'
        BY <1>7, <1>14, <1>16, <3>2, <3>3
      <3>5. \A m \in Keys : parked'[m] = i => m = l
        BY <1>10, <3>2, <3>3
      <3> QED BY <1>1, <3>2, <3>4, <3>5
    <2> QED BY <2>1, <2>2
  <1>19. FreshOnce'
    <2> SUFFICES ASSUME NEW q \in Requests, pc'[q] = "insert"
                 PROVE  /\ inst[q] \in 1 .. made /\ ~IsDoomed(inst[q])' /\ ~IsTorn(inst[q])
                        /\ \A p \in Requests : pc'[p] = "insert" /\ inst[p] = inst[q] => p = q
      BY <1>1, <1>14 DEF FreshOnce, IsDoomed, IsTorn
    <2>1. q # r /\ pc[q] = "insert"
      BY <1>10
    <2>2. \A e \in Keys : I[e] # inst[q]
      BY <1>9, <2>1 DEF PlaceInv, FreshOnce
    <2>3. ~IsDoomed(inst[q]) /\ ~IsTorn(inst[q]) /\ inst[q] \in 1 .. made
      BY <2>1 DEF PlaceInv, FreshOnce
    <2>4. \A i : i = inst[q] => ~IsDoomed(i)'
      BY <1>7, <1>16, <2>2, <2>3
    <2>5. ~IsDoomed(inst[q])'
      BY <1>1, <2>4 DEF IsDoomed
    <2>6. \A p \in Requests : pc'[p] = "insert" /\ inst[p] = inst[q] => p = q
      BY <1>10, <2>1 DEF PlaceInv, FreshOnce
    <2> QED BY <2>3, <2>5, <2>6
  <1>20. DoomedOnce'
    <2> SUFFICES ASSUME NEW q \in Requests, NEW n \in DOMAIN doomed'[q], NEW i, i = doomed'[q][n][2]
                 PROVE  /\ i \in 1 .. made /\ ~IsTorn(i)
                        /\ \A p \in Requests : \A m \in DOMAIN doomed'[p] :
                             doomed'[p][m][2] = i => p = q /\ m = n
      BY <1>1 DEF DoomedOnce, IsTorn
    <2>1. CASE q = r
      <3>1. /\ n \in DOMAIN queue /\ n \in DOMAIN out /\ out[n] \in Range(out)
            /\ i = I[out[n]] /\ out[n] \in Keys /\ I[out[n]] # 0
        BY <1>6, <1>7, <1>8, <1>10, <1>11, <2>1
      <3>2. /\ i \in 1 .. made /\ ~IsDoomed(i) /\ ~IsTorn(i)
            /\ \A f \in Keys : I[f] = i => f = out[n]
        BY <1>9, <3>1
      <3>3. ASSUME NEW p \in Requests, NEW m \in DOMAIN doomed'[p], doomed'[p][m][2] = i
            PROVE  p = r /\ m = n
        <4>1. p = r
          BY <1>10, <3>2, <3>3 DEF IsDoomed
        <4>2. m \in DOMAIN queue /\ m \in DOMAIN out /\ I[out[m]] = i /\ out[m] \in Keys
          BY <1>7, <1>10, <1>11, <3>3, <4>1
        <4>3. out[m] = out[n]
          BY <3>2, <4>2
        <4> QED BY <1>6, <3>1, <4>1, <4>2, <4>3 DEF NoneTwice
      <3> QED BY <2>1, <3>2, <3>3
    <2>2. CASE q # r
      <3>1. n \in DOMAIN doomed[q] /\ i = doomed[q][n][2]
        BY <1>10, <2>2
      <3>2. /\ i \in 1 .. made /\ ~IsTorn(i) /\ IsDoomed(i)
            /\ \A p \in Requests : \A m \in DOMAIN doomed[p] : doomed[p][m][2] = i => p = q /\ m = n
        BY <3>1 DEF PlaceInv, DoomedOnce, IsDoomed
      <3>3. \A e \in Keys : I[e] # i
        BY <1>9, <3>2
      <3>4. \A m \in DOMAIN queue : queue[m][2] # i
        BY <1>7, <1>11, <3>3
      <3> QED BY <1>10, <3>2, <3>4
    <2> QED BY <2>1, <2>2
  <1>21. TornOnce' /\ TeardownHasOne'
    BY <1>1, <1>10 DEF PlaceInv, TornOnce, TeardownHasOne
  <1> QED BY <1>12, <1>13, <1>17, <1>18, <1>19, <1>20, <1>21 DEF PlaceInv

\* A doomed instance is torn down.
LEMMA DoomedIsTorn ==
  ASSUME InstanceInv, CountTypes', NEW r \in Requests, NEW n \in DOMAIN doomed[r],
         UNCHANGED <<lru, cached, parked, made, inst>>,
         \A q \in Requests : pc'[q] = "insert" => pc[q] = "insert",
         \A q \in Requests : pc'[q] = "teardown" => q # r /\ pc[q] = "teardown",
         torn' = Append(torn, doomed[r][n][2]),
         doomed' = [q \in Requests |-> doomed'[q]],
         \A q \in Requests \ {r} : doomed'[q] = doomed[q],
         DOMAIN doomed'[r] \subseteq DOMAIN doomed[r] \ {n},
         \A m \in DOMAIN doomed'[r] : doomed'[r][m] = doomed[r][m]
  PROVE  InstanceInv'
  <1> USE DEF InstanceInv
  <1>0. PICK d : d = doomed[r][n][2]
    OBVIOUS
  <1>1. d \in 1 .. made /\ made \in Nat /\ torn \in Seq(Nat) /\ ~IsTorn(d) /\ IsDoomed(d)
    BY <1>0 DEF InstanceTypes, CountTypes, PlaceInv, DoomedOnce, IsDoomed
  <1>2. /\ torn' \in Seq(Nat) /\ DOMAIN torn' = DOMAIN torn \cup {Len(torn) + 1}
        /\ Len(torn) + 1 \notin DOMAIN torn
        /\ torn'[Len(torn) + 1] = d /\ \A m \in DOMAIN torn : torn'[m] = torn[m]
    <2>1. torn' = Append(torn, d) /\ d \in Nat
      BY <1>0, <1>1
    <2>2. /\ Append(torn, d) \in Seq(Nat) /\ Len(Append(torn, d)) = Len(torn) + 1 /\ Len(torn) \in Nat
          /\ DOMAIN Append(torn, d) = 1 .. Len(torn) + 1 /\ DOMAIN torn = 1 .. Len(torn)
          /\ Append(torn, d)[Len(torn) + 1] = d
          /\ \A m \in 1 .. Len(torn) : Append(torn, d)[m] = torn[m]
      BY <1>1, <2>1
    <2> QED BY <2>1, <2>2
  <1>3. InstanceTypes'
    BY <1>2 DEF InstanceTypes
  <1>4. LruInv'
    BY DEF LruInv
  <1>5. /\ \A i : IsTorn(i)' <=> IsTorn(i) \/ i = d
        /\ \A i : IsDoomed(i)' => IsDoomed(i) /\ i # d
        /\ \A i : IsCached(i)' = IsCached(i) /\ IsParked(i)' = IsParked(i)
        /\ \A i : IsFresh(i)' => IsFresh(i)
    <2>1. \A i : IsTorn(i)' <=> IsTorn(i) \/ i = d
      BY <1>2 DEF IsTorn
    <2>2. ASSUME NEW i, IsDoomed(i)' PROVE IsDoomed(i) /\ i # d
      <3>1. PICK q \in Requests : \E m \in DOMAIN doomed'[q] : doomed'[q][m][2] = i
        BY <2>2 DEF IsDoomed
      <3>0. PICK m \in DOMAIN doomed'[q] : doomed'[q][m][2] = i
        BY <3>1
      <3>2. m \in DOMAIN doomed[q] /\ doomed[q][m][2] = i /\ ~(q = r /\ m = n)
        BY <3>0
      <3>3. i # d
        BY <1>0, <3>2 DEF PlaceInv, DoomedOnce
      <3> QED BY <3>2, <3>3 DEF IsDoomed
    <2>3. /\ \A i : IsCached(i)' = IsCached(i) /\ IsParked(i)' = IsParked(i)
          /\ \A i : IsFresh(i)' => IsFresh(i)
      BY DEF IsCached, IsParked, IsFresh
    <2> QED BY <2>1, <2>2, <2>3
  <1>6. CachedOnce' /\ ParkedOnce'
    BY <1>1, <1>5 DEF PlaceInv, CachedOnce, ParkedOnce
  <1>7. FreshOnce'
    BY <1>1, <1>5 DEF PlaceInv, FreshOnce
  <1>8. DoomedOnce'
    <2> SUFFICES ASSUME NEW q \in Requests, NEW m \in DOMAIN doomed'[q], NEW i, i = doomed'[q][m][2]
                 PROVE  /\ i \in 1 .. made /\ ~IsTorn(i)'
                        /\ \A p \in Requests : \A o \in DOMAIN doomed'[p] :
                             doomed'[p][o][2] = i => p = q /\ o = m
      BY DEF DoomedOnce, IsTorn
    <2>1. m \in DOMAIN doomed[q] /\ i = doomed[q][m][2] /\ ~(q = r /\ m = n)
      OBVIOUS
    <2>2. /\ i \in 1 .. made /\ ~IsTorn(i)
          /\ \A p \in Requests : \A o \in DOMAIN doomed[p] : doomed[p][o][2] = i => p = q /\ o = m
      BY <2>1 DEF PlaceInv, DoomedOnce
    <2>3. i # d
      BY <1>0, <2>1, <2>2
    <2>4. \A p \in Requests : \A o \in DOMAIN doomed'[p] :
            o \in DOMAIN doomed[p] /\ doomed'[p][o] = doomed[p][o]
      OBVIOUS
    <2> QED BY <1>5, <2>2, <2>3, <2>4
  <1>9. TornOnce'
    BY <1>1, <1>2 DEF PlaceInv, TornOnce, NoneTwice, IsTorn
  <1>10. TeardownHasOne'
    BY DEF PlaceInv, TeardownHasOne
  <1> QED BY <1>3, <1>4, <1>6, <1>7, <1>8, <1>9, <1>10 DEF PlaceInv

\* The last release takes the parked instance along to its teardown.
LEMMA ReleaseMoves ==
  ASSUME InstanceInv, CountTypes', NEW r \in Requests, Release(r)
  PROVE  InstanceInv'
  <1> USE DEF InstanceInv
  <1> DEFINE k == key[r]
  <1>1. /\ made \in Nat /\ inst \in [Requests -> Nat] /\ pc \in [Requests -> Places] /\ k \in Keys
        /\ cached \in [Keys -> Nat] /\ parked \in [Keys -> Nat]
    BY DEF InstanceTypes, CountTypes
  <1>2. pc[r] = "finished" /\ UNCHANGED <<lru, cached, made, torn, inst>>
    BY DEF Release, Step
  <1>3. CASE UNCHANGED <<parked, doomed>>
    <2>1. \A q \in Requests : pc'[q] \in {"insert", "teardown"} => pc'[q] = pc[q]
      BY <1>1, <1>2, <1>3 DEF Release, Step, Unpark, k
    <2> QED BY <1>2, <1>3, <2>1, PlacesStay DEF InstanceTypes, LruInv
  <1>4. CASE /\ parked' = [parked EXCEPT ![k] = 0] /\ parked[k] = 0
             /\ pc' = [pc EXCEPT ![r] = "done"] /\ doomed' = doomed
    <2>1. parked' = parked
      BY <1>1, <1>4
    <2> QED BY <1>3, <1>4, <2>1
  <1>5. CASE /\ parked' = [parked EXCEPT ![k] = 0] /\ parked[k] # 0
             /\ pc' = [pc EXCEPT ![r] = "teardown"]
             /\ doomed' = [doomed EXCEPT ![r] = <<<<k, parked[k]>>>>]
    <2>0. PICK i \in Nat \ {0} : i = parked[k]
      BY <1>1, <1>5
    <2> HIDE DEF k
    <2>1. /\ \A l \in Keys : parked'[l] = (IF l = k THEN 0 ELSE parked[l])
          /\ \A q \in Requests \ {r} : doomed'[q] = doomed[q] /\ pc'[q] = pc[q]
          /\ DOMAIN doomed'[r] = {1} /\ doomed'[r][1][2] = i /\ pc'[r] = "teardown"
          /\ doomed' = [q \in Requests |-> doomed'[q]]
      <3>1. PICK one : one = <<<<k, i>>>>
        OBVIOUS
      <3>2. DOMAIN one = {1} /\ one[1][2] = i
        BY <3>1
      <3>3. doomed' = [doomed EXCEPT ![r] = one]
        BY <1>5, <2>0, <3>1
      <3>4. doomed'[r] = one /\ \A q \in Requests \ {r} : doomed'[q] = doomed[q]
        BY <3>3 DEF InstanceTypes
      <3>5. doomed' = [q \in Requests |-> doomed'[q]]
        BY <3>3 DEF InstanceTypes
      <3> QED BY <1>1, <1>5, <3>2, <3>4, <3>5
    <2>2. InstanceTypes'
      BY <1>2, <2>1 DEF InstanceTypes
    <2>3. LruInv'
      BY <1>2 DEF LruInv
    <2>4. /\ i <= made /\ ~IsFresh(i) /\ ~IsDoomed(i) /\ ~IsTorn(i)
          /\ \A l \in Keys : parked[l] = i => l = k
      BY <1>1, <2>0 DEF PlaceInv, ParkedOnce
    <2>5. \A l \in Keys : cached[l] # i
      BY <1>1, <2>0 DEF PlaceInv, CachedOnce, IsParked
    <2>6. /\ \A j : IsTorn(j)' = IsTorn(j) /\ (IsFresh(j)' => IsFresh(j))
          /\ \A j : j # 0 /\ IsParked(j)' => IsParked(j) /\ j # i
          /\ \A j : IsDoomed(j)' => IsDoomed(j) \/ j = i
      <3>1. \A j : IsTorn(j)' = IsTorn(j) /\ (IsFresh(j)' => IsFresh(j))
        BY <1>2, <2>1 DEF IsTorn, IsFresh
      <3>2. \A j : j # 0 /\ IsParked(j)' => IsParked(j) /\ j # i
        BY <2>1, <2>4 DEF IsParked
      <3>3. \A j : IsDoomed(j)' => IsDoomed(j) \/ j = i
        BY <2>1 DEF IsDoomed
      <3> QED BY <3>1, <3>2, <3>3
    <2>7. CachedOnce'
      BY <1>1, <1>2, <2>5, <2>6 DEF PlaceInv, CachedOnce
    <2>8. ParkedOnce'
      BY <1>1, <1>2, <2>1, <2>4, <2>6 DEF PlaceInv, ParkedOnce
    <2>9. FreshOnce'
      BY <1>2, <2>1, <2>4, <2>6 DEF PlaceInv, FreshOnce, IsFresh
    <2>10. DoomedOnce'
      <3> SUFFICES ASSUME NEW q \in Requests, NEW m \in DOMAIN doomed'[q], NEW j, j = doomed'[q][m][2]
                   PROVE  /\ j \in 1 .. made /\ ~IsTorn(j)
                          /\ \A p \in Requests : \A o \in DOMAIN doomed'[p] :
                               doomed'[p][o][2] = j => p = q /\ o = m
        BY <1>2, <2>6 DEF DoomedOnce
      <3>1. CASE q = r
        <4>1. j = i /\ m = 1
          BY <2>1, <3>1
        <4>2. \A p \in Requests \ {r} : \A o \in DOMAIN doomed[p] : doomed[p][o][2] # i
          BY <2>4 DEF IsDoomed
        <4>3. i \in 1 .. made
          BY <1>1, <2>0, <2>4
        <4> QED BY <2>1, <2>4, <3>1, <4>1, <4>2, <4>3
      <3>2. CASE q # r
        <4>1. m \in DOMAIN doomed[q] /\ j = doomed[q][m][2] /\ IsDoomed(j)
          BY <2>1, <3>2 DEF IsDoomed
        <4>2. /\ j \in 1 .. made /\ ~IsTorn(j)
              /\ \A p \in Requests : \A o \in DOMAIN doomed[p] : doomed[p][o][2] = j => p = q /\ o = m
          BY <4>1 DEF PlaceInv, DoomedOnce
        <4>3. j # i
          BY <2>4, <4>1
        <4> QED BY <2>1, <3>2, <4>2, <4>3
      <3> QED BY <3>1, <3>2
    <2>11. TornOnce' /\ TeardownHasOne'
      BY <1>2, <2>1 DEF PlaceInv, TornOnce, TeardownHasOne
    <2> QED BY <2>2, <2>3, <2>7, <2>8, <2>9, <2>10, <2>11 DEF PlaceInv
  <1> QED BY <1>3, <1>4, <1>5 DEF Release, Unpark, Step, k

\* No step puts an instance in two places.
LEMMA InstanceStep == InstanceInv /\ [Next]_vars => InstanceInv'
  <1> SUFFICES ASSUME InstanceInv, [Next]_vars PROVE InstanceInv'
    OBVIOUS
  <1>0. CountTypes /\ CountTypes' /\ pc \in [Requests -> Places] /\ lru \in Seq(Keys) /\ NoneTwice(lru)
    BY StepCountTypes DEF InstanceInv, InstanceTypes, CountTypes, LruInv
  <1>1. ASSUME NEW r \in Requests, GetOrLoad(r) PROVE InstanceInv'
    <2>1. CASE LookupHit(r) \/ RecheckHit(r)
      <3>1. key[r] \in Range(lru) /\ MoveToEnd(key[r]) /\ UNCHANGED <<cached, parked, made, torn, doomed>>
        BY <2>1 DEF LookupHit, RecheckHit
      <3>2. lru' \in Seq(Keys) /\ NoneTwice(lru') /\ Range(lru') = Range(lru)
        BY <1>0, <3>1, MovedToEnd DEF MoveToEnd
      <3>3. \A q \in Requests : pc'[q] \in {"insert", "teardown"} => pc'[q] = pc[q] /\ inst'[q] = inst[q]
        BY <1>0, <2>1 DEF LookupHit, RecheckHit, Step, AcquireLocked, CountTypes
      <3> QED BY <1>0, <3>1, <3>2, <3>3, PlacesStay
    <2>2. CASE LookupMiss(r) \/ TakeLoadLock(r) \/ RecheckMiss(r) \/ LoadFails(r) \/ SweepDone(r)
      <3>1. UNCHANGED <<lru, cached, parked, made, torn, doomed, inst>>
        BY <2>2 DEF LookupMiss, TakeLoadLock, RecheckMiss, LoadFails, SweepDone
      <3>2. \A q \in Requests : pc'[q] \in {"insert", "teardown"} => pc'[q] = pc[q]
        BY <1>0, <2>2 DEF LookupMiss, TakeLoadLock, RecheckMiss, LoadFails, SweepDone, Step
      <3> QED BY <1>0, <3>1, <3>2, PlacesStay
    <2>3. CASE SweepOne(r)
      <3>1. PICK n \in DOMAIN doomed[r] :
              /\ torn' = Append(torn, doomed[r][n][2])
              /\ doomed' = [doomed EXCEPT ![r] = Restrict(doomed[r], DOMAIN doomed[r] \ {n})]
        BY <2>3 DEF SweepOne
      <3>2. UNCHANGED <<lru, cached, parked, made, inst, pc>> /\ pc[r] = "sweep"
        BY <2>3 DEF SweepOne
      <3>3. /\ doomed' = [q \in Requests |-> doomed'[q]]
            /\ \A q \in Requests \ {r} : doomed'[q] = doomed[q]
            /\ doomed'[r] = [m \in DOMAIN doomed[r] \ {n} |-> doomed[r][m]]
        BY <3>1 DEF InstanceInv, InstanceTypes, Restrict
      <3> QED BY <1>0, <3>1, <3>2, <3>3, DoomedIsTorn
    <2> QED BY <1>0, <1>1, <2>1, <2>2, <2>3, UnparkMoves, LoadMakesNew, InsertMoves DEF GetOrLoad
  <1>2. ASSUME NEW r \in Requests, Use(r) PROVE InstanceInv'
    <2>1. CASE BeginRun(r) \/ RefuseDevice(r) \/ EndRun(r)
      <3>1. UNCHANGED <<lru, cached, parked, made, torn, doomed, inst>>
        BY <2>1 DEF BeginRun, RefuseDevice, EndRun
      <3>2. \A q \in Requests : pc'[q] \in {"insert", "teardown"} => pc'[q] = pc[q]
        BY <1>0, <2>1 DEF BeginRun, RefuseDevice, EndRun, Step
      <3> QED BY <1>0, <3>1, <3>2, PlacesStay
    <2>2. CASE TeardownParked(r)
      <3>1. /\ pc[r] = "teardown" /\ pc' = [pc EXCEPT ![r] = "done"]
            /\ torn' = Append(torn, doomed[r][1][2]) /\ doomed' = [doomed EXCEPT ![r] = <<>>]
            /\ UNCHANGED <<lru, cached, parked, made, inst>>
        BY <2>2 DEF TeardownParked, Step
      <3>2. DOMAIN doomed[r] = {1}
        BY <3>1 DEF InstanceInv, PlaceInv, TeardownHasOne
      <3>3. /\ doomed' = [q \in Requests |-> doomed'[q]] /\ doomed'[r] = <<>>
            /\ \A q \in Requests \ {r} : doomed'[q] = doomed[q]
        BY <3>1 DEF InstanceInv, InstanceTypes
      <3>4. DOMAIN doomed'[r] = {}
        BY <3>3
      <3>5. /\ \A q \in Requests : pc'[q] = "insert" => pc[q] = "insert"
            /\ \A q \in Requests : pc'[q] = "teardown" => q # r /\ pc[q] = "teardown"
        BY <1>0, <3>1
      <3> QED BY <1>0, <3>1, <3>2, <3>3, <3>4, <3>5, DoomedIsTorn
    <2> QED BY <1>0, <1>2, <2>1, <2>2, ReleaseMoves DEF Use
  <1>3. CASE UNCHANGED vars
    BY <1>0, <1>3, PlacesStay DEF vars
  <1> QED BY <1>1, <1>2, <1>3 DEF Next, AllAnswered

\* Evictions, last releases and models that are taken back meet on one instance, and yet it is
\* torn down once, and never found again from the moment that was decided.
THEOREM TeardownHappensOnce == Spec => []TeardownIsFinal
  <1>1. InstanceInv => TeardownIsFinal
    <2> SUFFICES ASSUME InstanceInv PROVE DoomedIsUnreachable /\ TornDownOnce
      BY DEF TeardownIsFinal
    <2> USE DEF InstanceInv, PlaceInv
    <2>1. TornDownOnce
      BY DEF TornDownOnce, TornOnce, NoneTwice
    <2>2. ASSUME NEW i, IsTorn(i) \/ IsDoomed(i), NEW k \in Keys
          PROVE  cached[k] # i /\ parked[k] # i
      <3>1. i # 0
        BY <2>2 DEF IsTorn, IsDoomed, TornOnce, DoomedOnce
      <3> QED BY <2>2, <3>1 DEF CachedOnce, ParkedOnce
    <2>3. \A i \in Range(torn) : IsTorn(i)
      BY DEF Range, IsTorn
    <2>4. \A i \in {d[2] : d \in UNION {Range(doomed[r]) : r \in Requests}} : IsDoomed(i)
      BY DEF Range, IsDoomed
    <2> QED BY <2>1, <2>2, <2>3, <2>4 DEF DoomedIsUnreachable
  <1> QED BY <1>1, InstanceInit, InstanceStep, PTL DEF Spec

-----------------------------------------------------------------------------
(* Who holds the locks                                                         *)

\* Between taking a lock and freeing it.
AtLock(r) == pc[r] \in {"recheck", "loading", "insert", "sweep", "running"}
Arrived == {r \in Requests : pc[r] # "new"}

LockTypes ==
  /\ lock \in [Requests -> Nat] /\ sidecar \in [Keys -> Nat] /\ locks \in Nat
  /\ holder \in [Ids -> Requests \cup {NoRequest}]

\* No more locks are made than requests have come, so that each has its place in holder, and
\* whoever is at a lock holds it.
HolderInv ==
  /\ LockTypes /\ locks <= Cardinality(Arrived)
  /\ \A r \in Requests : lock[r] <= locks
  /\ \A k \in Keys : sidecar[k] <= locks
  /\ \A r \in Requests : AtLock(r) => holder[lock[r]] = r

\* Each lock of a request is one of those that holder speaks of.
LEMMA LockIsKnown ==
  ASSUME HolderInv
  PROVE  /\ \A r \in Requests : lock[r] \in Ids
         /\ IsFiniteSet(Arrived) /\ Cardinality(Arrived) \in Nat
  <1>1. /\ IsFiniteSet(Arrived) /\ Cardinality(Arrived) \in Nat /\ Cardinality(Requests) \in Nat
        /\ Cardinality(Arrived) <= Cardinality(Requests)
    <2>1. Arrived \in SUBSET Requests
      BY DEF Arrived
    <2> QED BY <2>1, CacheAssumption, FS_Subset, FS_CardinalityType
  <1> QED BY <1>1 DEF HolderInv, LockTypes, Ids

\* Those that have come stay so.
LEMMA ArrivedStay ==
  ASSUME CountTypes, HolderInv, NEW r \in Requests, NEW p, p # "new", pc' = [pc EXCEPT ![r] = p]
  PROVE  /\ locks <= Cardinality(Arrived')
         /\ pc[r] = "new" => locks + 1 <= Cardinality(Arrived')
  <1>0. locks \in Nat /\ locks <= Cardinality(Arrived)
    BY DEF HolderInv, LockTypes
  <1>1. IsFiniteSet(Arrived) /\ Cardinality(Arrived) \in Nat
    BY LockIsKnown
  <1>2. CASE pc[r] = "new"
    <2>1. Arrived' = Arrived \cup {r} /\ r \notin Arrived
      BY <1>2 DEF Arrived, CountTypes
    <2>2. Cardinality(Arrived') = Cardinality(Arrived) + 1
      BY <1>1, <2>1, FS_AddElement
    <2> QED BY <1>0, <1>1, <2>2
  <1>3. CASE pc[r] # "new"
    <2>1. Arrived' = Arrived
      BY <1>3 DEF Arrived, CountTypes
    <2> QED BY <1>0, <1>3, <2>1
  <1> QED BY <1>2, <1>3

\* A request takes a free lock.
LEMMA LockIsTaken ==
  ASSUME CountTypes, HolderInv, NEW r \in Requests, NEW p \in {"recheck", "running"},
         pc' = [pc EXCEPT ![r] = p], pc[r] # "new",
         holder[lock[r]] = NoRequest, holder' = [holder EXCEPT ![lock[r]] = r],
         UNCHANGED <<lock, sidecar, locks>>
  PROVE  HolderInv'
  <1>1. \A q \in Requests : lock[q] \in Ids
    BY LockIsKnown
  <1>2. LockTypes'
    BY <1>1 DEF HolderInv, LockTypes
  <1>3. \A q \in Requests : AtLock(q)' => holder'[lock'[q]] = q
    BY <1>1, CacheAssumption DEF HolderInv, LockTypes, AtLock, CountTypes
  <1>4. locks <= Cardinality(Arrived')
    BY ArrivedStay
  <1> QED BY <1>2, <1>3, <1>4 DEF HolderInv

\* A request frees the lock it holds.
LEMMA LockIsFreed ==
  ASSUME CountTypes, HolderInv, NEW r \in Requests, NEW p \in {"acquired", "finished", "failed"},
         pc' = [pc EXCEPT ![r] = p], AtLock(r), Unlock(r),
         lock' = [lock EXCEPT ![r] = lock[r]], UNCHANGED <<sidecar, locks>>
  PROVE  HolderInv'
  <1>1. \A q \in Requests : lock[q] \in Ids
    BY LockIsKnown
  <1>2. lock' = lock
    BY DEF HolderInv, LockTypes
  <1>3. LockTypes'
    BY <1>1, <1>2 DEF HolderInv, LockTypes, Unlock
  <1>4. \A q \in Requests : AtLock(q)' => holder'[lock'[q]] = q
    BY <1>1, <1>2, CacheAssumption DEF HolderInv, LockTypes, AtLock, CountTypes, Unlock
  <1>5. locks <= Cardinality(Arrived')
    BY ArrivedStay
  <1> QED BY <1>2, <1>3, <1>4, <1>5 DEF HolderInv

\* A request moves without taking or freeing a lock; its keys may be given none.
LEMMA LocksStay ==
  ASSUME CountTypes, HolderInv, NEW r \in Requests, NEW p, p # "new",
         pc' = [pc EXCEPT ![r] = p],
         p \in {"recheck", "loading", "insert", "sweep", "running"} => AtLock(r) /\ lock'[r] = lock[r],
         holder' = holder, locks' = locks, lock' \in [Requests -> Nat], sidecar' \in [Keys -> Nat],
         \A q \in Requests : lock'[q] = lock[q] \/ (q = r /\ lock'[q] <= locks),
         \A k \in Keys : sidecar'[k] <= locks
  PROVE  HolderInv'
  <1>1. LockTypes'
    BY DEF HolderInv, LockTypes
  <1>2. \A q \in Requests : AtLock(q)' => holder'[lock'[q]] = q
    BY DEF HolderInv, LockTypes, AtLock, CountTypes
  <1>3. locks <= Cardinality(Arrived')
    BY ArrivedStay
  <1>4. \A q \in Requests : lock'[q] <= locks
    BY DEF HolderInv
  <1> QED BY <1>1, <1>2, <1>3, <1>4 DEF HolderInv

\* Nobody has come and no lock is made at first.
LEMMA HolderInit == Init => HolderInv
  <1> SUFFICES ASSUME Init PROVE HolderInv
    OBVIOUS
  <1>1. Arrived = {}
    BY DEF Init, Arrived
  <1>2. Cardinality(Arrived) = 0
    BY <1>1, FS_EmptySet
  <1>3. LockTypes
    BY DEF Init, LockTypes
  <1> QED BY <1>2, <1>3 DEF Init, HolderInv, AtLock

\* No step takes a lock that is held, or frees another's.
LEMMA HolderStep == CountTypes /\ HolderInv /\ [Next]_vars => HolderInv'
  <1> SUFFICES ASSUME CountTypes, HolderInv, [Next]_vars PROVE HolderInv'
    OBVIOUS
  <1>0. /\ lock \in [Requests -> Nat] /\ sidecar \in [Keys -> Nat] /\ locks \in Nat
        /\ \A k \in Keys : sidecar[k] <= locks
        /\ \A q \in Requests : lock[q] <= locks
        /\ key \in [Requests -> Keys]
    BY DEF HolderInv, LockTypes, CountTypes
  <1>1. ASSUME NEW r \in Requests, GetOrLoad(r) PROVE HolderInv'
    <2>1. CASE LookupHit(r)
      <3>1. PICK p \in {"acquired", "KeyError"} : pc' = [pc EXCEPT ![r] = p]
        BY <2>1 DEF LookupHit, Step
      <3>2. lock' \in [Requests -> Nat] /\ \A q \in Requests : lock'[q] = lock[q] \/ (q = r /\ lock'[q] <= locks)
        BY <1>0, <2>1 DEF LookupHit, AcquireLocked
      <3>3. UNCHANGED <<holder, locks, sidecar>>
        BY <2>1 DEF LookupHit
      <3> QED BY <1>0, <3>1, <3>2, <3>3, LocksStay
    <2>2. CASE LookupMiss(r)
      <3> DEFINE l == IF sidecar[key[r]] # 0 THEN sidecar[key[r]] ELSE locks + 1
      <3>1. /\ pc[r] = "new" /\ pc' = [pc EXCEPT ![r] = "waiting"] /\ holder' = holder
            /\ lock' = [lock EXCEPT ![r] = l] /\ sidecar' = [sidecar EXCEPT ![key[r]] = l]
            /\ locks' = (IF l > locks THEN l ELSE locks)
        BY <2>2 DEF LookupMiss, Step
      <3>2. l \in Nat /\ locks' \in Nat /\ l <= locks' /\ locks <= locks' /\ locks' <= locks + 1
        BY <1>0, <3>1
      <3> HIDE DEF l
      <3>3. /\ \A q \in Requests : lock'[q] <= locks'
            /\ \A k \in Keys : sidecar'[k] <= locks'
            /\ lock' \in [Requests -> Nat] /\ sidecar' \in [Keys -> Nat]
        BY <1>0, <3>1, <3>2
      <3>4. locks' <= Cardinality(Arrived')
        <4>1. locks + 1 <= Cardinality(Arrived') /\ Cardinality(Arrived') \in Nat
          <5>1. Arrived' \in SUBSET Requests
            BY DEF Arrived
          <5> QED BY <3>1, <5>1, ArrivedStay, CacheAssumption, FS_Subset, FS_CardinalityType
        <4> QED BY <1>0, <3>2, <4>1
      <3>5. \A q \in Requests : AtLock(q)' => holder'[lock'[q]] = q
        BY <1>0, <3>1 DEF HolderInv, AtLock, CountTypes
      <3> QED BY <3>1, <3>2, <3>3, <3>4, <3>5 DEF HolderInv, LockTypes
    <2>3. CASE TakeLoadLock(r)
      BY <2>3, LockIsTaken DEF TakeLoadLock, Step
    <2>4. CASE RecheckHit(r) \/ RecheckUnpark(r)
      BY <2>4, LockIsFreed DEF RecheckHit, RecheckUnpark, Step, AtLock, AcquireLocked
    <2>5. CASE LoadFails(r) \/ SweepDone(r)
      <3>1. lock' = [lock EXCEPT ![r] = lock[r]]
        BY <1>0, <2>5 DEF LoadFails, SweepDone
      <3> QED BY <2>5, <3>1, LockIsFreed DEF LoadFails, SweepDone, Step, AtLock
    <2>6. CASE RecheckMiss(r) \/ Load(r) \/ Insert(r)
      <3>1. PICK p \in {"loading", "insert", "sweep"} : pc' = [pc EXCEPT ![r] = p] /\ AtLock(r)
        BY <2>6 DEF RecheckMiss, Load, Insert, Step, AtLock
      <3>2. UNCHANGED <<holder, locks, lock>>
        BY <2>6 DEF RecheckMiss, Load, Insert
      <3>3. sidecar' \in [Keys -> Nat] /\ \A k \in Keys : sidecar'[k] <= locks
        <4>1. sidecar' = sidecar \/ sidecar' = [sidecar EXCEPT ![key[r]] = IF @ = 0 THEN lock[r] ELSE @]
          BY <2>6 DEF RecheckMiss, Load, Insert, cacheVars
        <4>2. lock[r] \in Nat /\ lock[r] <= locks
          BY <1>0
        <4> QED BY <1>0, <4>1, <4>2
      <3> QED BY <1>0, <3>1, <3>2, <3>3, LocksStay
    <2>7. CASE SweepOne(r)
      <3>1. pc[r] = "sweep" /\ UNCHANGED <<pc, holder, locks, lock>>
        BY <2>7 DEF SweepOne
      <3>2. PICK e : sidecar' = [sidecar EXCEPT ![e] = 0]
        BY <2>7 DEF SweepOne
      <3>3. sidecar' \in [Keys -> Nat] /\ \A k \in Keys : sidecar'[k] <= locks
        <4>1. \A k \in Keys : sidecar'[k] \in {0, sidecar[k]}
          BY <1>0, <3>2
        <4>2. sidecar' = [k \in Keys |-> sidecar'[k]]
          BY <1>0, <3>2
        <4> QED BY <1>0, <4>1, <4>2
      <3>4. pc' = [pc EXCEPT ![r] = "sweep"] /\ AtLock(r)
        BY <3>1 DEF CountTypes, AtLock
      <3> QED BY <1>0, <3>1, <3>3, <3>4, LocksStay
    <2> QED BY <1>1, <2>1, <2>2, <2>3, <2>4, <2>5, <2>6, <2>7 DEF GetOrLoad
  <1>2. ASSUME NEW r \in Requests, Use(r) PROVE HolderInv'
    <2>1. CASE BeginRun(r)
      BY <2>1, LockIsTaken DEF BeginRun, Step
    <2>2. CASE EndRun(r)
      <3>1. lock' = [lock EXCEPT ![r] = lock[r]]
        BY <1>0, <2>2 DEF EndRun
      <3> QED BY <2>2, <3>1, LockIsFreed DEF EndRun, Step, AtLock
    <2>3. CASE Release(r) \/ TeardownParked(r) \/ RefuseDevice(r)
      <3>1. PICK p \in {"finished", "done", "teardown"} : pc' = [pc EXCEPT ![r] = p]
        BY <2>3 DEF Release, TeardownParked, RefuseDevice, Step
      <3>2. UNCHANGED <<holder, locks, lock>>
        BY <2>3 DEF Release, TeardownParked, RefuseDevice
      <3>3. sidecar' \in [Keys -> Nat] /\ \A k \in Keys : sidecar'[k] <= locks
        <4>1. sidecar' = sidecar \/ sidecar' = [sidecar EXCEPT ![key[r]] = 0]
          BY <2>3 DEF Release, TeardownParked, RefuseDevice, cacheVars
        <4> QED BY <1>0, <4>1
      <3> QED BY <1>0, <3>1, <3>2, <3>3, LocksStay
    <2> QED BY <1>2, <2>1, <2>2, <2>3 DEF Use
  <1>3. CASE UNCHANGED vars
    BY <1>3 DEF vars, HolderInv, LockTypes, AtLock, Arrived
  <1> QED BY <1>1, <1>2, <1>3 DEF Next, AllAnswered

-----------------------------------------------------------------------------
(* What a lock protects                                                        *)

\* A request comes for its key from its miss to its insertion.
Comes(r) == pc[r] \in {"waiting", "recheck", "loading", "insert"}
Loads(r) == pc[r] \in {"loading", "insert"}

\* A key's model is cached or parked, never both, and its lock is kept with it; ...
LockIsKept ==
  \A k \in Keys : /\ cached[k] = 0 \/ parked[k] = 0
                  /\ cached[k] # 0 \/ parked[k] # 0 => sidecar[k] # 0
\* ... who comes for it or holds it knows that lock, who loads it finds no other, who holds
\* it has that very model ...
LockIsShared ==
  \A r \in Requests :
    /\ Comes(r) \/ Holds(r) => lock[r] = sidecar[key[r]] /\ lock[r] # 0
    /\ Loads(r) => cached[key[r]] = 0 /\ parked[key[r]] = 0
    /\ Holds(r) => inst[r] # 0 /\ inst[r] \in {cached[key[r]], parked[key[r]]}
\* ... and each holder is counted once.
RefsAreExact == \A k \in Keys : refs[k] = Cardinality(Holding(k))
WantedInv == LockIsKept /\ LockIsShared /\ RefsAreExact

\* What the steps below use of the locks and the values.
Known == CountTypes /\ HolderInv /\ LruInv

\* A request moves on while the cache stays.
LEMMA WantedStays ==
  ASSUME Known, WantedInv, NEW r \in Requests, NEW p, pc' = [pc EXCEPT ![r] = p],
         UNCHANGED <<key, cached, parked, sidecar, refs>>,
         \A q \in Requests : lock'[q] = lock[q] /\ (Holds(q) => inst'[q] = inst[q]),
         Comes(r)' => Comes(r), Holds(r)' <=> Holds(r),
         Loads(r)' => cached[key[r]] = 0 /\ parked[key[r]] = 0
  PROVE  WantedInv'
  <1> USE DEF WantedInv, Known
  <1>1. \A q \in Requests : /\ Comes(q)' => Comes(q)
                            /\ Holds(q)' <=> Holds(q)
                            /\ Loads(q)' => cached[key[q]] = 0 /\ parked[key[q]] = 0
    BY DEF Comes, Holds, Loads, CountTypes, LockIsShared
  <1>2. LockIsKept'
    BY DEF LockIsKept
  <1>3. LockIsShared'
    BY <1>1 DEF LockIsShared
  <1>4. \A k : Holding(k)' = Holding(k)
    BY <1>1 DEF Holding, Holds
  <1>5. RefsAreExact'
    BY <1>4 DEF RefsAreExact
  <1> QED BY <1>2, <1>3, <1>5

\* A request acquires the model that is cached or parked for its key.
LEMMA WantedAcquired ==
  ASSUME Known, WantedInv, NEW r \in Requests, ~Holds(r), pc' = [pc EXCEPT ![r] = "acquired"],
         NEW i, i # 0, NEW l, l = sidecar[key[r]], AcquireLocked(r, i, l), lock' \in [Requests -> Nat],
         UNCHANGED <<key, sidecar>>,
         cached'[key[r]] = i, parked'[key[r]] = 0, i \in {cached[key[r]], parked[key[r]]},
         \A k \in Keys \ {key[r]} : cached'[k] = cached[k] /\ parked'[k] = parked[k],
         \A q \in Requests : Loads(q) /\ key[q] = key[r] => q = r
  PROVE  WantedInv'
  <1> USE DEF WantedInv, Known
  <1>0. /\ key[r] \in Keys /\ key \in [Requests -> Keys] /\ pc \in [Requests -> Places]
        /\ inst \in [Requests -> Nat] /\ lock \in [Requests -> Nat] /\ refs \in [Keys -> Nat]
    BY DEF CountTypes, HolderInv, LockTypes
  <1>1. /\ refs' = [refs EXCEPT ![key[r]] = @ + 1]
        /\ inst' = [inst EXCEPT ![r] = i] /\ lock' = [lock EXCEPT ![r] = l]
    BY DEF AcquireLocked
  <1>2. sidecar[key[r]] # 0
    BY <1>0 DEF LockIsKept
  <1>3. LockIsKept'
    BY <1>0, <1>2 DEF LockIsKept
  <1>4. ASSUME NEW q \in Requests \ {r}
        PROVE  /\ Comes(q)' = Comes(q) /\ Holds(q)' = Holds(q) /\ Loads(q)' = Loads(q)
               /\ lock'[q] = lock[q] /\ inst'[q] = inst[q] /\ key'[q] = key[q] /\ key[q] \in Keys
    BY <1>0, <1>1 DEF Comes, Holds, Loads
  <1>5. ~Comes(r)' /\ ~Loads(r)' /\ lock'[r] = sidecar'[key'[r]] /\ inst'[r] = i /\ lock'[r] # 0
    BY <1>0, <1>1, <1>2 DEF Comes, Loads
  <1>6. ASSUME NEW q \in Requests \ {r}, Holds(q)
        PROVE  inst'[q] # 0 /\ inst'[q] \in {cached'[key'[q]], parked'[key'[q]]}
    <2>1. inst[q] # 0 /\ inst[q] \in {cached[key[q]], parked[key[q]]}
      BY <1>6 DEF LockIsShared
    <2>2. CASE key[q] = key[r]
      <3>1. inst[q] = i
        BY <1>0, <2>1, <2>2 DEF LockIsKept
      <3> QED BY <1>4, <2>1, <2>2, <3>1
    <2>3. CASE key[q] # key[r]
      BY <1>4, <2>1, <2>3
    <2> QED BY <2>2, <2>3
  <1>7. LockIsShared'
    BY <1>4, <1>5, <1>6 DEF LockIsShared
  <1>8. /\ Cardinality(Holding(key[r])') = Cardinality(Holding(key[r])) + 1
        /\ \A k \in Keys \ {key[r]} : Holding(k)' = Holding(k)
    BY HolderJoins
  <1>9. RefsAreExact'
    <2> SUFFICES ASSUME NEW k \in Keys PROVE refs'[k] = Cardinality(Holding(k)')
      BY DEF RefsAreExact
    <2>1. CASE k = key[r]
      BY <1>0, <1>1, <1>8, <2>1 DEF RefsAreExact
    <2>2. CASE k # key[r]
      BY <1>0, <1>1, <1>8, <2>2 DEF RefsAreExact
    <2> QED BY <2>1, <2>2
  <1> QED BY <1>3, <1>7, <1>9

\* Those that load the same key are one: they hold the same lock.
LEMMA LoadsAlone ==
  ASSUME Known, WantedInv, NEW q \in Requests, NEW r \in Requests, AtLock(q), AtLock(r),
         key[q] = key[r], Comes(q) \/ Holds(q), Comes(r) \/ Holds(r)
  PROVE  q = r
  <1>1. lock[q] = lock[r]
    BY DEF WantedInv, LockIsShared
  <1> QED BY <1>1 DEF Known, HolderInv

\* A miss takes the lock that those who come for the key share, or makes it for the first.
LEMMA WantedMissed ==
  ASSUME Known, WantedInv, NEW r \in Requests, LookupMiss(r)
  PROVE  WantedInv'
  <1> USE DEF WantedInv, Known
  <1> DEFINE k == key[r]
             l == IF sidecar[k] # 0 THEN sidecar[k] ELSE locks + 1
  <1>0. /\ k \in Keys /\ key \in [Requests -> Keys] /\ pc \in [Requests -> Places] /\ locks \in Nat
        /\ lock \in [Requests -> Nat] /\ sidecar \in [Keys -> Nat] /\ cached \in [Keys -> Nat]
    BY DEF CountTypes, HolderInv, LockTypes
  <1>1. /\ pc[r] = "new" /\ pc' = [pc EXCEPT ![r] = "waiting"] /\ lock' = [lock EXCEPT ![r] = l]
        /\ sidecar' = [sidecar EXCEPT ![k] = l] /\ UNCHANGED <<cached, parked, refs, inst, key>>
    BY DEF LookupMiss, Step
  <1>2. l # 0
    BY <1>0
  <1>3. sidecar[k] # 0 => l = sidecar[k]
    OBVIOUS
  <1> HIDE DEF k, l
  <1>4. LockIsKept'
    BY <1>0, <1>1, <1>2 DEF LockIsKept
  <1>5. ASSUME NEW q \in Requests \ {r}
        PROVE  /\ Comes(q)' = Comes(q) /\ Holds(q)' = Holds(q) /\ Loads(q)' = Loads(q)
               /\ lock'[q] = lock[q] /\ key[q] \in Keys
    BY <1>0, <1>1 DEF Comes, Holds, Loads
  <1>6. ASSUME NEW q \in Requests \ {r}, Comes(q) \/ Holds(q) PROVE sidecar'[key[q]] = sidecar[key[q]]
    BY <1>0, <1>1, <1>3, <1>5, <1>6 DEF LockIsShared
  <1>7. ~Holds(r)' /\ ~Loads(r)' /\ lock'[r] = l /\ sidecar'[key[r]] = l /\ ~Holds(r)
    BY <1>0, <1>1 DEF Holds, Loads, k
  <1>8. LockIsShared'
    BY <1>1, <1>2, <1>5, <1>6, <1>7 DEF LockIsShared
  <1>9. \A e : Holding(e)' = Holding(e)
    BY <1>1, <1>5, <1>7 DEF Holding, Holds
  <1>10. RefsAreExact'
    BY <1>1, <1>9 DEF RefsAreExact
  <1> QED BY <1>4, <1>8, <1>10

\* An insertion gives the loaded model to the cache; what it evicts is parked exactly when
\* somebody holds it.
LEMMA WantedInserted ==
  ASSUME Known, InstanceInv, WantedInv, NEW r \in Requests, Insert(r)
  PROVE  WantedInv'
  <1> USE DEF WantedInv, Known
  <1> DEFINE k == key[r]
             full == IF k \in Range(lru) THEN lru ELSE Append(lru, k)
             x == Excess(full)
             out == SubSeq(full, 1, x)
             I == [cached EXCEPT ![k] = inst[r]]
  <1>0. /\ k \in Keys /\ key \in [Requests -> Keys] /\ pc \in [Requests -> Places]
        /\ inst \in [Requests -> Nat] /\ refs \in [Keys -> Nat] /\ lru \in Seq(Keys)
        /\ lock \in [Requests -> Nat] /\ sidecar \in [Keys -> Nat]
        /\ cached \in [Keys -> Nat] /\ parked \in [Keys -> Nat]
    BY DEF CountTypes, HolderInv, LockTypes, InstanceInv, InstanceTypes
  <1>1. /\ pc[r] = "insert" /\ pc' = [pc EXCEPT ![r] = "sweep"]
        /\ cached' = [e \in Keys |-> IF e \in Range(out) THEN 0 ELSE I[e]]
        /\ parked' = [e \in Keys |-> IF e \in Range(out) /\ refs[e] > 0 THEN I[e] ELSE parked[e]]
        /\ refs' = [refs EXCEPT ![k] = @ + 1]
        /\ sidecar' = [sidecar EXCEPT ![k] = IF @ = 0 THEN lock[r] ELSE @]
        /\ UNCHANGED <<key, lock, inst>>
    BY DEF Insert, Step
  <1>2. /\ cached[k] = 0 /\ parked[k] = 0 /\ sidecar[k] = lock[r] /\ lock[r] # 0
        /\ k \notin Range(lru)
    BY <1>0, <1>1 DEF LockIsShared, Loads, Comes, LruInv
  <1>3. inst[r] # 0
    BY <1>1 DEF InstanceInv, PlaceInv, FreshOnce
  <1>4. Range(out) \subseteq Range(lru)
    <2>1. full = Append(lru, k) /\ Len(lru) \in Nat
      BY <1>0, <1>2
    <2>2. x \in 0 .. Len(lru)
      BY <1>0, <2>1, CacheAssumption DEF Excess
    <2>3. \A i \in 1 .. x : full[i] = lru[i] /\ i \in 1 .. Len(lru)
      <3>1. \A i \in 1 .. Len(lru) : Append(lru, k)[i] = lru[i]
        BY <1>0
      <3> HIDE DEF x
      <3>2. \A i \in 1 .. x : i \in 1 .. Len(lru)
        BY <2>1, <2>2
      <3> QED BY <2>1, <3>1, <3>2
    <2>4. DOMAIN out = 1 .. x /\ \A i \in 1 .. x : out[i] = full[i]
      <3>1. full \in Seq(Keys) /\ NoneTwice(full) /\ Len(full) = Len(lru) + 1
        BY <1>0, <1>2, <2>1, PutAtEnd DEF LruInv
      <3> HIDE DEF full, x
      <3>2. x \in 0 .. Len(full)
        BY <2>1, <2>2, <3>1
      <3> QED BY <3>1, <3>2, FrontEvicted
    <2>5. DOMAIN lru = 1 .. Len(lru)
      BY <1>0
    <2> HIDE DEF out, x, full
    <2> QED BY <2>3, <2>4, <2>5 DEF Range
  <1> HIDE DEF full, x, out
  <1>5. \A e \in Keys : e \in Range(out) => cached[e] # 0 /\ parked[e] = 0 /\ e # k
    BY <1>0, <1>2, <1>4 DEF LruInv, LockIsKept
  <1>6. /\ sidecar' = sidecar
        /\ \A e \in Keys : I[e] = (IF e = k THEN inst[r] ELSE cached[e])
    <2>1. (IF sidecar[k] = 0 THEN lock[r] ELSE sidecar[k]) = sidecar[k]
      BY <1>2
    <2>2. sidecar' = sidecar
      BY <1>0, <1>1, <2>1
    <2> QED BY <1>0, <2>2
  <1> HIDE DEF I, k
  <1>7. /\ cached'[k] = inst[r] /\ parked'[k] = 0
        /\ \A e \in Keys \ {k} :
             \/ cached'[e] = cached[e] /\ parked'[e] = parked[e]
             \/ /\ cached[e] # 0 /\ parked[e] = 0 /\ cached'[e] = 0
                /\ parked'[e] = (IF refs[e] > 0 THEN cached[e] ELSE 0)
    BY <1>0, <1>1, <1>2, <1>5, <1>6
  <1>8. LockIsKept'
    BY <1>0, <1>2, <1>6, <1>7 DEF LockIsKept
  <1>9. \A e \in Keys : IF e = k THEN Cardinality(Holding(e)') = Cardinality(Holding(e)) + 1
                                 ELSE Holding(e)' = Holding(e)
    BY <1>1, HolderJoins DEF Holds, k
  <1>10. RefsAreExact'
    <2> SUFFICES ASSUME NEW e \in Keys PROVE refs'[e] = Cardinality(Holding(e)')
      BY DEF RefsAreExact
    <2>1. CASE e = k
      <3>1. refs'[k] = refs[k] + 1 /\ refs[k] = Cardinality(Holding(k))
        BY <1>0, <1>1 DEF RefsAreExact
      <3> QED BY <1>0, <1>9, <2>1, <3>1
    <2>2. CASE e # k
      BY <1>0, <1>1, <1>9, <2>2 DEF RefsAreExact
    <2> QED BY <2>1, <2>2
  <1>11. ASSUME NEW q \in Requests \ {r}
         PROVE  /\ Comes(q)' = Comes(q) /\ Holds(q)' = Holds(q) /\ Loads(q)' = Loads(q)
                /\ lock'[q] = lock[q] /\ inst'[q] = inst[q] /\ key'[q] = key[q] /\ key[q] \in Keys
    BY <1>0, <1>1 DEF Comes, Holds, Loads
  <1>12. ASSUME NEW q \in Requests \ {r}, Loads(q)
         PROVE  cached'[key[q]] = 0 /\ parked'[key[q]] = 0
    <2>1. key[q] # k
      BY <1>1, <1>12, LoadsAlone DEF AtLock, Comes, Loads, k
    <2>2. cached[key[q]] = 0 /\ parked[key[q]] = 0
      BY <1>12 DEF LockIsShared
    <2> QED BY <1>7, <1>11, <2>1, <2>2
  <1>13. ASSUME NEW q \in Requests \ {r}, Holds(q)
         PROVE  inst[q] # 0 /\ inst[q] \in {cached'[key[q]], parked'[key[q]]}
    <2>1. inst[q] # 0 /\ inst[q] \in {cached[key[q]], parked[key[q]]}
      BY <1>13 DEF LockIsShared
    <2>2. key[q] # k
      BY <1>2, <2>1
    <2>3. refs[key[q]] > 0
      <3>1. q \in Holding(key[q])
        BY <1>13 DEF Holding, Holds
      <3>2. Cardinality(Holding(key[q])) # 0
        BY <3>1, HoldersFinite, FS_EmptySet
      <3> QED BY <1>0, <1>11, <3>2 DEF RefsAreExact
    <2> QED BY <1>7, <1>11, <2>1, <2>2, <2>3
  <1>14. ~Comes(r)' /\ ~Loads(r)' /\ inst'[r] \in {cached'[key'[r]]} /\ lock'[r] = sidecar'[key'[r]]
    BY <1>0, <1>1, <1>2, <1>6, <1>7 DEF Comes, Loads, k
  <1>15. LockIsShared'
    <2> SUFFICES ASSUME NEW q \in Requests
                 PROVE  /\ Comes(q)' \/ Holds(q)' => lock'[q] = sidecar'[key'[q]] /\ lock'[q] # 0
                        /\ Loads(q)' => cached'[key'[q]] = 0 /\ parked'[key'[q]] = 0
                        /\ Holds(q)' => inst'[q] # 0 /\ inst'[q] \in {cached'[key'[q]], parked'[key'[q]]}
      BY DEF LockIsShared
    <2>1. CASE q = r
      BY <1>1, <1>2, <1>3, <1>14, <2>1
    <2>2. CASE q # r
      <3>1. Comes(q) \/ Holds(q) => lock[q] = sidecar[key[q]] /\ lock[q] # 0
        BY DEF LockIsShared
      <3> QED BY <1>6, <1>11, <1>12, <1>13, <2>2, <3>1
    <2> QED BY <2>1, <2>2
  <1> QED BY <1>8, <1>10, <1>15

\* The sweep drops a lock and a count: of a key nobody wants, for else it is a wanted one.
LEMMA WantedSwept ==
  ASSUME Known, WantedInv, ~DropsWantedLock, NEW r \in Requests, SweepOne(r)
  PROVE  WantedInv'
  <1> USE DEF WantedInv, Known
  <1>0. /\ key \in [Requests -> Keys] /\ refs \in [Keys -> Nat] /\ sidecar \in [Keys -> Nat]
    BY DEF CountTypes, HolderInv, LockTypes
  <1>1. PICK n \in DOMAIN doomed[r] : /\ sidecar' = [sidecar EXCEPT ![doomed[r][n][1]] = 0]
                                      /\ refs' = [refs EXCEPT ![doomed[r][n][1]] = 0]
    BY DEF SweepOne
  <1>2. PICK e : e = doomed[r][n][1]
    OBVIOUS
  <1>3. UNCHANGED <<cached, parked, pc, key, lock, inst>>
    BY DEF SweepOne
  <1>4. /\ \A k \in Keys : sidecar'[k] = (IF k = e THEN 0 ELSE sidecar[k])
        /\ \A k \in Keys : refs'[k] = (IF k = e THEN 0 ELSE refs[k])
    BY <1>0, <1>1, <1>2
  <1>5. ASSUME e \in Keys, sidecar[e] # 0
        PROVE  /\ cached[e] = 0 /\ parked[e] = 0
               /\ \A q \in Requests : key[q] = e => ~Comes(q) /\ ~Holds(q)
    <2>1. ~Wanted(e)
      BY <1>4, <1>5 DEF DropsWantedLock
    <2>2. cached[e] = 0 /\ parked[e] = 0 /\ \A q \in Requests : key[q] = e => ~Comes(q)
      BY <1>3, <2>1 DEF Wanted, Comes
    <2> QED BY <2>2 DEF LockIsShared
  <1>6. ASSUME e \in Keys, sidecar[e] = 0
        PROVE  /\ cached[e] = 0 /\ parked[e] = 0
               /\ \A q \in Requests : key[q] = e => ~Comes(q) /\ ~Holds(q)
    BY <1>6 DEF LockIsKept, LockIsShared
  <1>7. e \in Keys => /\ cached[e] = 0 /\ parked[e] = 0
                      /\ \A q \in Requests : key[q] = e => ~Comes(q) /\ ~Holds(q)
    BY <1>5, <1>6
  <1>8. LockIsKept'
    BY <1>3, <1>4, <1>7 DEF LockIsKept
  <1>9. \A q \in Requests : Comes(q)' = Comes(q) /\ Holds(q)' = Holds(q) /\ Loads(q)' = Loads(q)
    BY <1>3 DEF Comes, Holds, Loads
  <1>10. LockIsShared'
    BY <1>0, <1>3, <1>4, <1>7, <1>9 DEF LockIsShared
  <1>11. \A k : Holding(k)' = Holding(k)
    BY <1>3 DEF Holding
  <1>12. RefsAreExact'
    <2> SUFFICES ASSUME NEW k \in Keys PROVE refs'[k] = Cardinality(Holding(k))
      BY <1>11 DEF RefsAreExact
    <2>1. CASE k = e
      <3>1. Holding(k) = {}
        BY <1>7, <2>1 DEF Holding, Holds
      <3> QED BY <1>4, <2>1, <3>1, FS_EmptySet
    <2>2. CASE k # e
      BY <1>4, <2>2 DEF RefsAreExact
    <2> QED BY <2>1, <2>2
  <1> QED BY <1>8, <1>10, <1>12

\* A release drops the lock with the last holder of a parked model: of a key nobody wants.
LEMMA WantedReleased ==
  ASSUME Known, WantedInv, ~DropsWantedLock, NEW r \in Requests, Release(r)
  PROVE  WantedInv'
  <1> USE DEF WantedInv, Known
  <1>0. /\ key[r] \in Keys /\ key \in [Requests -> Keys] /\ pc \in [Requests -> Places]
        /\ refs \in [Keys -> Nat] /\ sidecar \in [Keys -> Nat] /\ parked \in [Keys -> Nat]
    BY DEF CountTypes, HolderInv, LockTypes
  <1>1. PICK p \in {"done", "teardown"} : pc[r] = "finished" /\ pc' = [pc EXCEPT ![r] = p]
    BY DEF Release, Step
  <1>2. UNCHANGED <<cached, key, lock, inst>>
    BY DEF Release
  <1>3. PICK k \in Keys : k = key[r]
    BY <1>0
  <1>4. /\ Cardinality(Holding(k)') = Cardinality(Holding(k)) - 1
        /\ \A e \in Keys \ {k} : Holding(e)' = Holding(e)
    BY <1>1, <1>2, <1>3, HolderLeaves DEF Holds
  <1>5. refs[k] = Cardinality(Holding(k)) /\ r \in Holding(k)
    BY <1>1, <1>3 DEF RefsAreExact, Holding
  <1>6. Cardinality(Holding(k)) \in Nat \ {0}
    BY <1>5, HoldersFinite, FS_EmptySet
  <1>7. ASSUME NEW q \in Requests \ {r}
        PROVE  Comes(q)' = Comes(q) /\ Holds(q)' = Holds(q) /\ Loads(q)' = Loads(q) /\ key[q] \in Keys
    BY <1>0, <1>1 DEF Comes, Holds, Loads
  <1>8. ~Comes(r)' /\ ~Holds(r)' /\ ~Loads(r)'
    BY <1>0, <1>1 DEF Comes, Holds, Loads
  <1>9. CASE refs[k] > 1
    <2>1. refs' = [refs EXCEPT ![k] = @ - 1] /\ UNCHANGED <<parked, sidecar>>
      BY <1>3, <1>9 DEF Release
    <2>2. LockIsKept'
      BY <1>2, <2>1 DEF LockIsKept
    <2>3. LockIsShared'
      BY <1>2, <1>7, <1>8, <2>1 DEF LockIsShared
    <2>4. RefsAreExact'
      <3>1. refs'[k] = refs[k] - 1
        BY <1>0, <2>1
      <3> QED BY <1>0, <1>4, <1>5, <2>1, <3>1 DEF RefsAreExact
    <2> QED BY <2>2, <2>3, <2>4
  <1>10. CASE ~(refs[k] > 1)
    <2>1. /\ refs' = [refs EXCEPT ![k] = 0] /\ parked' = [parked EXCEPT ![k] = 0]
          /\ sidecar' = (IF parked[k] = 0 THEN sidecar ELSE [sidecar EXCEPT ![k] = 0])
      BY <1>3, <1>10 DEF Release, Unpark
    <2>2. Cardinality(Holding(k)) = 1 /\ Cardinality(Holding(k)') = 0
      BY <1>4, <1>5, <1>6, <1>10
    <2>3. \A q \in Requests \ {r} : key[q] = k => ~Holds(q)
      <3> SUFFICES ASSUME NEW q \in Requests \ {r}, key[q] = k, Holds(q) PROVE FALSE
        OBVIOUS
      <3>1. Holding(k) = {r} \cup Holding(k)' /\ q \in Holding(k)'
        BY <1>0, <1>1, <1>2, <1>5 DEF Holding, Holds
      <3>2. IsFiniteSet(Holding(k)')
        <4>1. Holding(k)' \subseteq Holding(k)
          BY <3>1
        <4> QED BY <4>1, HoldersFinite, FS_Subset
      <3>3. Holding(k)' = {}
        BY <2>2, <3>2, FS_EmptySet
      <3> QED BY <3>1, <3>3
    <2>4. RefsAreExact'
      BY <1>0, <1>4, <2>1, <2>2 DEF RefsAreExact
    <2>5. CASE parked[k] = 0
      <3>1. UNCHANGED <<parked, sidecar>>
        BY <1>0, <2>1, <2>5
      <3>2. LockIsKept'
        BY <1>2, <3>1 DEF LockIsKept
      <3>3. LockIsShared'
        BY <1>2, <1>7, <1>8, <3>1 DEF LockIsShared
      <3> QED BY <2>4, <3>2, <3>3
    <2>6. CASE parked[k] # 0
      <3>1. /\ \A e \in Keys : parked'[e] = (IF e = k THEN 0 ELSE parked[e])
            /\ \A e \in Keys : sidecar'[e] = (IF e = k THEN 0 ELSE sidecar[e])
        BY <1>0, <2>1, <2>6
      <3>2. ~Wanted(k)
        BY <2>6, <3>1 DEF DropsWantedLock, LockIsKept
      <3>3. cached[k] = 0 /\ \A q \in Requests : key[q] = k => ~Comes(q)
        BY <3>2 DEF Wanted, Comes
      <3>4. LockIsKept'
        BY <1>2, <3>1, <3>3 DEF LockIsKept
      <3>5. LockIsShared'
        <4>1. \A q \in Requests \ {r} : (Comes(q) \/ Holds(q) \/ Loads(q)) => key[q] # k
          BY <2>3, <3>3 DEF Comes, Loads
        <4> QED BY <1>2, <1>7, <1>8, <3>1, <4>1 DEF LockIsShared
      <3> QED BY <2>4, <3>4, <3>5
    <2> QED BY <2>5, <2>6
  <1> QED BY <1>9, <1>10

\* Nothing is cached and nobody has come at first.
LEMMA WantedInit == Init => WantedInv
  <1> SUFFICES ASSUME Init PROVE WantedInv
    OBVIOUS
  <1>1. \A k : Holding(k) = {}
    BY DEF Init, Holding
  <1>2. RefsAreExact
    BY <1>1, FS_EmptySet DEF Init, RefsAreExact
  <1> QED BY <1>2 DEF Init, WantedInv, LockIsKept, LockIsShared, Comes, Holds, Loads

\* A step that drops no lock that is wanted again keeps what the locks protect.
LEMMA WantedStep ==
  ASSUME InstanceInv, HolderInv, WantedInv, [Next]_vars, ~DropsWantedLock
  PROVE  WantedInv'
  <1>0. Known
    BY DEF Known, InstanceInv, InstanceTypes, CountTypes
  <1>1. /\ pc \in [Requests -> Places] /\ lock \in [Requests -> Nat] /\ sidecar \in [Keys -> Nat]
        /\ key \in [Requests -> Keys] /\ inst \in [Requests -> Nat]
        /\ parked \in [Keys -> Nat] /\ cached \in [Keys -> Nat]
        /\ \A k \in Keys : k \in Range(lru) <=> cached[k] # 0
    BY <1>0 DEF Known, CountTypes, HolderInv, LockTypes, LruInv
  <1>2. ASSUME NEW r \in Requests, GetOrLoad(r) PROVE WantedInv'
    <2>0. key[r] \in Keys
      BY <1>1
    <2>1. CASE LookupHit(r)
      <3>1. cached[key[r]] # 0 /\ parked[key[r]] = 0 /\ sidecar[key[r]] # 0
        BY <1>1, <2>0, <2>1 DEF LookupHit, WantedInv, LockIsKept
      <3>2. /\ pc[r] = "new" /\ pc' = [pc EXCEPT ![r] = "acquired"]
            /\ AcquireLocked(r, cached[key[r]], sidecar[key[r]])
            /\ UNCHANGED <<key, sidecar, cached, parked>>
        BY <2>1, <3>1 DEF LookupHit, Step
      <3>3. \A q \in Requests : Loads(q) /\ key[q] = key[r] => q = r
        BY <3>1 DEF WantedInv, LockIsShared
      <3>4. lock' \in [Requests -> Nat]
        BY <1>1, <2>0, <3>2 DEF AcquireLocked
      <3> QED BY <1>0, <3>1, <3>2, <3>3, <3>4, WantedAcquired DEF Holds
    <2>2. CASE RecheckHit(r) \/ RecheckUnpark(r)
      <3>0. pc[r] = "recheck" /\ pc' = [pc EXCEPT ![r] = "acquired"] /\ key' = key /\ sidecar' = sidecar
        BY <2>2 DEF RecheckHit, RecheckUnpark, Step
      <3>1. lock[r] = sidecar[key[r]]
        BY <3>0 DEF WantedInv, LockIsShared, Comes
      <3>2. \A q \in Requests : Loads(q) /\ key[q] = key[r] => q = r
        BY <1>0, <3>0, LoadsAlone DEF AtLock, Comes, Loads
      <3>3. CASE RecheckHit(r)
        <4>1. cached[key[r]] # 0 /\ parked[key[r]] = 0
          BY <1>1, <2>0, <3>3 DEF RecheckHit, WantedInv, LockIsKept
        <4>2. AcquireLocked(r, cached[key[r]], lock[r]) /\ UNCHANGED <<cached, parked>>
          BY <3>3 DEF RecheckHit
        <4>3. lock' \in [Requests -> Nat]
          BY <1>1, <4>2 DEF AcquireLocked
        <4> QED BY <1>0, <3>0, <3>1, <3>2, <4>1, <4>2, <4>3, WantedAcquired DEF Holds
      <3>4. CASE RecheckUnpark(r)
        <4>1. /\ parked[key[r]] # 0 /\ AcquireLocked(r, parked[key[r]], lock[r])
              /\ cached' = [cached EXCEPT ![key[r]] = parked[key[r]]]
              /\ parked' = [parked EXCEPT ![key[r]] = 0]
          BY <3>4 DEF RecheckUnpark, Unpark
        <4>2. lock' \in [Requests -> Nat]
          BY <1>1, <4>1 DEF AcquireLocked
        <4>3. /\ cached'[key[r]] = parked[key[r]] /\ parked'[key[r]] = 0
              /\ \A k \in Keys \ {key[r]} : cached'[k] = cached[k] /\ parked'[k] = parked[k]
          BY <1>1, <2>0, <4>1
        <4> QED BY <1>0, <3>0, <3>1, <3>2, <4>1, <4>2, <4>3, WantedAcquired DEF Holds
      <3> QED BY <2>2, <3>3, <3>4
    <2>3. CASE TakeLoadLock(r) \/ RecheckMiss(r) \/ Load(r) \/ LoadFails(r) \/ SweepDone(r)
      <3>1. UNCHANGED <<key, cached, parked, sidecar, refs, lock>>
        BY <2>3 DEF TakeLoadLock, RecheckMiss, Load, LoadFails, SweepDone
      <3>2. PICK p \in Places : pc' = [pc EXCEPT ![r] = p]
        BY <2>3 DEF TakeLoadLock, RecheckMiss, Load, LoadFails, SweepDone, Step, Places, Ended
      <3>3. \A q \in Requests : Holds(q) => inst'[q] = inst[q]
        BY <1>1, <2>3 DEF TakeLoadLock, RecheckMiss, Load, LoadFails, SweepDone, Step, Holds
      <3>4. (Comes(r)' => Comes(r)) /\ (Holds(r)' <=> Holds(r)) /\ (Loads(r)' => Loads(r) \/ RecheckMiss(r))
        BY <1>1, <2>3 DEF TakeLoadLock, RecheckMiss, Load, LoadFails, SweepDone, Step, Comes, Holds, Loads
      <3>5. Loads(r)' => cached[key[r]] = 0 /\ parked[key[r]] = 0
        BY <1>1, <2>0, <3>4 DEF RecheckMiss, WantedInv, LockIsShared
      <3> QED BY <1>0, <3>1, <3>2, <3>3, <3>4, <3>5, WantedStays
    <2> QED BY <1>0, <1>2, <2>1, <2>2, <2>3, WantedMissed, WantedInserted, WantedSwept DEF GetOrLoad
  <1>3. ASSUME NEW r \in Requests, Use(r) PROVE WantedInv'
    <2>1. CASE BeginRun(r) \/ RefuseDevice(r) \/ EndRun(r) \/ TeardownParked(r)
      <3>1. UNCHANGED <<key, cached, parked, sidecar, refs, lock, inst>>
        BY <2>1 DEF BeginRun, RefuseDevice, EndRun, TeardownParked
      <3>2. PICK p \in Places : pc' = [pc EXCEPT ![r] = p]
        BY <2>1 DEF BeginRun, RefuseDevice, EndRun, TeardownParked, Step, Places, Ended
      <3>3. (Comes(r)' => Comes(r)) /\ (Holds(r)' <=> Holds(r)) /\ ~Loads(r)'
        BY <1>1, <2>1 DEF BeginRun, RefuseDevice, EndRun, TeardownParked, Step, Comes, Holds, Loads
      <3> QED BY <1>0, <3>1, <3>2, <3>3, WantedStays
    <2> QED BY <1>0, <1>3, <2>1, WantedReleased DEF Use
  <1>4. CASE UNCHANGED vars
    <2>1. \A k : Holding(k)' = Holding(k)
      BY <1>4 DEF vars, Holding
    <2> QED BY <1>4, <2>1 DEF vars, WantedInv, LockIsKept, LockIsShared, RefsAreExact, Comes, Holds, Loads
  <1> QED BY <1>2, <1>3, <1>4 DEF Next, AllAnswered

\* As long as no teardown drops the lock of a key that is wanted again, a key is not loaded
\* twice at a time, an instance is not run twice at a time, and none is freed underneath a run.
THEOREM LocksAreExclusive == MCSpec => []LocksExclude
  <1> DEFINE Inv == InstanceInv /\ HolderInv /\ (~dropped => WantedInv)
  <1>1. MCInit => Inv
    BY InstanceInit, HolderInit, WantedInit DEF MCInit
  <1>2. Inv /\ [MCNext]_<<vars, dropped>> => Inv'
    <2> SUFFICES ASSUME Inv, [MCNext]_<<vars, dropped>> PROVE Inv'
      OBVIOUS
    <2>1. [Next]_vars
      BY DEF MCNext
    <2>2. InstanceInv' /\ HolderInv'
      <3>1. CountTypes
        BY DEF InstanceInv, InstanceTypes, CountTypes
      <3> QED BY <2>1, <3>1, InstanceStep, HolderStep
    <2>3. ASSUME ~dropped' PROVE WantedInv'
      <3>1. CASE MCNext
        <4>1. ~dropped /\ ~DropsWantedLock
          BY <2>3, <3>1 DEF MCNext
        <4> QED BY <2>1, <4>1, WantedStep
      <3>2. CASE UNCHANGED <<vars, dropped>>
        <4>1. ~DropsWantedLock /\ ~dropped
          BY <2>3, <3>2 DEF vars, DropsWantedLock
        <4> QED BY <2>1, <4>1, WantedStep
      <3> QED BY <3>1, <3>2
    <2> QED BY <2>2, <2>3
  <1>3. Inv => LocksExclude
    <2> SUFFICES ASSUME Inv, ~dropped PROVE NoDoubleLoad /\ RunsAreSerialised /\ NoUseAfterTeardown
      BY DEF LocksExclude
    <2>0. Known /\ WantedInv /\ InstanceInv
      BY DEF Known, InstanceInv, InstanceTypes, CountTypes
    <2>1. NoDoubleLoad
      BY <2>0, LoadsAlone DEF NoDoubleLoad, AtLock, Comes
    <2>2. ASSUME NEW r \in Requests, Holds(r)
          PROVE  /\ inst[r] # 0 /\ key[r] \in Keys
                 /\ cached[key[r]] = inst[r] \/ parked[key[r]] = inst[r]
      BY <2>0, <2>2 DEF WantedInv, LockIsShared, Known, CountTypes
    <2>3. RunsAreSerialised
      <3> SUFFICES ASSUME NEW q \in Requests, NEW r \in Requests, pc[q] = "running", pc[r] = "running",
                          inst[q] = inst[r]
                   PROVE  q = r
        BY DEF RunsAreSerialised
      <3>1. Holds(q) /\ Holds(r) /\ AtLock(q) /\ AtLock(r)
        BY DEF Holds, AtLock
      <3>2. key[q] = key[r]
        BY <2>0, <2>2, <3>1 DEF InstanceInv, PlaceInv, CachedOnce, ParkedOnce, IsParked
      <3> QED BY <2>0, <3>1, <3>2, LoadsAlone
    <2>4. NoUseAfterTeardown
      <3> SUFFICES ASSUME NEW r \in Requests, Using(r) PROVE inst[r] \notin Range(torn)
        BY DEF NoUseAfterTeardown
      <3>1. Holds(r)
        BY DEF Using, Holds
      <3>2. ~IsTorn(inst[r])
        BY <2>0, <2>2, <3>1 DEF InstanceInv, PlaceInv, CachedOnce, ParkedOnce
      <3> QED BY <3>2 DEF IsTorn, Range
    <2> QED BY <2>1, <2>3, <2>4
  <1> QED BY <1>1, <1>2, <1>3, PTL DEF MCSpec
=============================================================================
