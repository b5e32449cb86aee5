------------------------------ MODULE ModelCache ------------------------------
(***************************************************************************)
(* The process-wide LRU cache of loaded models (server/app.py): concurrent    *)
(* requests look a model up or load it, run it under its lock and release it;  *)
(* an insertion beyond the capacity evicts the least recently used model,       *)
(* which is torn down at once or, if in use, parked until its last release.     *)
(* One action is one critical section of _CACHE_LOCK, or a step outside it.     *)
(* Each load makes a new instance and each threading.Lock() a new lock, named   *)
(* by the number of its making.  Seeded faults are as in ServerRuntime.          *)
(***************************************************************************)
EXTENDS Integers, Sequences, FiniteSets, Functions

CONSTANTS
  Requests,        \* each uses one model once
  Keys,            \* (name, kwargs, device)
  CacheCap,        \* _MODEL_CACHE_CAP
  LoadMayFail,     \* may registry.get or setup() raise?
  DeviceMayBeRefused  \* may a model not declare support for the selected device?

NoRequest == "nobody"

ASSUME CacheAssumption ==
  /\ IsFiniteSet(Requests) /\ NoRequest \notin Requests
  /\ CacheCap \in Nat \ {0} /\ LoadMayFail \in BOOLEAN /\ DeviceMayBeRefused \in BOOLEAN

VARIABLES
  lru,             \* the keys of _MODEL_CACHE, least recently used first
  cached,          \* the instance of each cached key (0: none)
  parked,          \* _PENDING_TEARDOWN (0: none)
  sidecar,         \* _MODEL_LOCKS: the lock of each key (0: none)
  refs,            \* _MODEL_REFCOUNTS (0: no entry)
  holder,          \* who holds each lock
  made, torn,      \* instances made so far, instances torn down (in order)
  locks,           \* locks made so far
  pc, key, lock, inst,  \* each request: where it is, its key, lock and instance
  doomed           \* each request: to_teardown, the idle <<key, instance>> pairs by their place
                   \* in what was evicted

reqVars == <<pc, key, lock, inst, doomed>>
cacheVars == <<lru, cached, parked, sidecar, refs>>
vars == <<cacheVars, holder, made, torn, locks, reqVars>>

Ids == 0..Cardinality(Requests)
Without(s, k) == [i \in 1 .. Len(s) - 1 |-> s[IF \E j \in 1 .. i : s[j] = k THEN i + 1 ELSE i]]

Init ==
  /\ lru = <<>> /\ cached = [k \in Keys |-> 0] /\ parked = [k \in Keys |-> 0]
  /\ sidecar = [k \in Keys |-> 0] /\ refs = [k \in Keys |-> 0]
  /\ holder = [l \in Ids |-> NoRequest] /\ made = 0 /\ torn = <<>> /\ locks = 0
  /\ pc = [r \in Requests |-> "new"] /\ key \in [Requests -> Keys]
  /\ lock = [r \in Requests |-> 0] /\ inst = [r \in Requests |-> 0]
  /\ doomed = [r \in Requests |-> <<>>]

Step(r, from, to) == pc[r] = from /\ pc' = [pc EXCEPT ![r] = to]

\* _acquire_locked: count the acquisition under the cache lock.
\* Seeded fault: the acquisition counts twice.
AcquireCountsTwice(r, i, l) ==
  /\ refs' = [refs EXCEPT ![key[r]] = @ + 2]
  /\ inst' = [inst EXCEPT ![r] = i] /\ lock' = [lock EXCEPT ![r] = l]
AcquireLocked(r, i, l) ==
  /\ refs' = [refs EXCEPT ![key[r]] = @ + 1]
  /\ inst' = [inst EXCEPT ![r] = i] /\ lock' = [lock EXCEPT ![r] = l]

MoveToEnd(k) == lru' = Append(Without(lru, k), k)

\* Taking an instance off the parking list, for its teardown or to cache it again.
\* Seeded fault: it is looked at and left there.
UnparkPeeks(k) == UNCHANGED parked
Unpark(k) == parked' = [parked EXCEPT ![k] = 0]

\* How many entries of a list of keys are beyond the capacity.
Excess(keys) == IF Len(keys) > CacheCap THEN Len(keys) - CacheCap ELSE 0

\* Seeded fault: the lock is never released.
UnlockForgotten(r) == UNCHANGED holder
Unlock(r) == holder' = [holder EXCEPT ![lock[r]] = NoRequest]

-----------------------------------------------------------------------------
(* _get_or_load_model                                                         *)

\* First critical section: a hit, whose sidecar lock must be there (else KeyError) ...
LookupHit(r) ==
  /\ key[r] \in Range(lru)
  /\ MoveToEnd(key[r])
  /\ IF sidecar[key[r]] # 0
       THEN /\ Step(r, "new", "acquired")
            /\ AcquireLocked(r, cached[key[r]], sidecar[key[r]])
       ELSE Step(r, "new", "KeyError") /\ UNCHANGED <<refs, inst, lock>>
  /\ UNCHANGED <<cached, parked, sidecar, holder, made, torn, locks, key, doomed>>

\* ... or a miss, which takes the key's lock or makes one.
LookupMiss(r) ==
  /\ key[r] \notin Range(lru)
  /\ Step(r, "new", "waiting")
  /\ LET l == IF sidecar[key[r]] # 0 THEN sidecar[key[r]] ELSE locks + 1
     IN  /\ lock' = [lock EXCEPT ![r] = l]
         /\ sidecar' = [sidecar EXCEPT ![key[r]] = l]
         /\ locks' = IF l > locks THEN l ELSE locks
  /\ UNCHANGED <<lru, cached, parked, refs, holder, made, torn, key, inst, doomed>>

\* Seeded fault: the load is not under the key's lock.
TakeLoadLockUnguarded(r) ==
  /\ Step(r, "waiting", "recheck") /\ holder' = [holder EXCEPT ![lock[r]] = r]
  /\ UNCHANGED <<cacheVars, made, torn, locks, key, lock, inst, doomed>>
TakeLoadLock(r) ==
  /\ Step(r, "waiting", "recheck")
  /\ holder[lock[r]] = NoRequest /\ holder' = [holder EXCEPT ![lock[r]] = r]
  /\ UNCHANGED <<cacheVars, made, torn, locks, key, lock, inst, doomed>>

\* Second critical section: loaded meanwhile, or parked and taken back, or to load.
RecheckHit(r) ==
  /\ key[r] \in Range(lru) /\ Step(r, "recheck", "acquired") /\ MoveToEnd(key[r])
  /\ AcquireLocked(r, cached[key[r]], lock[r]) /\ Unlock(r)
  /\ UNCHANGED <<cached, parked, sidecar, made, torn, locks, key, doomed>>

RecheckUnpark(r) ==
  /\ key[r] \notin Range(lru) /\ parked[key[r]] # 0 /\ Step(r, "recheck", "acquired")
  /\ Unpark(key[r])
  /\ cached' = [cached EXCEPT ![key[r]] = parked[key[r]]] /\ lru' = Append(lru, key[r])
  /\ AcquireLocked(r, parked[key[r]], lock[r]) /\ Unlock(r)
  /\ UNCHANGED <<sidecar, made, torn, locks, key, doomed>>

RecheckMiss(r) ==
  /\ key[r] \notin Range(lru) /\ parked[key[r]] = 0 /\ Step(r, "recheck", "loading")
  /\ UNCHANGED <<cacheVars, holder, made, torn, locks, key, lock, inst, doomed>>

\* registry.get and setup(), under the key's lock only.
Load(r) ==
  /\ Step(r, "loading", "insert")
  /\ made' = made + 1 /\ inst' = [inst EXCEPT ![r] = made + 1]
  /\ UNCHANGED <<cacheVars, holder, torn, locks, key, lock, doomed>>

LoadFails(r) ==
  /\ LoadMayFail /\ Step(r, "loading", "failed") /\ Unlock(r)
  /\ UNCHANGED <<cacheVars, made, torn, locks, key, lock, inst, doomed>>

\* Third critical section: insert, evict the oldest beyond the capacity, refcount
\* our acquisition and restore the sidecar lock.
Insert(r) ==
  LET k        == key[r]
      full     == IF k \in Range(lru) THEN lru ELSE Append(lru, k)
      excess   == Excess(full)
      evicted  == SubSeq(full, 1, excess)
      instOf   == [cached EXCEPT ![k] = inst[r]]
      busy(e)  == refs[e] > 0
      idle     == {n \in DOMAIN evicted : ~busy(evicted[n])}
  IN
  /\ Step(r, "insert", "sweep")
  /\ lru' = SubSeq(full, excess + 1, Len(full))
  /\ cached' = [e \in Keys |-> IF e \in Range(evicted) THEN 0 ELSE instOf[e]]
  /\ parked' = [e \in Keys |-> IF e \in Range(evicted) /\ busy(e) THEN instOf[e] ELSE parked[e]]
  /\ doomed' = [doomed EXCEPT ![r] = [n \in idle |-> <<evicted[n], instOf[evicted[n]]>>]]
  /\ refs' = [refs EXCEPT ![k] = @ + 1]
  /\ sidecar' = [sidecar EXCEPT ![k] = IF @ = 0 THEN lock[r] ELSE @]
  /\ UNCHANGED <<holder, made, torn, locks, key, lock, inst>>

\* Outside the cache lock: drop the sidecar entries of the next evicted key, tear it down.
SweepOne(r) ==
  /\ pc[r] = "sweep"
  /\ \E n \in DOMAIN doomed[r] :
       /\ \A m \in DOMAIN doomed[r] : n <= m
       /\ sidecar' = [sidecar EXCEPT ![doomed[r][n][1]] = 0]
       /\ refs' = [refs EXCEPT ![doomed[r][n][1]] = 0]
       /\ torn' = Append(torn, doomed[r][n][2])
       /\ doomed' = [doomed EXCEPT ![r] = Restrict(@, DOMAIN @ \ {n})]
  /\ UNCHANGED <<lru, cached, parked, holder, made, locks, pc, key, lock, inst>>

SweepDone(r) ==
  /\ DOMAIN doomed[r] = {} /\ Step(r, "sweep", "acquired") /\ Unlock(r)
  /\ UNCHANGED <<cacheVars, made, torn, locks, key, lock, inst, doomed>>

-----------------------------------------------------------------------------
(* _run_optimize and _release_model                                            *)

\* with model_lock: the whole run is serialised per model.
BeginRun(r) ==
  /\ Step(r, "acquired", "running")
  /\ holder[lock[r]] = NoRequest /\ holder' = [holder EXCEPT ![lock[r]] = r]
  /\ UNCHANGED <<cacheVars, made, torn, locks, key, lock, inst, doomed>>

\* The model does not support the device: ValueError, and the release, without its lock.
RefuseDevice(r) ==
  /\ DeviceMayBeRefused /\ Step(r, "acquired", "finished")
  /\ UNCHANGED <<cacheVars, holder, made, torn, locks, key, lock, inst, doomed>>

EndRun(r) ==
  /\ Step(r, "running", "finished") /\ Unlock(r)
  /\ UNCHANGED <<cacheVars, made, torn, locks, key, lock, inst, doomed>>

\* The count goes down; at zero the entry goes, and a parked instance with its lock.
Release(r) ==
  LET k == key[r] IN
  /\ IF refs[k] > 1
       THEN /\ Step(r, "finished", "done")
            /\ refs' = [refs EXCEPT ![k] = @ - 1]
            /\ UNCHANGED <<parked, sidecar, doomed>>
       ELSE /\ refs' = [refs EXCEPT ![k] = 0]
            /\ Unpark(k)
            /\ IF parked[k] = 0
                 THEN Step(r, "finished", "done") /\ UNCHANGED <<sidecar, doomed>>
                 ELSE /\ Step(r, "finished", "teardown")
                      /\ sidecar' = [sidecar EXCEPT ![k] = 0]
                      /\ doomed' = [doomed EXCEPT ![r] = <<<<k, parked[k]>>>>]
  /\ UNCHANGED <<lru, cached, holder, made, torn, locks, key, lock, inst>>

\* The deferred teardown of the parked model, outside the cache lock.
TeardownParked(r) ==
  /\ Step(r, "teardown", "done")
  /\ torn' = Append(torn, doomed[r][1][2]) /\ doomed' = [doomed EXCEPT ![r] = <<>>]
  /\ UNCHANGED <<cacheVars, holder, made, locks, key, lock, inst>>

-----------------------------------------------------------------------------

GetOrLoad(r) ==
  \/ LookupHit(r) \/ LookupMiss(r) \/ TakeLoadLock(r) \/ RecheckHit(r) \/ RecheckUnpark(r)
  \/ RecheckMiss(r) \/ Load(r) \/ LoadFails(r) \/ Insert(r) \/ SweepOne(r) \/ SweepDone(r)
Use(r) == BeginRun(r) \/ RefuseDevice(r) \/ EndRun(r) \/ Release(r) \/ TeardownParked(r)

Ended == {"done", "failed", "KeyError"}
\* All requests answered: the only state the module may stop in.
AllAnswered == (\A r \in Requests : pc[r] \in Ended) /\ UNCHANGED vars

Next == (\E r \in Requests : GetOrLoad(r) \/ Use(r)) \/ AllAnswered

Spec == Init /\ [][Next]_vars

\* A request that has arrived is carried on.
FairSpec == Spec /\ \A r \in Requests : WF_vars(pc[r] # "new" /\ (GetOrLoad(r) \/ Use(r)))

-----------------------------------------------------------------------------
(* Properties                                                                  *)

Using(r) == pc[r] \in {"sweep", "acquired", "running"}

\* What the module-level dictionaries of app.py hold; no count is ever negative.
TypeOK ==
  /\ lru \in Seq(Keys) /\ cached \in [Keys -> Ids] /\ parked \in [Keys -> Ids]
  /\ sidecar \in [Keys -> Ids] /\ refs \in [Keys -> Nat]
  /\ holder \in [Ids -> Requests \cup {NoRequest}]
  /\ made \in Ids /\ locks \in Ids /\ Range(torn) \subseteq Ids
  /\ key \in [Requests -> Keys] /\ lock \in [Requests -> Ids] /\ inst \in [Requests -> Ids]
  /\ pc \in [Requests -> {"new", "waiting", "recheck", "loading", "insert", "sweep",
                         "acquired", "running", "finished", "teardown"} \cup Ended]

\* An instance that was torn down, or is about to be, is never handed out again: it is
\* neither cached nor parked.
DoomedIsUnreachable ==
  \A i \in Range(torn) \cup {d[2] : d \in UNION {Range(doomed[r]) : r \in Requests}} :
    \A k \in Keys : cached[k] # i /\ parked[k] # i

\* No instance is torn down twice, by an eviction and a last release together.
TornDownOnce == \A m, n \in DOMAIN torn : torn[m] = torn[n] => m = n

\* Teardown is final: it happens once, and to nothing that can still be found.
TeardownIsFinal == DoomedIsUnreachable /\ TornDownOnce

\* The per-key lock admits no two loads of the same key (_get_or_load_model: two
\* concurrent requests must not both build the model).
NoDoubleLoad ==
  \A q, r \in Requests :
    pc[q] \in {"loading", "insert"} /\ pc[r] \in {"loading", "insert"} /\ key[q] = key[r] => q = r

\* Concurrent predict() on the same instance never interleaves.
RunsAreSerialised ==
  \A q, r \in Requests : pc[q] = "running" /\ pc[r] = "running" /\ inst[q] = inst[r] => q = r

\* The weights of a model are not freed underneath a request that runs it.
NoUseAfterTeardown == \A r \in Requests : Using(r) => inst[r] \notin Range(torn)

Holding(k) == {r \in Requests : key[r] = k /\
                               pc[r] \in {"sweep", "acquired", "running", "finished"}}

\* A key is never counted for more requests than have it and will release it: no entry
\* outlives its last holder.
RefcountsHaveHolders == \A k \in Keys : refs[k] <= Cardinality(Holding(k))

\* An evicted model is parked only as long as somebody will release it, and with that
\* tear it down.
ParkedIsHeld == \A k \in Keys : parked[k] # 0 => Holding(k) # {}

\* The reference counts are balanced: each has its holders, and each parked model one that
\* will tear it down.
ReferencesAreAccounted == RefcountsHaveHolders /\ ParkedIsHeld

\* No request deadlocks on a load lock, a run lock or the cache: each one ends.
EveryRequestEnds == \A r \in Requests : pc[r] = "waiting" ~> pc[r] \in Ended
=============================================================================
