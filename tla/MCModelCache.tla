---------------------------- MODULE MCModelCache ----------------------------
(***************************************************************************)
(* ModelCache for TLC, with the history of one thing: whether a teardown has    *)
(* dropped the lock of a key that is wanted again.  Requests and keys are       *)
(* interchangeable, so that the requests may be numbered in the order of their  *)
(* arrival and the first of them be for the first key.                          *)
(***************************************************************************)
EXTENDS ModelCache

CONSTANTS r1, r2, r3, r4, k1

VARIABLE dropped

Arrival == <<r1, r2, r3, r4>>
InOrderOfArrival ==
  \A m, n \in DOMAIN Arrival :
    m < n /\ pc[Arrival[m]] = "new" => pc'[Arrival[n]] = "new"

\* A request waits for a model or loads it, or the model has come back since its eviction.
Wanted(k) ==
  \/ \E r \in Requests : key[r] = k /\ pc[r] \in {"waiting", "recheck", "loading", "insert"}
  \/ cached[k] # 0 \/ parked'[k] # 0
DropsWantedLock == \E k \in Keys : sidecar[k] # 0 /\ sidecar'[k] = 0 /\ Wanted(k)

MCInit == Init /\ key[r1] = k1 /\ dropped = FALSE
MCNext == Next /\ InOrderOfArrival /\ dropped' = (dropped \/ DropsWantedLock)
MCSpec ==
  /\ MCInit /\ [][MCNext]_<<vars, dropped>>
  /\ \A r \in Requests : WF_vars(pc[r] # "new" /\ (GetOrLoad(r) \/ Use(r)))

\* No key is loaded twice at a time, no instance is run twice at a time and no weights are
\* freed underneath a request, as long as _release_model and the sweep of an eviction, which
\* both drop a lock whose key is no longer cached, have met none that is wanted again.
LocksExclude == ~dropped => NoDoubleLoad /\ RunsAreSerialised /\ NoUseAfterTeardown
=============================================================================
