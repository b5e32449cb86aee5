---------------------------- MODULE JobLifecycle ----------------------------
(***************************************************************************)
(* What the job API promises to a client, with neither threads nor storage: *)
(*                                                                          *)
(*   QUEUED -> RUNNING -> SUCCEEDED | FAILED      QUEUED -> CANCELLED        *)
(*                                                                          *)
(* A job is accepted once; it is removed (deleted or evicted) only when it  *)
(* is terminal or was still queued, never while it runs; a removed job      *)
(* never comes back; and the queue never holds more than Depth jobs.  A     *)
(* restart may settle many jobs in one step, so a step moves any set of     *)
(* jobs along the edges.                                                    *)
(***************************************************************************)
EXTENDS JobStates, FiniteSets, Naturals

CONSTANTS Jobs, Depth

VARIABLE phase        \* what a client can know of each job

Phases == JobStatus \cup {"absent", "gone"}

Queued(p) == {j \in Jobs : p[j] = "queued"}

LifecycleInit == phase = [j \in Jobs |-> "absent"]

\* The edges an accepted job may follow in one step.
Edge(p, q) ==
  \/ p \in JobStatus /\ q \in JobStatus /\ CanTransition(p, q)
  \/ p \in Terminal /\ q = "gone"

\* A job is accepted into a queue that has room for it.
Accept(j) ==
  /\ phase[j] = "absent"
  /\ Cardinality(Queued(phase)) < Depth
  /\ phase' = [phase EXCEPT ![j] = "queued"]

\* Some accepted jobs move on, or are removed once terminal.
Advance ==
  /\ phase' \in [Jobs -> Phases]
  /\ \A j \in Jobs : phase'[j] = phase[j] \/ Edge(phase[j], phase'[j])

LifecycleNext == (\E j \in Jobs : Accept(j)) \/ Advance

LifecycleSpec == LifecycleInit /\ [][LifecycleNext]_phase
=============================================================================
