------------------------------ MODULE JobStates ------------------------------
(***************************************************************************)
(* The public vocabulary of job states of the HTTP server and the one       *)
(* table of legal transitions (server/schemas.py).  Every module that       *)
(* moves a job goes through CanTransition, as every writer in the code goes *)
(* through transition_job_status.                                           *)
(***************************************************************************)

JobStatus == {"queued", "running", "succeeded", "failed", "cancelled"}

\* Seeded fault (see ServerRuntime): a job in execution can be cancelled.
CANCELLABLE_RUNNING ==
  [queued    |-> {"running", "cancelled"},
   running   |-> {"succeeded", "failed", "cancelled"},
   succeeded |-> {},
   failed    |-> {},
   cancelled |-> {}]

\* The complete legal-transition table.
JOB_TRANSITIONS ==
  [queued    |-> {"running", "cancelled"},
   running   |-> {"succeeded", "failed"},
   succeeded |-> {},
   failed    |-> {},
   cancelled |-> {}]

Terminal == {"succeeded", "failed", "cancelled"}

\* transition_job_status raises IllegalJobTransitionError when this is false.
CanTransition(current, new) == new \in JOB_TRANSITIONS[current]
=============================================================================
