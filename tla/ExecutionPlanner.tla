--------------------------- MODULE ExecutionPlanner ---------------------------
(***************************************************************************)
(* plan_execution (workflow/execution.py): dense or streaming, or a refusal.    *)
(* A request is a record: the input, its true size in bytes as a dense raster,  *)
(* whether KLayout is there and the layout is aligned to pixels, the output,    *)
(* the writer, what the model declares, the policy, and the mode asked for.     *)
(***************************************************************************)
EXTENDS Naturals, Sequences

Requests(sizes, budgets) ==
  [input : {"npy", "pt", "tensor", "gds"}, bytes : sizes, klayout : BOOLEAN, aligned : BOOLEAN,
   output : {"oasis", "raster-npy", "tensor-mask"}, writer : {"mbmw", "vsb"},
   modelOk : BOOLEAN, budget : budgets, mode : {"auto", "dense", "streaming"}]

\* probe_input: what can be streamed, with a documented caveat or without; a layout the
\* vector adapter refuses is given the shape (0, 0).
Probe(r) ==
  LET vector == r.input = "gds" /\ r.klayout /\ r.aligned
  IN  [streams  |-> r.input = "npy" \/ vector,
       explicit |-> r.input = "tensor",
       source   |-> r.input \in {"npy", "tensor"} \/ vector,
       estimate |-> IF r.input = "gds" /\ ~vector THEN 0 ELSE r.bytes]

\* _streaming_output_support.  Seeded fault: the writer is not looked at.
OutputSupportAnyWriter(r) ==
  [streams  |-> r.output = "raster-npy" \/ (r.output = "oasis" /\ r.klayout),
   explicit |-> r.output = "tensor-mask"]
OutputSupport(r) ==
  [streams  |-> r.output = "raster-npy" \/ (r.output = "oasis" /\ r.writer = "vsb" /\ r.klayout),
   explicit |-> r.output = "tensor-mask"]

\* dense_memory_budget: zero is unlimited.
OverPolicy(r) == r.budget > 0 /\ Probe(r).estimate > r.budget

Decision(mode, reason) == [mode |-> mode, reason |-> reason]

\* The first part that blocks streaming, of those a caveat does not excuse.
Blockers(r, excused) ==
  (IF Probe(r).streams \/ (excused /\ Probe(r).explicit) THEN <<>> ELSE <<"UNSUPPORTED_INPUT">>)
  \o (IF OutputSupport(r).streams \/ (excused /\ OutputSupport(r).explicit) THEN <<>>
      ELSE <<"UNSUPPORTED_OUTPUT">>)
  \o (IF r.modelOk THEN <<>> ELSE <<"UNSUPPORTED_MODEL">>)

PlanExecution(r) ==
  CASE r.mode = "dense" -> Decision("dense", "REQUESTED_EXPLICITLY")
    [] r.mode = "streaming" ->
         IF Blockers(r, TRUE) = <<>> THEN Decision("streaming", "SUPPORTED")
         ELSE Decision("refused", Head(Blockers(r, TRUE)))
    [] r.mode = "auto" ->
         IF ~OverPolicy(r) THEN Decision("dense", "SMALL_LAYOUT")
         ELSE IF Blockers(r, FALSE) = <<>> THEN Decision("streaming", "REQUIRED_BY_MEMORY_POLICY")
         ELSE Decision("refused", Head(Blockers(r, FALSE)))
=============================================================================
