------------------------------ MODULE ChipCover ------------------------------
(***************************************************************************)
(* What the streaming pipeline promises of its output: every pixel of the chip  *)
(* is decided exactly once, and a run that reports has decided them all.        *)
(***************************************************************************)
CONSTANT Chip
VARIABLES decided, state

vars == <<decided, state>>

Init == decided = {} /\ state = "running"

Commit ==
  /\ state = "running" /\ UNCHANGED state
  /\ \E S \in SUBSET (Chip \ decided) : S # {} /\ decided' = decided \cup S

Finish == state = "running" /\ decided = Chip /\ state' = "reported" /\ UNCHANGED decided

\* A callback raised: no report.
Abandon == state = "running" /\ state' = "abandoned" /\ UNCHANGED decided

Next == Commit \/ Finish \/ Abandon

Spec == Init /\ [][Next]_vars
=============================================================================
