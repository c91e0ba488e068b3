--------------------------- MODULE MCWorkflowRuns ---------------------------
(* Executors are interchangeable. *)
EXTENDS WorkflowRuns, TLC

MCSymmetry == Permutations(Workers)
=============================================================================
