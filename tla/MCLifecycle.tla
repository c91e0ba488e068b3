---------------------------- MODULE MCLifecycle ----------------------------
(* Symmetry for the runs of Lifecycle. *)
EXTENDS Lifecycle, TLC

MCSymmetry == Permutations(Callers)
=============================================================================
