-------------------------- MODULE MCBoardingSystem --------------------------
(* Symmetry for the runs of BoardingSystem. *)
EXTENDS BoardingSystem, TLC

MCSymmetry == Permutations(Commands) \cup Permutations(Refreshers)
=============================================================================
