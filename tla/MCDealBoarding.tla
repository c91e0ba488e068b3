--------------------------- MODULE MCDealBoarding ---------------------------
(* Model values and symmetry for the runs of DealBoarding. *)
EXTENDS DealBoarding, TLC

MCSymmetry == Permutations(Commands) \cup Permutations(Workers)
=============================================================================
