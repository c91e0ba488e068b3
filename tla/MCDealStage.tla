---------------------------- MODULE MCDealStage ----------------------------
(* Symmetry for the runs of DealStage. *)
EXTENDS DealStage, TLC

MCSymmetry == Permutations(Workers) \cup Permutations(Commands)
=============================================================================
