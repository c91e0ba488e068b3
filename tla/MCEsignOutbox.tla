--------------------------- MODULE MCEsignOutbox ---------------------------
(* Symmetry for the runs of EsignOutbox. *)
EXTENDS EsignOutbox, TLC

MCSymmetry == Permutations(Workers) \cup Permutations(Rows)
=============================================================================
