-------------------------- MODULE MCOutboundPause --------------------------
(* Model values and symmetry for the runs of OutboundPause. *)
EXTENDS OutboundPause, TLC

MCSymmetry == Permutations(Procs)
=============================================================================
