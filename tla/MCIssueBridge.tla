---------------------------- MODULE MCIssueBridge ----------------------------
(* Instances of IssueBridge for TLC.  Titles are only compared. *)
EXTENDS IssueBridge, TLC

Symmetry == Permutations(Titles)
=============================================================================
