-------------------------- MODULE MCBackgroundSync --------------------------
(* Instances of BackgroundSync for TLC: two contexts as model values. *)
EXTENDS BackgroundSync

=============================================================================
