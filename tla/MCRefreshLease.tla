--------------------------- MODULE MCRefreshLease ---------------------------
(* Instances of RefreshLease for TLC. *)
EXTENDS RefreshLease

=============================================================================
