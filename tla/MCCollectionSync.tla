-------------------------- MODULE MCCollectionSync --------------------------
(* Instances of CollectionSync for TLC. *)
EXTENDS CollectionSync

TwoItems == <<"a", "b">>

=============================================================================
