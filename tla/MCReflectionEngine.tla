------------------------- MODULE MCReflectionEngine -------------------------
(* Instances of ReflectionEngine for TLC. *)
EXTENDS ReflectionEngine

Limit(n, changes, failures, again, starts) ==
    [originals |-> n, toggles |-> changes, faults |-> failures, twice |-> again,
     restarts |-> starts]

\* Every kind of fault once; people who keep changing states, and a restart.
FaultsAndChanges == {Limit(2, 1, 1, 1, 1), Limit(2, 3, 0, 0, 1)}

OneRestart == {Limit(1, 2, 0, 0, 1)}

=============================================================================
