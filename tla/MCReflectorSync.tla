--------------------------- MODULE MCReflectorSync ---------------------------
(* Instances of ReflectorSync for TLC: the settings of ApiClient, and the    *)
(* reflector's: a user whose ids the server keeps, a limit on attempts and   *)
(* two messages lost.                                                        *)
EXTENDS ReflectorSync

Setting(users, readsBack, keepsIds, givesUp, lost, called) ==
    [users |-> users, readsBack |-> readsBack, keepsIds |-> keepsIds,
     givesUp |-> givesUp, losses |-> lost, syncs |-> called]

One == {CHOOSE u \in Callers : TRUE}

\* Two users and ids assigned by the server; one user, a loss and a sync; a
\* limit on attempts and two losses; a server that keeps ids, with two users
\* who read the collection back, and a loss.
Direct ==
    {Setting(Callers, FALSE, FALSE, FALSE, 0, 0), Setting(One, FALSE, FALSE, FALSE, 1, 1),
     Setting(One, FALSE, FALSE, TRUE, 2, 0), Setting(Callers, TRUE, TRUE, FALSE, 1, 0)}

\* The changes the reflector's engine makes and tracks.
ThroughEngine == {Setting(One, FALSE, TRUE, TRUE, 2, 0)}

Either == Direct \cup ThroughEngine

\* One user of a network that loses nothing.
Plain == {Setting(One, FALSE, FALSE, FALSE, 0, 0)}
NoSettings == {}

=============================================================================
