---------------------------- MODULE SyncSchedule ----------------------------
(***************************************************************************)
(* What BackgroundSync promises to the host of one connection, without     *)
(* contexts, leases or snapshots: passes happen one at a time, each reads  *)
(* and replaces the schedule as one step, an unforced pass only starts     *)
(* when it is due, none starts while paused, and a pass that is cut short  *)
(* (a closed tab, a store that fails) leaves the schedule as it was.       *)
(***************************************************************************)
EXTENDS SyncState

VARIABLES
    now,      \* the clock
    state,    \* the persisted schedule
    passing   \* a pass is in progress

schedule == <<now, state, passing>>

Init == now = 0 /\ state = Fresh /\ passing = FALSE

Tock == now' = now + 1 /\ UNCHANGED <<state, passing>>

\* A pass starts: on schedule, or because a person asked for it.
Begin(forced) ==
    /\ ~passing
    /\ ~Paused(state)
    /\ forced \/ Due(state, now)
    /\ passing' = TRUE
    /\ UNCHANGED <<now, state>>

\* The pass ends at some time up to now and its outcome is recorded.
Finish ==
    /\ passing
    /\ \E t \in 0..now : state' \in PassResults(state, t)
    /\ passing' = FALSE
    /\ UNCHANGED now

\* The pass is cut short before its outcome is recorded.
Abandon == passing /\ passing' = FALSE /\ UNCHANGED <<now, state>>

Resume ==
    /\ ~passing
    /\ state' = Resumed(state)
    /\ UNCHANGED <<now, passing>>

Next == Tock \/ (\E forced \in BOOLEAN : Begin(forced)) \/ Finish \/ Abandon \/ Resume

Spec == Init /\ [][Next]_schedule

=============================================================================
