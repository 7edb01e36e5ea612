--------------------------- MODULE ReconcileRecord ---------------------------
(***************************************************************************)
(* Three-way reconciliation of one record, devonian/src/reconcileRecord.ts. *)
(* A record is a function from Properties to values, Absent for a property *)
(* it does not have; Null is an explicit deletion and Undefined a side     *)
(* that was not seen.  Every plugin that syncs reviewed edits rests on it.  *)
(***************************************************************************)
CONSTANTS Properties, Absent, Null, Undefined

At(record, p) == IF record \in {Null, Undefined} THEN Absent ELSE record[p]

(* What the loop over the properties finds: edited there only, edited here *)
(* only, edited on both sides to different values.                         *)
Inbound(base, local, remote) ==
    {p \in Properties : At(local, p) # At(remote, p)
                        /\ At(local, p) = At(base, p)}
Outbound(base, local, remote) ==
    {p \in Properties : At(local, p) # At(remote, p)
                        /\ At(local, p) # At(base, p)
                        /\ At(remote, p) = At(base, p)}
Clashing(base, local, remote) ==
    {p \in Properties : At(local, p) # At(remote, p)
                        /\ At(local, p) # At(base, p)
                        /\ At(remote, p) # At(base, p)}

(* The whole decision.  local and remote are the sets of properties to     *)
(* write on that side, with the other side's value.                        *)
NoDecision == [local |-> {}, remote |-> {}, createLocal |-> FALSE,
               createRemote |-> FALSE, deleteLocal |-> FALSE,
               deleteRemote |-> FALSE, conflict |-> FALSE, clashing |-> {}]
Decision(base, local, remote) ==
    CASE local = remote -> NoDecision
      [] local # remote /\ Null \in {local, remote} ->
           [NoDecision EXCEPT
              !.deleteLocal  = remote = Null /\ local = base,
              !.deleteRemote = local = Null /\ remote = base,
              !.conflict     = ~(remote = Null /\ local = base)
                               /\ ~(local = Null /\ remote = base)]
      [] local # remote /\ Null \notin {local, remote}
         /\ base # Undefined /\ Undefined \in {local, remote} -> NoDecision
      [] OTHER ->
           [NoDecision EXCEPT
              !.local        = Inbound(base, local, remote),
              !.remote       = Outbound(base, local, remote),
              !.clashing     = Clashing(base, local, remote),
              !.conflict     = Clashing(base, local, remote) # {},
              !.createLocal  = base = Undefined /\ local = Undefined,
              !.createRemote = base = Undefined /\ remote = Undefined]

(* { ...remote, ...decision.remote }: what both sides hold once the edits   *)
(* made on one side only are carried over.                                 *)
Merged(base, local, remote) ==
    [p \in Properties |-> IF p \in Decision(base, local, remote).remote
                          THEN At(local, p) ELSE At(remote, p)]

(* acknowledgedBaseline: nothing is a baseline until both sides match.      *)
Acknowledged(local, remote) == local = remote
=============================================================================
