------------------------- MODULE RefreshLeaseProofs -------------------------
(***************************************************************************)
(* Proofs about RefreshLease for any number of callers and any times.      *)
(***************************************************************************)
EXTENDS RefreshLease, TLAPS

USE DEF Goto, Load, Fault, Live, row, cred

\* Before the first call nobody holds the lease and nothing has gone wrong.
LEMMA InitInv == Init => RefreshInv
<1> SUFFICES ASSUME Init PROVE RefreshInv
    OBVIOUS
<1> USE DEF Init
<1>1. TypeOK
    BY TimesAssumption DEF TypeOK, Steps
<1>2. \A c \in Callers : pc[c] = "idle"
    OBVIOUS
<1> QED
    BY <1>1, <1>2 DEF RefreshInv, OneRefresher, TokenSpentOnce, StoredIsCurrent, LeaseHeld,
                      HolderCurrent, TriesLeft, Holds

\* Every step keeps the types; the attempts of a call are bounded because it
\* re-enters the loop only below the limit.
LEMMA TypeStep == TypeOK /\ TriesLeft /\ [Next]_vars => TypeOK' /\ TriesLeft'
<1> SUFFICES ASSUME TypeOK, TriesLeft, [Next]_vars PROVE TypeOK' /\ TriesLeft'
    OBVIOUS
<1> USE DEF TypeOK, TriesLeft, Steps, Mishaps
<1>1. ASSUME NEW c \in Callers, Call(c) PROVE TypeOK' /\ TriesLeft'
    BY <1>1, TimesAssumption DEF Call
<1>2. ASSUME NEW c \in Callers, Fresh(c) PROVE TypeOK' /\ TriesLeft'
    BY <1>2, TimesAssumption DEF Fresh
<1>3. ASSUME NEW c \in Callers, Claim(c) PROVE TypeOK' /\ TriesLeft'
    BY <1>3, TimesAssumption DEF Claim
<1>4. ASSUME NEW c \in Callers, Busy(c) PROVE TypeOK' /\ TriesLeft'
    BY <1>4, TimesAssumption DEF Busy
<1>5. ASSUME NEW c \in Callers, Reload(c) PROVE TypeOK' /\ TriesLeft'
    BY <1>5, TimesAssumption DEF Reload
<1>6. ASSUME NEW c \in Callers, ReloadClaimed(c) PROVE TypeOK' /\ TriesLeft'
    BY <1>6, TimesAssumption DEF ReloadClaimed
<1>7. ASSUME NEW c \in Callers, ReloadClaimedFails(c) PROVE TypeOK' /\ TriesLeft'
    BY <1>7, TimesAssumption DEF ReloadClaimedFails
<1>8. ASSUME NEW c \in Callers, Answered(c) PROVE TypeOK' /\ TriesLeft'
    <2>1. PICK n \in {current, current + 1}, life \in Lifetimes :
              /\ current' = n
              /\ credToken' = [credToken EXCEPT ![c] = n]
              /\ credExpires' = [credExpires EXCEPT ![c] = now + life]
        BY <1>8, TimesAssumption DEF Answered
    <2>2. n \in Nat /\ now + life \in Nat
        BY TimesAssumption
    <2> QED
        BY <1>8, <2>1, <2>2, TimesAssumption DEF Answered
<1>9. ASSUME NEW c \in Callers, Refused(c) PROVE TypeOK' /\ TriesLeft'
    BY <1>9, TimesAssumption DEF Refused
<1>10. ASSUME NEW c \in Callers, RequestFails(c) PROVE TypeOK' /\ TriesLeft'
    <2>1. CASE UNCHANGED <<current, mishaps>>
        BY <1>10, <2>1, TimesAssumption DEF RequestFails
    <2>2. CASE current' = current + 1 /\ mishaps' = mishaps \cup {"answerLost"}
        BY <1>10, <2>2, TimesAssumption DEF RequestFails
    <2> QED
        BY <1>10, <2>1, <2>2 DEF RequestFails
<1>11. ASSUME NEW c \in Callers, Store(c) PROVE TypeOK' /\ TriesLeft'
    BY <1>11, TimesAssumption DEF Store
<1>12. ASSUME NEW c \in Callers, Release(c) PROVE TypeOK' /\ TriesLeft'
    BY <1>12, TimesAssumption DEF Release
<1>13. ASSUME NEW c \in Callers, Abort(c) PROVE TypeOK' /\ TriesLeft'
    BY <1>13, TimesAssumption DEF Abort
<1>14. CASE Delete
    BY <1>14, TimesAssumption DEF Delete
<1>15. CASE Tick
    BY <1>15, TimesAssumption DEF Tick
<1>16. CASE UNCHANGED vars
    BY <1>16, TimesAssumption DEF vars
<1> QED
    BY <1>1, <1>2, <1>3, <1>4, <1>5, <1>6, <1>7, <1>8, <1>9, <1>10, <1>11, <1>12, <1>13,
       <1>14, <1>15, <1>16 DEF Next, Step

-----------------------------------------------------------------------------
(* The lease and the tokens. *)

\* What a step keeps of the lease: it is not claimed while a holder's is
\* running, and given back by the only holder.
LEMMA LeaseStep ==
    RefreshInv /\ [Next]_vars => OneRefresher' /\ LeaseHeld'
<1> SUFFICES ASSUME RefreshInv, [Next]_vars, "leaseOverrun" \notin mishaps'
             PROVE  /\ \A c, d \in Callers : Holds(c)' /\ Holds(d)' => c = d
                    /\ \A c \in Callers : Holds(c)' => lease' = until'[c] /\ until'[c] > now'
    BY DEF OneRefresher, LeaseHeld
<1>1. mishaps \subseteq mishaps'
    BY DEF Next, Step, vars, Call, Fresh, Claim, Busy, Reload, ReloadClaimed, ReloadClaimedFails,
           Answered, Refused, RequestFails, Store, Release, Abort, Delete, Tick
<1>2. /\ \A c, d \in Callers : Holds(c) /\ Holds(d) => c = d
      /\ \A c \in Callers : Holds(c) => lease = until[c] /\ until[c] > now
    BY <1>1 DEF RefreshInv, OneRefresher, LeaseHeld
<1> USE DEF RefreshInv, TypeOK, Holds
\* Nobody holds: a claim makes its caller the only holder.
<1>3. ASSUME NEW c \in Callers, Claim(c)
      PROVE  /\ \A d \in Callers : Holds(d)' <=> d = c
             /\ lease' = until'[c] /\ until'[c] > now'
    <2>1. \A d \in Callers : ~Holds(d)
        BY <1>2, <1>3 DEF Claim
    <2> QED
        BY <2>1, <1>3, TimesAssumption DEF Claim
\* The holder goes on under its lease.
<1>4. ASSUME NEW c \in Callers, Holds(c), \A d \in Callers : d # c => pc'[d] = pc[d],
             UNCHANGED <<now, lease, until>>
      PROVE  /\ \A d \in Callers : Holds(d)' => d = c
             /\ Holds(c)' => lease' = until'[c] /\ until'[c] > now'
    BY <1>2, <1>4
\* Whoever gives the lease back was the only holder.
<1>5. ASSUME NEW c \in Callers, Holds(c), pc' = [pc EXCEPT ![c] = "idle"]
      PROVE  \A d \in Callers : ~Holds(d)'
    BY <1>2, <1>5
\* Steps of calls that do not hold the lease.
<1>6. ASSUME \A d \in Callers : Holds(d)' => Holds(d), UNCHANGED <<now, lease, until>>
      PROVE  /\ \A d, e \in Callers : Holds(d)' /\ Holds(e)' => d = e
             /\ \A d \in Callers : Holds(d)' => lease' = until'[d] /\ until'[d] > now'
    BY <1>2, <1>6
<1>7. ASSUME NEW c \in Callers, Call(c) \/ Step(c) \/ Abort(c)
      PROVE  /\ \A d, e \in Callers : Holds(d)' /\ Holds(e)' => d = e
             /\ \A d \in Callers : Holds(d)' => lease' = until'[d] /\ until'[d] > now'
    <2>1. CASE Claim(c)
        BY <1>3, <2>1
    <2>2. CASE Call(c) \/ Fresh(c) \/ Busy(c) \/ Reload(c) \/ Abort(c)
        BY <1>6, <2>2 DEF Call, Fresh, Busy, Reload, Abort
    <2>3. CASE ReloadClaimed(c) \/ ReloadClaimedFails(c)
        BY <1>4, <2>3 DEF ReloadClaimed, ReloadClaimedFails
    <2>4. CASE Answered(c) \/ Refused(c) \/ RequestFails(c)
        BY <1>4, <2>4 DEF Answered, Refused, RequestFails
    <2>5. CASE Store(c) \/ Release(c)
        BY <1>5, <2>5 DEF Store, Release
    <2> QED
        BY <1>7, <2>1, <2>2, <2>3, <2>4, <2>5 DEF Step
<1>8. CASE Delete
    BY <1>6, <1>8 DEF Delete
\* Time that passes a holder's lease is an overrun.
<1>9. CASE Tick
    BY <1>2, <1>9 DEF Tick
<1>10. CASE UNCHANGED vars
    BY <1>6, <1>10 DEF vars
<1> QED
    BY <1>7, <1>8, <1>9, <1>10 DEF Next

\* What a step keeps of the tokens while nothing has gone wrong: the only
\* holder reads the row it has claimed, so it spends the newest token, and the
\* row falls behind the provider only while that holder has the answer.
LEMMA TokenStep ==
    RefreshInv /\ [Next]_vars => TokenSpentOnce' /\ StoredIsCurrent' /\ HolderCurrent'
<1> SUFFICES ASSUME RefreshInv, [Next]_vars, mishaps' = {}
             PROVE  /\ grant' = "valid"
                    /\ Live' /\ (\A c \in Callers : pc'[c] # "answered") => token' = current'
                    /\ \A c \in Callers : pc'[c] \in {"refresh", "answered"} => credToken'[c] = current'
    BY DEF TokenSpentOnce, StoredIsCurrent, HolderCurrent
<1>1. mishaps = {}
    BY DEF Next, Step, vars, Call, Fresh, Claim, Busy, Reload, ReloadClaimed, ReloadClaimedFails,
           Answered, Refused, RequestFails, Store, Release, Abort, Delete, Tick
<1>2. /\ grant = "valid"
      /\ Live /\ (\A c \in Callers : pc[c] # "answered") => token = current
      /\ \A c \in Callers : pc[c] \in {"refresh", "answered"} => credToken[c] = current
      /\ \A c, d \in Callers : Holds(c) /\ Holds(d) => c = d
    BY <1>1 DEF RefreshInv, OneRefresher, TokenSpentOnce, StoredIsCurrent, HolderCurrent
<1> USE DEF RefreshInv, TypeOK
\* Calls that hold nothing, and steps that leave row, provider and holder be.
<1>3. ASSUME UNCHANGED <<token, current, grant>>, status' = status \/ status' = "deleted",
             \A c \in Callers : pc'[c] = "answered" <=> pc[c] = "answered",
             \A c \in Callers : pc'[c] \in {"refresh", "answered"} =>
                 pc[c] = pc'[c] /\ credToken'[c] = credToken[c]
      PROVE  /\ grant' = "valid"
             /\ Live' /\ (\A c \in Callers : pc'[c] # "answered") => token' = current'
             /\ \A c \in Callers : pc'[c] \in {"refresh", "answered"} => credToken'[c] = current'
    BY <1>2, <1>3
<1>4. ASSUME NEW c \in Callers, Call(c) \/ Step(c) \/ Abort(c)
      PROVE  /\ grant' = "valid"
             /\ Live' /\ (\A d \in Callers : pc'[d] # "answered") => token' = current'
             /\ \A d \in Callers : pc'[d] \in {"refresh", "answered"} => credToken'[d] = current'
    <2>1. CASE Call(c) \/ Fresh(c) \/ Claim(c) \/ Busy(c) \/ Reload(c)
        BY <1>3, <2>1 DEF Call, Fresh, Claim, Busy, Reload
    <2>2. CASE ReloadClaimed(c)
        <3>1. \A d \in Callers : d # c => ~Holds(d)
            BY <1>2, <2>2 DEF ReloadClaimed, Holds
        <3>2. token = current
            BY <1>2, <2>2, <3>1 DEF ReloadClaimed, Holds
        <3> QED
            BY <1>2, <2>2, <3>1, <3>2 DEF ReloadClaimed, Holds
    <2>3. CASE ReloadClaimedFails(c)
        BY <2>3 DEF ReloadClaimedFails
    <2>4. CASE Answered(c)
        <3>1. \A d \in Callers : d # c => ~Holds(d)
            BY <1>2, <2>4 DEF Answered, Holds
        <3>2. pc'[c] = "answered" /\ credToken'[c] = current' /\ grant' = grant
            BY <2>4 DEF Answered
        <3>3. \A d \in Callers : d # c => pc'[d] = pc[d]
            BY <2>4 DEF Answered
        <3> QED
            BY <1>2, <3>1, <3>2, <3>3 DEF Holds
    <2>5. CASE Refused(c)
        BY <1>2, <2>5 DEF Refused
    <2>6. CASE RequestFails(c)
        <3>1. UNCHANGED current
            BY <2>6 DEF RequestFails
        <3> QED
            BY <1>3, <2>6, <3>1 DEF RequestFails
    <2>7. CASE Store(c)
        BY <1>2, <2>7 DEF Store
    <2>8. CASE Release(c)
        BY <1>3, <2>8 DEF Release
    <2>9. CASE Abort(c)
        <3>1. pc[c] # "answered"
            BY <2>9 DEF Abort
        <3> QED
            BY <1>3, <2>9, <3>1 DEF Abort
    <2> QED
        BY <1>4, <2>1, <2>2, <2>3, <2>4, <2>5, <2>6, <2>7, <2>8, <2>9 DEF Step
<1>5. CASE Delete
    BY <1>3, <1>5 DEF Delete
<1>6. CASE Tick
    BY <1>3, <1>6 DEF Tick
<1>7. CASE UNCHANGED vars
    BY <1>3, <1>7 DEF vars
<1> QED
    BY <1>4, <1>5, <1>6, <1>7 DEF Next

-----------------------------------------------------------------------------
(* The theorems. *)

\* RefreshInv is an invariant for every set of callers and every lease time.
THEOREM RefreshInvariant == Spec => []RefreshInv
<1>1. RefreshInv /\ [Next]_vars => RefreshInv'
    BY TypeStep, LeaseStep, TokenStep DEF RefreshInv
<1> QED
    BY InitInv, <1>1, PTL DEF Spec

\* "At most one refresh in flight per connection" (refresh_connection): two
\* calls are between claim and release only if one outlived its lease.
THEOREM SingleRefresh == Spec => []OneRefresher
<1>1. RefreshInv => OneRefresher
    BY DEF RefreshInv
<1> QED
    BY RefreshInvariant, <1>1, PTL

\* A refresh token is spent once, unless an answer was lost, a lease overrun,
\* or a claimed row could not be read.
THEOREM TokensKept == Spec => []TokenSpentOnce
<1>1. RefreshInv => TokenSpentOnce
    BY DEF RefreshInv
<1> QED
    BY RefreshInvariant, <1>1, PTL

\* The row holds the provider's newest token whenever no call has a newer one
\* in hand, under the same conditions.
THEOREM NewestStored == Spec => []StoredIsCurrent
<1>1. RefreshInv => StoredIsCurrent
    BY DEF RefreshInv
<1> QED
    BY RefreshInvariant, <1>1, PTL

=============================================================================
