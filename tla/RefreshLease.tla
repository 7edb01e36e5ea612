---------------------------- MODULE RefreshLease ----------------------------
(***************************************************************************)
(* The refresh of one connection's OAuth token by the integration proxy    *)
(* (refresh_connection in proxy.rs over the lease in security.rs).  Many   *)
(* requests, in many processes, find the stored credential about to        *)
(* expire; one of them claims the lease in the connection's row, spends    *)
(* the refresh token at the provider and stores what it got, the others    *)
(* wait and read the row again.  The provider rotates refresh tokens and   *)
(* accepts only the newest.                                                *)
(*                                                                         *)
(* Time passes between any two steps, so a holder may outlive its lease    *)
(* (the HTTP client's timeout is as long as the lease).  What went wrong   *)
(* so far is kept in "mishaps"; the properties say what needs a mishap.    *)
(***************************************************************************)
EXTENDS Naturals, FiniteSets

CONSTANTS
    Callers,       \* requests that may be in progress at a time
    LeaseTime,     \* REFRESH_LEASE_SECONDS
    Skew,          \* a credential is refreshed this long before it expires
    Lifetimes,     \* the expires_in values of the provider
    Attempts,      \* how often a call tries for the lease
    MaxTime,       \* bound: time
    MaxCalls,      \* bound: calls
    MaxFaults      \* bound: failed requests and database operations, crashes

ASSUME TimesAssumption ==
    /\ LeaseTime \in Nat \ {0} /\ Skew \in Nat
    /\ Lifetimes \subseteq Nat
    /\ Attempts \in Nat \ {0}
    /\ MaxTime \in Nat /\ MaxCalls \in Nat /\ MaxFaults \in Nat

VARIABLES
    now,         \* the clock of database and proxies
    status,      \* the connection's row: "live" or "deleted"
    token,       \* ... the refresh token sealed in it
    expires,     \* ... the expiry of the access token sealed in it
    lease,       \* ... refresh_lease_until, 0 for NULL
    current,     \* the refresh token the provider accepts
    grant,       \* "reused" once the provider was shown a token it had rotated away
    pc,          \* where each call of refresh_connection is
    credToken, credExpires,   \* the call's credential
    until,       \* when the lease the call claimed runs out
    tries,       \* loop iterations of the call
    mishaps,     \* what went wrong so far
    calls, faults

row == <<status, token, expires, lease>>
cred == <<credToken, credExpires>>
vars == <<now, status, token, expires, lease, current, grant, pc, credToken, credExpires,
          until, tries, mishaps, calls, faults>>

Mishaps == {"answerLost", "leaseOverrun", "reloadFailed"}
Steps == {"idle", "check", "wait", "claimed", "refresh", "answered", "release"}

TypeOK ==
    /\ now \in Nat /\ status \in {"live", "deleted"}
    /\ token \in Nat /\ expires \in Nat /\ lease \in Nat
    /\ current \in Nat /\ grant \in {"valid", "reused"}
    /\ pc \in [Callers -> Steps]
    /\ credToken \in [Callers -> Nat] /\ credExpires \in [Callers -> Nat]
    /\ until \in [Callers -> Nat]
    /\ tries \in [Callers -> 0..Attempts]
    /\ mishaps \subseteq Mishaps
    /\ calls \in 0..MaxCalls /\ faults \in 0..MaxFaults

Init ==
    /\ now = 0 /\ status = "live"
    /\ token = 1 /\ current = 1 /\ expires \in Lifetimes
    /\ lease = 0
    /\ grant = "valid"
    /\ pc = [c \in Callers |-> "idle"]
    /\ credToken = [c \in Callers |-> 0] /\ credExpires = [c \in Callers |-> 0]
    /\ until = [c \in Callers |-> 0]
    /\ tries = [c \in Callers |-> 0]
    /\ mishaps = {}
    /\ calls = 0 /\ faults = 0

Live == status = "live"
needs_refresh(e) == e <= now + Skew

\* Between the claim and the statement that gives the lease back.
Holds(c) == pc[c] \in {"claimed", "refresh", "answered", "release"}

Goto(c, p) == pc' = [pc EXCEPT ![c] = p]
Load(c) ==
    /\ credToken' = [credToken EXCEPT ![c] = token]
    /\ credExpires' = [credExpires EXCEPT ![c] = expires]

Fault == faults < MaxFaults /\ faults' = faults + 1

-----------------------------------------------------------------------------
(* refresh_connection *)

\* A request has loaded the connection and enters the loop.
Call(c) ==
    /\ pc[c] = "idle" /\ Live
    /\ calls < MaxCalls
    /\ calls' = calls + 1
    /\ Load(c)
    /\ tries' = [tries EXCEPT ![c] = 0]
    /\ Goto(c, "check")
    /\ UNCHANGED <<now, row, current, grant, until, mishaps, faults>>

\* The credential is good: the call returns.
Fresh(c) ==
    /\ pc[c] = "check" /\ ~needs_refresh(credExpires[c])
    /\ Goto(c, "idle")
    /\ UNCHANGED <<now, row, current, grant, cred, until, tries, mishaps, calls, faults>>

\* Mutant: the lease is taken although another call holds it.
ClaimTaken(c) ==
    /\ pc[c] = "check" /\ needs_refresh(credExpires[c])
    /\ Live
    /\ lease' = now + LeaseTime
    /\ until' = [until EXCEPT ![c] = now + LeaseTime]
    /\ Goto(c, "claimed")
    /\ UNCHANGED <<now, status, token, expires, current, grant, cred, tries, mishaps, calls, faults>>

\* claim_refresh_lease: one UPDATE of a row whose lease is NULL or over.
Claim(c) ==
    /\ pc[c] = "check" /\ needs_refresh(credExpires[c])
    /\ Live /\ lease <= now
    /\ lease' = now + LeaseTime
    /\ until' = [until EXCEPT ![c] = now + LeaseTime]
    /\ Goto(c, "claimed")
    /\ UNCHANGED <<now, status, token, expires, current, grant, cred, tries, mishaps, calls, faults>>

\* Mutant: the iterations are not counted.
BusyUncounted(c) ==
    /\ pc[c] = "check" /\ needs_refresh(credExpires[c])
    /\ ~(Live /\ lease <= now)
    /\ tries' = tries
    /\ Goto(c, "wait")
    /\ UNCHANGED <<now, row, current, grant, cred, until, mishaps, calls, faults>>

\* No row was updated: wait for the other call.
Busy(c) ==
    /\ pc[c] = "check" /\ needs_refresh(credExpires[c])
    /\ ~(Live /\ lease <= now)
    /\ tries' = [tries EXCEPT ![c] = @ + 1]
    /\ Goto(c, "wait")
    /\ UNCHANGED <<now, row, current, grant, cred, until, mishaps, calls, faults>>

\* After the wait the row is read again; the call fails if that fails or if it
\* was the last attempt.
Reload(c) ==
    /\ pc[c] = "wait"
    /\ IF Live
       THEN /\ Load(c)
            /\ Goto(c, IF tries[c] = Attempts THEN "idle" ELSE "check")
       ELSE Goto(c, "idle") /\ UNCHANGED cred
    /\ UNCHANGED <<now, row, current, grant, until, tries, mishaps, calls, faults>>

\* Mutant: the credential from before the claim is used.
ReloadClaimedNothing(c) ==
    /\ pc[c] = "claimed" /\ Live
    /\ UNCHANGED cred
    /\ Goto(c, IF needs_refresh(credExpires[c]) THEN "refresh" ELSE "release")
    /\ UNCHANGED <<now, row, current, grant, until, tries, mishaps, calls, faults>>

\* The holder starts from the row as it is now ...
ReloadClaimed(c) ==
    /\ pc[c] = "claimed" /\ Live
    /\ Load(c)
    /\ Goto(c, IF needs_refresh(expires) THEN "refresh" ELSE "release")
    /\ UNCHANGED <<now, row, current, grant, until, tries, mishaps, calls, faults>>

\* ... or, if it cannot be read or is gone, from what it read before.
ReloadClaimedFails(c) ==
    /\ pc[c] = "claimed"
    /\ IF Live THEN Fault ELSE UNCHANGED faults
    /\ Goto(c, IF needs_refresh(credExpires[c]) THEN "refresh" ELSE "release")
    /\ mishaps' = mishaps \cup {"reloadFailed"}
    /\ UNCHANGED <<now, row, current, grant, cred, until, tries, calls>>

\* The provider answers a refresh with its newest token, and rotates it or not.
Answered(c) ==
    /\ pc[c] = "refresh" /\ credToken[c] = current
    /\ \E n \in {current, current + 1}, life \in Lifetimes :
          /\ current' = n
          /\ credToken' = [credToken EXCEPT ![c] = n]
          /\ credExpires' = [credExpires EXCEPT ![c] = now + life]
    /\ Goto(c, "answered")
    /\ UNCHANGED <<now, row, grant, until, tries, mishaps, calls, faults>>

\* A token that was rotated away is refused (and may end the grant).
Refused(c) ==
    /\ pc[c] = "refresh" /\ credToken[c] # current
    /\ grant' = "reused"
    /\ Goto(c, "release")
    /\ UNCHANGED <<now, row, current, cred, until, tries, mishaps, calls, faults>>

\* The request fails before it reaches the provider, or its answer is lost.
RequestFails(c) ==
    /\ pc[c] = "refresh"
    /\ Fault
    /\ Goto(c, "release")
    /\ \/ UNCHANGED <<current, mishaps>>
       \/ /\ credToken[c] = current
          /\ current' = current + 1
          /\ mishaps' = mishaps \cup {"answerLost"}
    /\ UNCHANGED <<now, row, grant, cred, until, tries, calls>>

\* Mutant: the refreshed credential keeps the old refresh token.
StoreOldToken(c) ==
    /\ pc[c] = "answered"
    /\ IF Live
       THEN expires' = credExpires[c] /\ lease' = 0
       ELSE UNCHANGED <<expires, lease>>
    /\ Goto(c, "idle")
    /\ UNCHANGED <<now, status, token, current, grant, cred, until, tries, mishaps, calls, faults>>

\* store_refreshed_connection: credential and lease in one UPDATE, which
\* succeeds on a deleted row too.
Store(c) ==
    /\ pc[c] = "answered"
    /\ IF Live
       THEN token' = credToken[c] /\ expires' = credExpires[c] /\ lease' = 0
       ELSE UNCHANGED <<token, expires, lease>>
    /\ Goto(c, "idle")
    /\ UNCHANGED <<now, status, current, grant, cred, until, tries, mishaps, calls, faults>>

\* release_refresh_lease: whoever holds the lease by now loses it.
Release(c) ==
    /\ pc[c] = "release"
    /\ lease' = IF Live THEN 0 ELSE lease
    /\ Goto(c, "idle")
    /\ UNCHANGED <<now, status, token, expires, current, grant, cred, until, tries, mishaps, calls, faults>>

\* The call ends where it is: its database operation fails, its request is
\* dropped, its process dies.  A claimed lease stays.
Abort(c) ==
    /\ pc[c] # "idle"
    /\ Fault
    /\ Goto(c, "idle")
    /\ mishaps' = IF pc[c] = "answered" THEN mishaps \cup {"answerLost"} ELSE mishaps
    /\ UNCHANGED <<now, row, current, grant, cred, until, tries, calls>>

\* delete_connection, by the owner or the idle sweep.
Delete ==
    /\ Live
    /\ status' = "deleted"
    /\ UNCHANGED <<now, token, expires, lease, current, grant, pc, cred, until, tries, mishaps, calls, faults>>

Tick ==
    /\ now < MaxTime
    /\ now' = now + 1
    /\ mishaps' = IF \E c \in Callers : Holds(c) /\ until[c] <= now'
                  THEN mishaps \cup {"leaseOverrun"} ELSE mishaps
    /\ UNCHANGED <<row, current, grant, pc, cred, until, tries, calls, faults>>

Step(c) ==
    \/ Fresh(c) \/ Claim(c) \/ Busy(c) \/ Reload(c) \/ ReloadClaimed(c) \/ ReloadClaimedFails(c)
    \/ Answered(c) \/ Refused(c) \/ RequestFails(c) \/ Store(c) \/ Release(c)

Next ==
    \/ \E c \in Callers : Call(c) \/ Step(c) \/ Abort(c)
    \/ Delete \/ Tick

Spec == Init /\ [][Next]_vars

\* Requests time out and the database answers; time need not pass.
LiveSpec == Spec /\ \A c \in Callers : WF_vars(Step(c))

-----------------------------------------------------------------------------
(* Properties. *)

\* "At most one caller holds it at a time, across processes": two calls are
\* between claim and release only if one outlived its lease.
OneRefresher ==
    "leaseOverrun" \notin mishaps =>
        \A c, d \in Callers : Holds(c) /\ Holds(d) => c = d

\* "... instead of spending the refresh token again": the provider sees a
\* token a second time only after an answer was lost with its caller, a holder
\* outlived its lease, or a holder could not read the row it had claimed.
TokenSpentOnce == mishaps = {} => grant = "valid"

\* The row holds the token the provider will accept, except while a holder
\* has the new one in hand: waiting calls that read the row get a good one.
StoredIsCurrent ==
    mishaps = {} /\ Live /\ (\A c \in Callers : pc[c] # "answered") => token = current

\* Every call returns, also when the holder died with its lease and time does
\* not help.
CallsReturn == \A c \in Callers : []<>(pc[c] = "idle")

-----------------------------------------------------------------------------
(* The invariant the proofs use. *)

\* Without an overrun the row's lease is the holder's, and is not over.
LeaseHeld ==
    "leaseOverrun" \notin mishaps =>
        \A c \in Callers : Holds(c) => lease = until[c] /\ until[c] > now

\* Without a mishap a holder shows the provider its newest token.
HolderCurrent ==
    mishaps = {} => \A c \in Callers : pc[c] \in {"refresh", "answered"} => credToken[c] = current

TriesLeft == \A c \in Callers : pc[c] = "check" => tries[c] < Attempts

RefreshInv ==
    /\ TypeOK /\ OneRefresher /\ TokenSpentOnce /\ StoredIsCurrent
    /\ LeaseHeld /\ HolderCurrent /\ TriesLeft

=============================================================================
