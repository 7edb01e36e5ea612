------------------------ MODULE BackgroundSyncProofs ------------------------
(***************************************************************************)
(* Proofs about BackgroundSync for any number of contexts, any interval    *)
(* and backoff, and any bounds on time, manual calls and faults.           *)
(***************************************************************************)
EXTENDS BackgroundSync, TLAPS

\* Which calls reach which steps.
CallShape ==
    \A c \in Contexts :
        /\ pc[c] \in {"idle", "ticked"} => op[c] = "tick"
        /\ pc[c] = "resuming" => op[c] = "resume"
        /\ pc[c] \in {"attempt", "decide", "running"} => op[c] \in {"tick", "syncNow"}

\* A pass that runs was let in by the state that is still stored.
PassAllowed ==
    \A c \in Contexts : InPass(c) => ~Paused(state)

\* The outcome about to be written is one a pass from the stored state can
\* have, at a time that is not in the future.
OutcomeFresh ==
    \A c \in Contexts :
        pc[c] = "writing" /\ op[c] # "resume" =>
            /\ \E t \in 0..now : next[c] \in PassResults(state, t)
            /\ next[c].lastSuccessAt >= state.lastSuccessAt
            /\ next[c].lastSuccessAt <= now

SuccessInPast == state.lastSuccessAt <= now

IndInv ==
    /\ TypeOK
    /\ OneLeaseholder
    /\ CallShape
    /\ NoLostUpdate
    /\ PassAllowed
    /\ OutcomeFresh
    /\ SuccessInPast

-----------------------------------------------------------------------------
(* Facts about the stored record. *)

\* The record of an unused name, of a success and of a resume is well formed.
LEMMA FreshType == Fresh \in SyncStates
BY DEF Fresh, SyncStates

\* The backoff of any failure count is a number of ticks within the cap.
LEMMA BackoffType == ASSUME NEW f PROVE Backoff(f) \in Nat
BY MaxBackoffAssumption DEF Backoff

\* Every outcome of a pass is a well-formed record.
LEMMA PassResultsType ==
    ASSUME NEW s \in SyncStates, NEW t \in Nat
    PROVE  PassResults(s, t) \subseteq SyncStates
<1>1. AfterSuccess(t) \in SyncStates
  BY IntervalAssumption DEF AfterSuccess, SyncStates
<1>2. AfterTransient(s, t) \in SyncStates
  BY BackoffType DEF AfterTransient, SyncStates
<1>3. ASSUME NEW m \in Messages PROVE AfterPermanent(s, m) \in SyncStates
  BY DEF AfterPermanent, SyncStates
<1> QED BY <1>1, <1>2, <1>3 DEF PassResults

\* resume() keeps the record well formed, keeps the last success and ends the
\* pause.
LEMMA ResumedFacts ==
    ASSUME NEW s \in SyncStates
    PROVE  /\ Resumed(s) \in SyncStates
           /\ Resumed(s).lastSuccessAt = s.lastSuccessAt
BY DEF Resumed, SyncStates

\* No outcome of a pass moves the last success back or into the future.
LEMMA PassResultsSuccess ==
    ASSUME NEW s \in SyncStates, NEW t \in Nat, s.lastSuccessAt <= t,
           NEW r \in PassResults(s, t)
    PROVE  r.lastSuccessAt >= s.lastSuccessAt /\ r.lastSuccessAt <= t
BY DEF PassResults, AfterSuccess, AfterTransient, AfterPermanent, SyncStates, NoTime

-----------------------------------------------------------------------------
(* The inductive invariant. *)

\* A scheduler that was never used satisfies it.
LEMMA InitInv == Init => IndInv
BY FreshType, BoundsAssumption
   DEF Init, IndInv, TypeOK, OneLeaseholder, CallShape, NoLostUpdate, PassAllowed,
       OutcomeFresh, SuccessInPast, InPass, Leased, Steps, Manual, Fresh, NoTime

\* Every step of every context preserves it.
LEMMA StepInv == IndInv /\ [Next]_vars => IndInv'
<1> SUFFICES ASSUME IndInv, [Next]_vars PROVE IndInv'
  OBVIOUS
<1> USE DEF IndInv
<1>1. CASE UNCHANGED vars
  BY <1>1 DEF vars, TypeOK, OneLeaseholder, CallShape, NoLostUpdate, PassAllowed,
              OutcomeFresh, SuccessInPast, InPass
<1>2. CASE Tock
  BY <1>2, BoundsAssumption
     DEF Tock, local, TypeOK, OneLeaseholder, CallShape, NoLostUpdate, PassAllowed,
         OutcomeFresh, SuccessInPast, InPass, SyncStates, NoTime
<1>3. ASSUME NEW c \in Contexts,
             \/ Tick(c) \/ Start(c) \/ Stop(c) \/ Request(c) \/ Acquire(c)
             \/ Progress(c) \/ StoreFails(c) \/ Crash(c)
      PROVE  IndInv'
  <2>1. CASE Tick(c)
    BY <2>1
       DEF Tick, Goto, shared, TypeOK, OneLeaseholder, CallShape, NoLostUpdate,
           PassAllowed, OutcomeFresh, SuccessInPast, InPass, Leased, Steps, Manual
  <2>2. CASE Start(c)
    BY <2>2
       DEF Start, Goto, shared, TypeOK, OneLeaseholder, CallShape, NoLostUpdate,
           PassAllowed, OutcomeFresh, SuccessInPast, InPass, Leased, Steps, Manual
  <2>3. CASE Stop(c)
    BY <2>3
       DEF Stop, shared, local, TypeOK, OneLeaseholder, CallShape, NoLostUpdate,
           PassAllowed, OutcomeFresh, SuccessInPast, InPass, Leased, Steps, Manual
  <2>4. CASE Request(c)
    BY <2>4, BoundsAssumption
       DEF Request, Goto, shared, TypeOK, OneLeaseholder, CallShape, NoLostUpdate,
           PassAllowed, OutcomeFresh, SuccessInPast, InPass, Leased, Steps, Manual
  <2>5. CASE Acquire(c)
    BY <2>5, NobodyAssumption
       DEF Acquire, Goto, TypeOK, OneLeaseholder, CallShape, NoLostUpdate,
           PassAllowed, OutcomeFresh, SuccessInPast, InPass, Leased, Steps, Manual
  <2>6. CASE TickSkip(c)
    BY <2>6, FreshType
       DEF TickSkip, Return, shared, TypeOK, OneLeaseholder, CallShape, NoLostUpdate,
           PassAllowed, OutcomeFresh, SuccessInPast, InPass, Leased, Steps, Manual
  <2>7. CASE TickBusy(c)
    BY <2>7, FreshType
       DEF TickBusy, Return, shared, TypeOK, OneLeaseholder, CallShape, NoLostUpdate,
           PassAllowed, OutcomeFresh, SuccessInPast, InPass, Leased, Steps, Manual
  <2>8. CASE TickAcquire(c)
    BY <2>8, NobodyAssumption
       DEF TickAcquire, Goto, TypeOK, OneLeaseholder, CallShape, NoLostUpdate,
           PassAllowed, OutcomeFresh, SuccessInPast, InPass, Leased, Steps, Manual
  <2>9. CASE AttemptRead(c)
    BY <2>9
       DEF AttemptRead, Goto, shared, TypeOK, OneLeaseholder, CallShape, NoLostUpdate,
           PassAllowed, OutcomeFresh, SuccessInPast, InPass, Leased, Steps, Manual
  <2>10. CASE AttemptRefuse(c)
    BY <2>10
       DEF AttemptRefuse, Goto, shared, TypeOK, OneLeaseholder, CallShape, NoLostUpdate,
           PassAllowed, OutcomeFresh, SuccessInPast, InPass, Leased, Steps, Manual
  <2>11. CASE RunStart(c)
    BY <2>11
       DEF RunStart, Goto, shared, Refused, TypeOK, OneLeaseholder, CallShape, NoLostUpdate,
           PassAllowed, OutcomeFresh, SuccessInPast, InPass, Leased, Steps, Manual
  <2>12. CASE RunEnd(c)
    BY <2>12, PassResultsType, PassResultsSuccess
       DEF RunEnd, Goto, shared, TypeOK, OneLeaseholder, CallShape, NoLostUpdate,
           PassAllowed, OutcomeFresh, SuccessInPast, InPass, Leased, Steps, Manual
  <2>13. CASE ResumeRead(c)
    BY <2>13, ResumedFacts
       DEF ResumeRead, Goto, shared, TypeOK, OneLeaseholder, CallShape, NoLostUpdate,
           PassAllowed, OutcomeFresh, SuccessInPast, InPass, Leased, Steps, Manual
  <2>14. CASE Write(c)
    BY <2>14, ResumedFacts
       DEF Write, Goto, TypeOK, OneLeaseholder, CallShape, NoLostUpdate,
           PassAllowed, OutcomeFresh, SuccessInPast, InPass, Leased, Steps, Manual
  <2>15. CASE UseEnd(c)
    BY <2>15
       DEF UseEnd, Goto, shared, TypeOK, OneLeaseholder, CallShape, NoLostUpdate,
           PassAllowed, OutcomeFresh, SuccessInPast, InPass, Leased, Steps, Manual
  <2>16. CASE Release(c)
    BY <2>16, FreshType
       DEF Release, Return, TypeOK, OneLeaseholder, CallShape, NoLostUpdate,
           PassAllowed, OutcomeFresh, SuccessInPast, InPass, Leased, Steps, Manual
  <2>17. CASE StoreFails(c)
    BY <2>17, BoundsAssumption
       DEF StoreFails, Goto, shared, TypeOK, OneLeaseholder, CallShape, NoLostUpdate,
           PassAllowed, OutcomeFresh, SuccessInPast, InPass, Leased, Steps, Manual
  <2>18. CASE Crash(c)
    BY <2>18, BoundsAssumption, FreshType, NobodyAssumption
       DEF Crash, Return, TypeOK, OneLeaseholder, CallShape, NoLostUpdate,
           PassAllowed, OutcomeFresh, SuccessInPast, InPass, Leased, Steps, Manual
  <2> QED BY <1>3, <2>1, <2>2, <2>3, <2>4, <2>5, <2>6, <2>7, <2>8, <2>9, <2>10, <2>11, <2>12, <2>13, <2>14, <2>15, <2>16, <2>17, <2>18 DEF Progress
<1> QED BY <1>1, <1>2, <1>3 DEF Next

\* The invariant holds in every reachable state of the scheduler.
THEOREM Invariance == Spec => []IndInv
BY InitInv, StepInv, PTL DEF Spec

\* Types and exclusion, for any set of contexts: at most one context is
\* between the grant and the release of the lease.
THEOREM LeaseSafety == Spec => [](TypeOK /\ OneLeaseholder)
<1>1. IndInv => TypeOK /\ OneLeaseholder
  BY DEF IndInv
<1> QED BY <1>1, Invariance, PTL

\* What the context inside the lease read there is still what the store
\* holds, so what it writes back undoes nobody's write.
THEOREM NoStaleWrite == Spec => []NoLostUpdate
<1>1. IndInv => NoLostUpdate
  BY DEF IndInv
<1> QED BY <1>1, Invariance, PTL

-----------------------------------------------------------------------------
(* Action properties. *)

\* The stored state only changes when the leaseholder writes.
LEMMA StateChange ==
    ASSUME [Next]_vars, state' # state
    PROVE  \E c \in Contexts : Write(c)
BY DEF Next, vars, Tock, Tick, Start, Stop, Request, Acquire, Progress, TickSkip,
       TickBusy, TickAcquire, AttemptRead, AttemptRefuse, RunStart, RunEnd,
       ResumeRead, UseEnd, Release, StoreFails, Crash, shared, local

\* A context enters "running" only by deciding to.
LEMMA PassStart ==
    ASSUME IndInv, [Next]_vars, NEW c \in Contexts,
           pc[c] # "running", pc'[c] = "running"
    PROVE  RunStart(c)
<1> USE DEF IndInv, TypeOK
<1>1. CASE UNCHANGED vars
  BY <1>1 DEF vars
<1>2. CASE Tock
  BY <1>2 DEF Tock, local
<1>3. ASSUME NEW d \in Contexts,
             \/ Tick(d) \/ Start(d) \/ Stop(d) \/ Request(d) \/ Acquire(d)
             \/ Progress(d) \/ StoreFails(d) \/ Crash(d)
      PROVE  RunStart(c)
  BY <1>3 DEF Tick, Start, Stop, Request, Acquire, Progress, TickSkip,
       TickBusy, TickAcquire, AttemptRead, AttemptRefuse, RunStart, RunEnd,
       ResumeRead, Write, UseEnd, Release, StoreFails, Crash, Goto, Return, local
<1> QED BY <1>1, <1>2, <1>3 DEF Next

\* Only a resume() ends a pause, whatever the other contexts do meanwhile.
THEOREM PauseSticks == Spec => OnlyResumeClearsPause
<1>1. IndInv /\ [Next]_vars =>
          (Paused(state) /\ ~Paused(state') =>
             \E c \in Contexts : pc[c] = "writing" /\ op[c] = "resume")
  <2> SUFFICES ASSUME IndInv, [Next]_vars, Paused(state), ~Paused(state')
               PROVE  \E c \in Contexts : pc[c] = "writing" /\ op[c] = "resume"
    OBVIOUS
  <2>1. state' # state
    OBVIOUS
  <2>2. PICK c \in Contexts : Write(c)
    BY <2>1, StateChange
  <2>3. ~InPass(c)
    BY DEF IndInv, PassAllowed
  <2> QED BY <2>2, <2>3 DEF Write, InPass
<1> QED BY <1>1, Invariance, PTL DEF Spec, OnlyResumeClearsPause

\* No pass starts while the stored schedule is paused, and one that a tick
\* starts is due by the stored schedule: stale reads never decide.
THEOREM PassesAllowed == Spec => RunsOnlyWhenAllowed
<1>1. IndInv /\ [Next]_vars =>
          \A c \in Contexts :
             pc[c] # "running" /\ pc'[c] = "running" =>
                 ~Paused(state) /\ (op[c] = "tick" => Due(state, now))
  <2> SUFFICES ASSUME IndInv, [Next]_vars, NEW c \in Contexts,
                      pc[c] # "running", pc'[c] = "running"
               PROVE  ~Paused(state) /\ (op[c] = "tick" => Due(state, now))
    OBVIOUS
  <2>1. RunStart(c)
    BY PassStart
  <2>2. snap[c] = state
    BY <2>1 DEF RunStart, IndInv, NoLostUpdate
  <2> QED BY <2>1, <2>2 DEF RunStart, Refused
<1> QED BY <1>1, Invariance, PTL DEF Spec, RunsOnlyWhenAllowed

\* Where every error that needs a person has a text, a failure that needs a
\* person stops all passes until a resume().  (With an empty text it does not:
\* the stored pause is then falsy.)
THEOREM PermanentStops ==
    ASSUME "" \notin Messages
    PROVE  Spec => PermanentFailureStops
<1>1. IndInv /\ [Next]_vars =>
          \A c \in Contexts :
             pc[c] # "running" /\ pc'[c] = "running" => state.paused = NoPause
  <2> SUFFICES ASSUME IndInv, [Next]_vars, NEW c \in Contexts,
                      pc[c] # "running", pc'[c] = "running"
               PROVE  state.paused = NoPause
    OBVIOUS
  <2>1. RunStart(c) /\ snap[c] = state
    BY PassStart DEF RunStart, IndInv, NoLostUpdate
  <2>2. state.paused \in Messages \cup {NoPause}
    BY DEF IndInv, TypeOK, SyncStates
  <2> QED BY <2>1, <2>2 DEF RunStart, Refused, Paused
<1> QED BY <1>1, Invariance, PTL DEF Spec, PermanentFailureStops

\* The recorded last success is never lost nor moved back.
THEOREM SuccessKept == Spec => LastSuccessMonotone
<1>1. IndInv /\ [Next]_vars => state'.lastSuccessAt >= state.lastSuccessAt
  <2> SUFFICES ASSUME IndInv, [Next]_vars
               PROVE  state'.lastSuccessAt >= state.lastSuccessAt
    OBVIOUS
  <2>1. state.lastSuccessAt \in Int
    BY DEF IndInv, TypeOK, SyncStates, NoTime
  <2>2. CASE state' = state
    BY <2>1, <2>2
  <2>3. CASE state' # state
    <3>1. PICK c \in Contexts : Write(c)
      BY <2>3, StateChange
    <3>2. CASE op[c] = "resume"
      BY <2>1, <3>1, <3>2, ResumedFacts DEF Write, IndInv, NoLostUpdate, TypeOK
    <3>3. CASE op[c] # "resume"
      BY <3>1, <3>3 DEF Write, IndInv, OutcomeFresh
    <3> QED BY <3>2, <3>3
  <2> QED BY <2>2, <2>3
<1> QED BY <1>1, Invariance, PTL DEF Spec, LastSuccessMonotone

-----------------------------------------------------------------------------
(* Refinement: the leased, crashing scheduler implements the atomic one. *)

passingBar == \E c \in Contexts : InPass(c)

\* Only one context can be in a pass, so a pass of c that ends ends them all.
LEMMA OnePass ==
    ASSUME IndInv, NEW c \in Contexts, NEW d \in Contexts,
           pc[c] \in Leased, InPass(d)
    PROVE  c = d
BY DEF IndInv, OneLeaseholder, InPass, Leased

\* The functions of the record mean the same in both specifications.
LEMMA SameFunctions ==
    /\ Abstract!Fresh = Fresh
    /\ \A s : (Abstract!Paused(s) <=> Paused(s)) /\ Abstract!Resumed(s) = Resumed(s)
    /\ \A s, t : /\ Abstract!Due(s, t) <=> Due(s, t)
                 /\ Abstract!PassResults(s, t) = PassResults(s, t)
<1>1. Abstract!NoTime = NoTime /\ Abstract!NoPause = NoPause
  BY DEF Abstract!NoTime, NoTime, Abstract!NoPause, NoPause
<1>2. ASSUME NEW f PROVE Abstract!Backoff(f) = Backoff(f)
  BY DEF Abstract!Backoff, Backoff
<1>3. ASSUME NEW s, NEW t PROVE Abstract!PassResults(s, t) = PassResults(s, t)
  <2>1. Abstract!AfterSuccess(t) = AfterSuccess(t)
    BY <1>1 DEF Abstract!AfterSuccess, AfterSuccess
  <2>2. Abstract!AfterTransient(s, t) = AfterTransient(s, t)
    BY <1>1, <1>2 DEF Abstract!AfterTransient, AfterTransient
  <2>3. ASSUME NEW m PROVE Abstract!AfterPermanent(s, m) = AfterPermanent(s, m)
    BY <1>1 DEF Abstract!AfterPermanent, AfterPermanent
  <2> QED BY <2>1, <2>2, <2>3 DEF Abstract!PassResults, PassResults
<1>4. Abstract!Fresh = Fresh
  BY <1>1 DEF Abstract!Fresh, Fresh
<1>5. \A s : (Abstract!Paused(s) <=> Paused(s)) /\ Abstract!Resumed(s) = Resumed(s)
  BY <1>1 DEF Abstract!Paused, Paused, Abstract!Resumed, Resumed
<1>6. \A s, t : Abstract!Due(s, t) <=> Due(s, t)
  BY <1>1 DEF Abstract!Due, Due
<1> QED BY <1>3, <1>4, <1>5, <1>6

\* Every step of the scheduler is a step of the atomic schedule or changes
\* nothing of it.
LEMMA StepRefines ==
    ASSUME IndInv, IndInv', [Next]_vars
    PROVE  [Abstract!Next]_(Abstract!schedule)
<1> USE DEF IndInv, TypeOK
<1>1. CASE UNCHANGED vars
  BY <1>1 DEF vars, Abstract!schedule, InPass
<1>2. CASE Tock
  BY <1>2 DEF Tock, local, Abstract!Next, Abstract!Tock, InPass
<1>3. ASSUME NEW c \in Contexts,
             \/ Tick(c) \/ Start(c) \/ Stop(c) \/ Request(c) \/ Acquire(c)
             \/ TickSkip(c) \/ TickBusy(c) \/ TickAcquire(c)
             \/ AttemptRead(c) \/ AttemptRefuse(c) \/ ResumeRead(c)
             \/ UseEnd(c) \/ Release(c)
      PROVE  UNCHANGED Abstract!schedule
  <2>1. UNCHANGED <<now, state>>
    BY <1>3 DEF Tick, Start, Stop, Request, Acquire, TickSkip, TickBusy, TickAcquire,
       AttemptRead, AttemptRefuse, ResumeRead, UseEnd, Release, shared
  <2>2. ASSUME NEW d \in Contexts PROVE InPass(d)' <=> InPass(d)
    BY <1>3 DEF Tick, Start, Stop, Request, Acquire, TickSkip, TickBusy, TickAcquire,
       AttemptRead, AttemptRefuse, ResumeRead, UseEnd, Release, Return, Goto, local,
       InPass, CallShape
  <2> QED BY <2>1, <2>2 DEF Abstract!schedule
<1>4. ASSUME NEW c \in Contexts, RunStart(c) PROVE \E f \in BOOLEAN : Abstract!Begin(f)
  <2>1. ~passingBar
    BY <1>4, OnePass DEF RunStart, Leased, InPass, passingBar
  <2>2. passingBar'
    BY <1>4 DEF RunStart, Goto, InPass, passingBar
  <2>3. snap[c] = state /\ ~Paused(state) /\ (op[c] = "tick" => Due(state, now))
    BY <1>4 DEF RunStart, NoLostUpdate, Refused
  <2>4. Abstract!Begin(op[c] # "tick")
    BY <1>4, <2>1, <2>2, <2>3, SameFunctions DEF RunStart, shared, Abstract!Begin, passingBar
  <2> QED BY <2>4
<1>5. ASSUME NEW c \in Contexts, RunEnd(c) PROVE UNCHANGED Abstract!schedule
  <2>1. InPass(c) /\ InPass(c)'
    BY <1>5 DEF RunEnd, Goto, InPass, CallShape
  <2> QED BY <1>5, <2>1 DEF RunEnd, shared, Abstract!schedule
<1>6. ASSUME NEW c \in Contexts, Write(c) PROVE Abstract!Finish \/ Abstract!Resume
  <2>1. ASSUME NEW d \in Contexts PROVE ~InPass(d)'
    BY <1>6, OnePass DEF Write, Goto, InPass, Leased
  <2>2. CASE op[c] = "resume"
    <3>1. ~passingBar
      BY <1>6, <2>2, OnePass DEF Write, InPass, Leased, passingBar
    <3>2. state' = Resumed(state)
      BY <1>6, <2>2 DEF Write, NoLostUpdate
    <3> QED BY <1>6, <2>1, <3>1, <3>2, SameFunctions DEF Write, Abstract!Resume, passingBar
  <2>3. CASE op[c] # "resume"
    <3>1. InPass(c)
      BY <1>6, <2>3 DEF Write, InPass
    <3>2. \E t \in 0..now : state' \in PassResults(state, t)
      BY <1>6, <2>3 DEF Write, OutcomeFresh
    <3> QED BY <1>6, <2>1, <3>1, <3>2, SameFunctions DEF Write, Abstract!Finish
  <2> QED BY <2>2, <2>3
<1>7. ASSUME NEW c \in Contexts, StoreFails(c) \/ Crash(c)
      PROVE  Abstract!Abandon \/ UNCHANGED Abstract!schedule
  <2>1. UNCHANGED <<now, state>>
    BY <1>7 DEF StoreFails, Crash, shared
  <2>2. ASSUME NEW d \in Contexts, d # c PROVE InPass(d)' <=> InPass(d)
    BY <1>7, <2>2 DEF StoreFails, Crash, Goto, Return, InPass
  <2>3. ~InPass(c)'
    BY <1>7 DEF StoreFails, Crash, Goto, Return, InPass
  <2>4. CASE InPass(c)
    <3>1. ASSUME NEW d \in Contexts PROVE ~InPass(d)'
      BY <2>2, <2>3, <2>4, OnePass DEF InPass, Leased
    <3> QED BY <2>1, <2>4, <3>1 DEF Abstract!Abandon
  <2>5. CASE ~InPass(c)
    BY <2>1, <2>2, <2>3, <2>5 DEF Abstract!schedule
  <2> QED BY <2>4, <2>5
<1> QED BY <1>1, <1>2, <1>3, <1>4, <1>5, <1>6, <1>7 DEF Next, Progress, Abstract!Next

\* BackgroundSync implements SyncSchedule: to its host, passes, pauses and
\* resumes of all contexts are one sequence of atomic steps.
THEOREM Refinement == Spec => ImplementsSchedule
<1>1. Init => Abstract!Init
  BY SameFunctions DEF Init, Abstract!Init, InPass
<1>2. IndInv /\ IndInv' /\ [Next]_vars => [Abstract!Next]_(Abstract!schedule)
  BY StepRefines
<1> QED BY <1>1, <1>2, Invariance, PTL DEF Spec, ImplementsSchedule, Abstract!Spec

=============================================================================
