--------------------------- MODULE BackgroundSync ---------------------------
(***************************************************************************)
(* The persisted, cross-context background sync scheduler of               *)
(* devonian/src/background: several contexts (tabs, a service worker, a    *)
(* cron) share one stored schedule and one lease.  Every await of the code *)
(* is a point where the other contexts may run, so each call is a sequence *)
(* of steps: the read of the store, the decision, the lease, the pass, the *)
(* write.  A context runs at most one call at a time; several overlapping  *)
(* calls of one context behave as several contexts.                        *)
(***************************************************************************)
EXTENDS SyncState

CONSTANTS
    Contexts,    \* tabs, service workers, processes
    Nobody,      \* no context: the lease is free
    MaxTime,     \* bound: last value of the clock
    MaxManual,   \* bound: calls of syncNow, resume and withLock
    MaxFaults    \* bound: crashes and failing store calls

ASSUME BoundsAssumption ==
    MaxTime \in Nat /\ MaxManual \in Nat /\ MaxFaults \in Nat
ASSUME NobodyAssumption == Nobody \notin Contexts

VARIABLES
    now,      \* the clock all contexts share
    state,    \* what the store holds under the scheduler's name
    lease,    \* the context that holds the lock, or Nobody
    pc,       \* where each context's call is
    op,       \* which call it is
    snap,     \* the state that call read last
    next,     \* the state that call is about to write
    timer,    \* start() was called, stop() was not
    manual,   \* manual calls made so far
    faults    \* faults so far

shared == <<now, state, lease>>
local  == <<pc, op, snap, next>>
vars   == <<now, state, lease, pc, op, snap, next, timer, manual, faults>>

Manual == {"syncNow", "resume", "withLock"}
\* The steps of a call between the grant of the lease and its release.
Leased == {"attempt", "decide", "running", "resuming", "writing", "using", "release"}
Steps  == {"idle", "ticked", "waiting"} \cup Leased

TypeOK ==
    /\ now \in Nat
    /\ state \in SyncStates
    /\ lease \in Contexts \cup {Nobody}
    /\ pc \in [Contexts -> Steps]
    /\ op \in [Contexts -> Manual \cup {"tick"}]
    /\ snap \in [Contexts -> SyncStates]
    /\ next \in [Contexts -> SyncStates]
    /\ timer \in [Contexts -> BOOLEAN]
    /\ manual \in 0..MaxManual
    /\ faults \in 0..MaxFaults

Init ==
    /\ now = 0
    /\ state = Fresh
    /\ lease = Nobody
    /\ pc = [c \in Contexts |-> "idle"]
    /\ op = [c \in Contexts |-> "tick"]
    /\ snap = [c \in Contexts |-> Fresh]
    /\ next = [c \in Contexts |-> Fresh]
    /\ timer = [c \in Contexts |-> FALSE]
    /\ manual = 0
    /\ faults = 0

\* The call ends: its locals are gone.
Return(c) ==
    /\ pc' = [pc EXCEPT ![c] = "idle"]
    /\ op' = [op EXCEPT ![c] = "tick"]
    /\ snap' = [snap EXCEPT ![c] = Fresh]
    /\ next' = [next EXCEPT ![c] = Fresh]

Goto(c, step) == pc' = [pc EXCEPT ![c] = step]

-----------------------------------------------------------------------------
(* tick(), called by a timer, a service worker event or a cron. *)

\* const before = await this.status()
Tick(c) ==
    /\ pc[c] = "idle"
    /\ Goto(c, "ticked")
    /\ snap' = [snap EXCEPT ![c] = state]
    /\ UNCHANGED <<shared, op, next, timer, manual, faults>>

\* start(): the first check runs at once, the timer repeats it.
Start(c) ==
    /\ ~timer[c]
    /\ pc[c] = "idle"
    /\ timer' = [timer EXCEPT ![c] = TRUE]
    /\ Goto(c, "ticked")
    /\ snap' = [snap EXCEPT ![c] = state]
    /\ UNCHANGED <<shared, op, next, manual, faults>>

Stop(c) ==
    /\ timer[c]
    /\ timer' = [timer EXCEPT ![c] = FALSE]
    /\ UNCHANGED <<shared, local, manual, faults>>

\* The read before the lease says paused or not due.
TickSkip(c) ==
    /\ pc[c] = "ticked"
    /\ Paused(snap[c]) \/ ~Due(snap[c], now)
    /\ Return(c)
    /\ UNCHANGED <<shared, timer, manual, faults>>

\* tryWith finds the lease taken: the tick never queues.
TickBusy(c) ==
    /\ pc[c] = "ticked"
    /\ ~Paused(snap[c]) /\ Due(snap[c], now)
    /\ lease # Nobody
    /\ Return(c)
    /\ UNCHANGED <<shared, timer, manual, faults>>

\* Mutant: tryWith that does not look whether the lease is free.
TickAcquireTaken(c) ==
    /\ pc[c] = "ticked"
    /\ ~Paused(snap[c]) /\ Due(snap[c], now)
    /\ lease' = c
    /\ Goto(c, "attempt")
    /\ UNCHANGED <<now, state, op, snap, next, timer, manual, faults>>

TickAcquire(c) ==
    /\ pc[c] = "ticked"
    /\ ~Paused(snap[c]) /\ Due(snap[c], now)
    /\ lease = Nobody
    /\ lease' = c
    /\ Goto(c, "attempt")
    /\ UNCHANGED <<now, state, op, snap, next, timer, manual, faults>>

-----------------------------------------------------------------------------
(* syncNow(), resume() and withLock(): calls that wait for the lease. *)

Request(c) ==
    /\ pc[c] = "idle"
    /\ manual < MaxManual
    /\ manual' = manual + 1
    /\ \E o \in Manual : op' = [op EXCEPT ![c] = o]
    /\ Goto(c, "waiting")
    /\ UNCHANGED <<shared, snap, next, timer, faults>>

\* Mutant: a resume that goes ahead without waiting for the lease.
AcquireAnyway(c) ==
    /\ pc[c] = "waiting"
    /\ lease = Nobody \/ op[c] = "resume"
    /\ lease' = c
    /\ Goto(c, CASE op[c] = "syncNow" -> "attempt"
                 [] op[c] = "resume" -> "resuming"
                 [] OTHER -> "using")
    /\ UNCHANGED <<now, state, op, snap, next, timer, manual, faults>>

Acquire(c) ==
    /\ pc[c] = "waiting"
    /\ lease = Nobody
    /\ lease' = c
    /\ Goto(c, CASE op[c] = "syncNow" -> "attempt"
                 [] op[c] = "resume" -> "resuming"
                 [] OTHER -> "using")
    /\ UNCHANGED <<now, state, op, snap, next, timer, manual, faults>>

-----------------------------------------------------------------------------
(* attempt(force), under the lease. *)

\* Mutant: attempt trusts what tick() read before it had the lease.
AttemptReadNothing(c) ==
    /\ pc[c] = "attempt"
    /\ Goto(c, "decide")
    /\ UNCHANGED <<shared, op, snap, next, timer, manual, faults>>

\* const state = await this.status(), again
AttemptRead(c) ==
    /\ pc[c] = "attempt"
    /\ Goto(c, "decide")
    /\ snap' = [snap EXCEPT ![c] = state]
    /\ UNCHANGED <<shared, op, next, timer, manual, faults>>

\* Paused, or an unforced attempt that is no longer due.
Refused(c) == Paused(snap[c]) \/ (op[c] = "tick" /\ ~Due(snap[c], now))

AttemptRefuse(c) ==
    /\ pc[c] = "decide"
    /\ Refused(c)
    /\ Goto(c, "release")
    /\ UNCHANGED <<shared, op, snap, next, timer, manual, faults>>

RunStart(c) ==
    /\ pc[c] = "decide"
    /\ ~Refused(c)
    /\ Goto(c, "running")
    /\ UNCHANGED <<shared, op, snap, next, timer, manual, faults>>

\* run() settles: the record to write is built from the state read above.
RunEnd(c) ==
    /\ pc[c] = "running"
    /\ \E s \in PassResults(snap[c], now) : next' = [next EXCEPT ![c] = s]
    /\ Goto(c, "writing")
    /\ UNCHANGED <<shared, op, snap, timer, manual, faults>>

\* The body of resume(): read, drop the pause and the due time.
ResumeRead(c) ==
    /\ pc[c] = "resuming"
    /\ next' = [next EXCEPT ![c] = Resumed(state)]
    /\ Goto(c, "writing")
    /\ UNCHANGED <<shared, op, snap, timer, manual, faults>>

Write(c) ==
    /\ pc[c] = "writing"
    /\ state' = next[c]
    /\ Goto(c, "release")
    /\ UNCHANGED <<now, lease, op, snap, next, timer, manual, faults>>

\* The host's own function under withLock() is done.
UseEnd(c) ==
    /\ pc[c] = "using"
    /\ Goto(c, "release")
    /\ UNCHANGED <<shared, op, snap, next, timer, manual, faults>>

\* The lock's callback settles, by a result or by a throw.
Release(c) ==
    /\ pc[c] = "release"
    /\ lease' = Nobody
    /\ Return(c)
    /\ UNCHANGED <<now, state, timer, manual, faults>>

-----------------------------------------------------------------------------
(* Faults and time. *)

\* status() or write() rejects: the call throws and the lease is released.
StoreFails(c) ==
    /\ pc[c] \in {"attempt", "resuming", "writing"}
    /\ faults < MaxFaults
    /\ faults' = faults + 1
    /\ Goto(c, "release")
    /\ UNCHANGED <<shared, op, snap, next, timer, manual>>

\* Mutant: a lease that outlives the context that held it.
CrashKeepsLease(c) ==
    /\ pc[c] # "idle"
    /\ faults < MaxFaults
    /\ faults' = faults + 1
    /\ Return(c)
    /\ timer' = [timer EXCEPT ![c] = FALSE]
    /\ UNCHANGED <<shared, manual>>

\* The tab closes or the worker is terminated in the middle of a call; the
\* browser releases its Web Lock.
Crash(c) ==
    /\ pc[c] # "idle"
    /\ faults < MaxFaults
    /\ faults' = faults + 1
    /\ Return(c)
    /\ timer' = [timer EXCEPT ![c] = FALSE]
    /\ lease' = IF lease = c THEN Nobody ELSE lease
    /\ UNCHANGED <<now, state, manual>>

Tock ==
    /\ now < MaxTime
    /\ now' = now + 1
    /\ UNCHANGED <<state, lease, local, timer, manual, faults>>

\* The steps a call takes by itself once it was made.
Progress(c) ==
    \/ TickSkip(c) \/ TickBusy(c) \/ TickAcquire(c)
    \/ AttemptRead(c) \/ AttemptRefuse(c) \/ RunStart(c) \/ RunEnd(c)
    \/ ResumeRead(c) \/ Write(c) \/ UseEnd(c) \/ Release(c)

Next ==
    \/ Tock
    \/ \E c \in Contexts :
          \/ Tick(c) \/ Start(c) \/ Stop(c) \/ Request(c) \/ Acquire(c)
          \/ Progress(c) \/ StoreFails(c) \/ Crash(c)

Spec == Init /\ [][Next]_vars

\* A started timer keeps firing, calls that can go on do, run() and the
\* host's functions settle, and a queued Web Lock request is granted in turn.
Fairness ==
    \A c \in Contexts :
        /\ WF_vars(timer[c] /\ Tick(c))
        /\ WF_vars(Progress(c))
        /\ SF_vars(Acquire(c))

LiveSpec == Spec /\ Fairness

-----------------------------------------------------------------------------
(* Properties. *)

\* Only one context at a time is inside the lease: two passes, a pass and a
\* resume, or a pass and a withLock() user never overlap, crashes included.
OneLeaseholder ==
    \A c \in Contexts : pc[c] \in Leased => lease = c

\* The state a pass was started from is still the stored one when its result
\* is about to be written: no context's outcome is overwritten by a write
\* built from an older read (the re-read inside the lease).
NoLostUpdate ==
    \A c \in Contexts :
        /\ pc[c] \in {"decide", "running"} => snap[c] = state
        /\ pc[c] = "writing" /\ op[c] = "resume" => next[c] = Resumed(state)

\* "Set when a failure needs a person; only resume clears it": no pass,
\* failure or crash of any context ends a pause.
OnlyResumeClearsPause ==
    [][Paused(state) /\ ~Paused(state') =>
          \E c \in Contexts : pc[c] = "writing" /\ op[c] = "resume"]_vars

\* A pass that a tick starts is due by the stored schedule at that moment,
\* and no pass of any kind starts while the stored schedule is paused: what
\* the context read before it had the lease is never what decides.
RunsOnlyWhenAllowed ==
    [][\A c \in Contexts :
          pc[c] # "running" /\ pc'[c] = "running" =>
              ~Paused(state) /\ (op[c] = "tick" => Due(state, now))]_vars

\* The stored time of the last success never goes back and is never lost,
\* whatever failures, resumes and crashes of other contexts follow it.
LastSuccessMonotone ==
    [][state'.lastSuccessAt >= state.lastSuccessAt]_vars

\* "Failures that need a person pause the schedule instead of backing off":
\* once a pass recorded such a failure no pass starts before a resume.
PermanentFailureStops ==
    [][\A c \in Contexts :
          pc[c] # "running" /\ pc'[c] = "running" => state.paused = NoPause]_vars

InPass(c) ==
    \/ pc[c] = "running"
    \/ pc[c] = "writing" /\ op[c] # "resume"

\* BackgroundSync implements the atomic schedule: leases, snapshots, crashes
\* and failing stores cannot be told from passes that happen one at a time.
Abstract == INSTANCE SyncSchedule WITH passing <- \E c \in Contexts : InPass(c)
ImplementsSchedule == Abstract!Spec

\* While some context keeps its timer, a schedule that is due and not paused
\* does not stay so for ever without a pass: a tick that found the lease
\* taken ("busy", never queued) is made up for.
DuePassHappens ==
    (\E c \in Contexts : <>[]timer[c]) =>
        []<>(Paused(state) \/ ~Due(state, now) \/ \E c \in Contexts : InPass(c))

=============================================================================
