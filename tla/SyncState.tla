------------------------------ MODULE SyncState ------------------------------
(***************************************************************************)
(* The record BackgroundSync persists for one connection                   *)
(* (devonian/src/background/BackgroundSync.ts) and the pure functions of   *)
(* it: when a pass is due, when the schedule is paused, and what a pass or *)
(* a resume() writes back.  lastAttemptAt and lastError are reported to a  *)
(* person and never read by the scheduler; they are left out.              *)
(***************************************************************************)
EXTENDS Integers

CONSTANTS
    Interval,     \* intervalMs, in clock ticks
    MaxBackoff,   \* maxBackoffMs, in clock ticks
    Messages      \* the texts a failing pass's error may carry

\* The constructor refuses an interval that is not a positive integer;
\* maxBackoffMs is not validated.
ASSUME IntervalAssumption == Interval \in Nat \ {0}
ASSUME MaxBackoffAssumption == MaxBackoff \in Nat
\* An optional property that is absent from the stored JSON object.
NoTime == -1
NoPause == "(absent)"
ASSUME MessagesAssumption == NoPause \notin Messages

SyncStates == [failures      : Nat,
               nextDueAt     : Nat \cup {NoTime},
               lastSuccessAt : Nat \cup {NoTime},
               paused        : Messages \cup {NoPause}]

\* status() of a name nothing was stored under.
Fresh == [failures |-> 0, nextDueAt |-> NoTime,
          lastSuccessAt |-> NoTime, paused |-> NoPause]

Due(s, t) == s.nextDueAt = NoTime \/ t >= s.nextDueAt

\* `if (state.paused)`: the empty string is not a pause to JavaScript.
Paused(s) == s.paused \notin {NoPause, ""}

\* Math.min(intervalMs * 2 ** (failures - 1), maxBackoffMs)
Backoff(failures) ==
    LET wanted == Interval * 2^(failures - 1)
    IN  IF wanted \in 0..MaxBackoff THEN wanted ELSE MaxBackoff

AfterSuccess(t) ==
    [failures |-> 0, nextDueAt |-> t + Interval,
     lastSuccessAt |-> t, paused |-> NoPause]

\* A failure that needs a person: no due time, the message is the pause.
AfterPermanent(s, message) ==
    [failures |-> s.failures + 1, nextDueAt |-> NoTime,
     lastSuccessAt |-> s.lastSuccessAt, paused |-> message]

AfterTransient(s, t) ==
    [failures |-> s.failures + 1, nextDueAt |-> t + Backoff(s.failures + 1),
     lastSuccessAt |-> s.lastSuccessAt, paused |-> NoPause]

\* Everything one pass that read s may want to write at time t.
PassResults(s, t) ==
    {AfterSuccess(t), AfterTransient(s, t)}
        \cup {AfterPermanent(s, m) : m \in Messages}

Resumed(s) ==
    [failures |-> 0, nextDueAt |-> NoTime,
     lastSuccessAt |-> s.lastSuccessAt, paused |-> NoPause]

=============================================================================
