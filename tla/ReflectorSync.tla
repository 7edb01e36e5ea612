---------------------------- MODULE ReflectorSync ----------------------------
(***************************************************************************)
(* The reflector's sync engine (reflector/src/sync/engine.ts) on top of    *)
(* the API client: every edit of a user is a write of the client and a     *)
(* change the engine tracks.  A watcher looks at the client's pending      *)
(* writes every 250 ms, marks a change synced when its write is gone, and  *)
(* rolls the local copy back when its write was given up.  It does not     *)
(* wait for the poll before, so two polls can overlap.                     *)
(*                                                                         *)
(* Change n tracks write n.  In the other settings users call the client   *)
(* themselves.                                                             *)
(***************************************************************************)
EXTENDS ApiClient

CONSTANTS
    Tracked,  \* the settings in which users edit through the engine
    Polls     \* slots for the pollChanges calls that can overlap

ASSUME TrackedAssumption == Tracked \subseteq Settings

VARIABLES
    changes,    \* the tracked changes, with their snapshots while there are any
    poll,       \* the pollChanges calls that await a rollback
    watcher,    \* the interval is set
    overlapped  \* two polls were under way at once

engine == <<changes, poll, watcher, overlapped>>
client == <<local, network, writes, confirmed, queues, attempts, call, sync, synced, losses, syncs>>
trackedVars == <<vars, engine>>

\* A poll rolls change undo back to value and has those of todo to go over.
NoPoll == [undo |-> 0, todo |-> {}, value |-> Absent]

ChangeSet == [state : {"syncing", "synced", "failed"}, before : {Absent} \cup Records,
              kept : BOOLEAN]
PollSet == {NoPoll} \cup [undo : DOMAIN changes, todo : SUBSET DOMAIN changes,
                         value : {Absent} \cup Records]
EngineTypeOK ==
    /\ TypeOK
    /\ changes \in Seq(ChangeSet)
    /\ Len(changes) = IF setting \in Tracked THEN Len(writes) ELSE 0
    /\ poll \in [Polls -> PollSet]
    /\ watcher \in BOOLEAN /\ overlapped \in BOOLEAN

EngineInit ==
    /\ Init
    /\ changes = <<>>
    /\ poll = [p \in Polls |-> NoPoll]
    /\ watcher = FALSE
    /\ overlapped = FALSE

-----------------------------------------------------------------------------
(* Edits. *)

\* track: the change is recorded with its snapshot and the watcher runs.
Track(before) ==
    /\ changes' = Append(changes, [state |-> "syncing", before |-> before, kept |-> TRUE])
    /\ watcher' = TRUE
    /\ UNCHANGED <<poll, overlapped>>

\* create() has no record to read; update() and remove() read it ...
EngineCreate(c) == Create(c) /\ UNCHANGED engine
Ask(c) ==
    /\ Calls(c)
    /\ \E i \in Ids, type \in {"update", "delete"} :
          Visible(i) /\ Called(c, "asked", type, i, {}, local[i])
    /\ UNCHANGED <<setting, local, network, writes, confirmed, queues, attempts, sync, synced,
                   losses, syncs, engine>>

\* ... and call the client, whose update() reads it again: a record that is gone
\* by then counts as one without fields.
EngineUpdateRead(c) ==
    LET i == call[c].id
    IN
    /\ call[c].pc = "asked" /\ call[c].type = "update"
    /\ call' = [call EXCEPT ![c] = [call[c] EXCEPT
                  !.pc = "read", !.data = IF local[i] = Absent THEN {} ELSE local[i]]]
    /\ UNCHANGED <<setting, local, network, writes, confirmed, queues, attempts, sync, synced,
                   losses, syncs, engine>>
EngineRemove(c) ==
    /\ call[c].pc = "asked" /\ call[c].type = "delete"
    /\ local' = [local EXCEPT ![call[c].id] = Absent]
    /\ call' = [call EXCEPT ![c] = [call[c] EXCEPT !.pc = "queue"]]
    /\ UNCHANGED <<setting, network, writes, confirmed, queues, attempts, sync, synced, losses,
                   syncs, engine>>
EngineUpdateStore(c) == UpdateStore(c) /\ UNCHANGED engine

\* The client's call returns and the change is tracked.
EngineQueue(c) == QueueWrite(c) /\ Track(call[c].before)

-----------------------------------------------------------------------------
(* pollChanges *)

IdOf(n) == writes[n].id

\* The pending write found for change n: the first of its id and type, among
\* the queued ones and then the given-up ones.
InQueue(n) ==
    \E k \in DOMAIN Queue(IdOf(n)) :
        /\ Queue(IdOf(n))[k].id = IdOf(n)
        /\ writes[Queue(IdOf(n))[k].n].type = writes[n].type

\* Mutant: given-up writes are not looked at.
IsGivenUpNever(n) == n = 0 /\ gaveUp[IdOf(n)] # 0

IsGivenUp(n) ==
    /\ ~InQueue(n)
    /\ gaveUp[IdOf(n)] # 0
    /\ writes[gaveUp[IdOf(n)]].type = writes[n].type

Syncing(ch) == {n \in DOMAIN ch : ch[n].state = "syncing"}

\* Mutant: only a delete is undone from the snapshot.
RollbackDeletes(ch, n) == IF writes[n].type = "delete" /\ ch[n].kept THEN ch[n].before ELSE Absent

\* What a rollback stores: the snapshot, or nothing when there is none.
RollbackValue(ch, n) == IF writes[n].type # "create" /\ ch[n].kept THEN ch[n].before ELSE Absent

\* Mutant: the watcher stops after each poll.
WatcherStops(ch) == watcher /\ ch = <<>>

\* The interval is cleared when no change is in flight.
WatcherStays(ch) == watcher /\ Syncing(ch) # {}

\* The changes ch once a poll went over those of done: without a pending write
\* they are synced.
Settled(done, ch) ==
    [n \in DOMAIN ch |-> IF n \in done /\ ~InQueue(n)
                         THEN [ch[n] EXCEPT !.state = "synced", !.kept = FALSE] ELSE ch[n]]

\* Poll p goes over the changes of todo, newest first; it awaits the first
\* rollback, or is over.
GoOver(p, todo, ch) ==
    LET lost == {n \in todo : IsGivenUp(n)}
    IN  \/ /\ lost = {}
           /\ changes' = Settled(todo, ch)
           /\ poll' = [poll EXCEPT ![p] = NoPoll]
           /\ watcher' = WatcherStays(changes')
        \/ \E n \in lost :
              /\ \A m \in lost : m <= n
              /\ changes' = Settled({m \in todo : m > n}, ch)
              /\ poll' = [poll EXCEPT ![p] =
                            [undo |-> n, todo |-> {m \in todo : m < n},
                             value |-> RollbackValue(ch, n)]]
              /\ UNCHANGED watcher

PollStart(p) ==
    /\ watcher
    /\ poll[p] = NoPoll
    /\ GoOver(p, Syncing(changes), changes)
    /\ overlapped' = (overlapped \/ \E q \in Polls : poll[q] # NoPoll)
    /\ UNCHANGED <<setting, client>>

\* The rollback's storage call is done: the change has failed, and the poll
\* goes on with the next.
Rollback(p) ==
    LET n == poll[p].undo
    IN
    /\ poll[p] # NoPoll
    /\ local' = [local EXCEPT ![IdOf(n)] = poll[p].value]
    /\ GoOver(p, poll[p].todo,
              [changes EXCEPT ![n] = [changes[n] EXCEPT !.state = "failed", !.kept = FALSE]])
    /\ UNCHANGED <<setting, network, writes, confirmed, queues, attempts, call, sync, synced,
                   losses, syncs, overlapped>>

-----------------------------------------------------------------------------

Edit(c) ==
    \/ EngineCreate(c) \/ Ask(c) \/ EngineUpdateRead(c) \/ EngineUpdateStore(c)
    \/ EngineRemove(c) \/ EngineQueue(c)

DirectCall(c) ==
    /\ Create(c) \/ UpdateRead(c) \/ UpdateStore(c) \/ Remove(c) \/ QueueWrite(c)
    /\ UNCHANGED engine

ClientStep ==
    /\ \/ \E d \in Drains : DrainStep(d) \/ Lose(d)
       \/ SyncFetch \/ SyncStore
    /\ UNCHANGED engine

EngineNext ==
    \/ ClientStep
    \/ setting \in Tracked /\ \E c \in setting.users : Edit(c)
    \/ setting \notin Tracked /\ \E c \in setting.users : DirectCall(c)
    \/ \E p \in Polls : PollStart(p) \/ Rollback(p)

EngineSpec == EngineInit /\ [][EngineNext]_trackedVars

\* Requests get an answer, storage calls settle, timers fire.
EngineFairness ==
    /\ \A d \in Drains : WF_trackedVars(DrainStep(d) /\ UNCHANGED engine)
    /\ \A c \in Callers :
          /\ WF_trackedVars(EngineUpdateRead(c)) /\ WF_trackedVars(EngineRemove(c))
          /\ WF_trackedVars(EngineUpdateStore(c))
          /\ WF_trackedVars(QueueWrite(c) /\ IF setting \in Tracked THEN Track(call[c].before)
                                                                     ELSE UNCHANGED engine)
    /\ \A p \in Polls : WF_trackedVars(PollStart(p)) /\ WF_trackedVars(Rollback(p))

EngineLiveSpec == EngineSpec /\ EngineFairness

-----------------------------------------------------------------------------
(* Properties. *)

\* "a write that has left the queue succeeded": a change shown as synced was
\* confirmed by the server, or a later edit of its record took its place.  (For
\* a server that keeps the client's ids.)
SyncedWasConfirmed ==
    setting.keepsIds =>
        \A n \in DOMAIN changes :
            changes[n].state = "synced" =>
                n \in confirmed \/ \E m \in DOMAIN writes : m > n /\ IdOf(m) = IdOf(n)

\* No other write to the record of write n was made or is being made.
Sole(n) ==
    /\ \A m \in DOMAIN writes : IdOf(m) = IdOf(n) => m = n
    /\ \A c \in Callers : call[c].pc = "queue" => call[c].id # IdOf(n)

\* "on failure a change is rolled back to its pre-sync value": from the moment
\* a change has failed its record is what it was before the change.  (For
\* records changed once, polls that did not overlap and no sync of the client.)
FailedIsRolledBack ==
    StableIds /\ setting.syncs = 0 /\ ~overlapped =>
        \A n \in DOMAIN changes :
            changes[n].state = "failed" /\ Sole(n) => local[IdOf(n)] = changes[n].before

\* No change stays "syncing": every edit ends up synced or rolled back.
ChangesSettle == []<>(Syncing(changes) = {})

=============================================================================
