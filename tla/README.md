# A TLA+ model of the atomic-plugins sync stack

This directory is a verification project for the repository's own logic: the
libraries that keep records of two or more systems in step (`devonian/`,
`syncables/`, `reflector/`), the service that holds credentials for them
(`integration-proxy/`), and the plugins that use them (`integrations/`).
TLC checks the modules on small instances; TLAPS proves the theorems listed at
the end for every value of the constants.

## The system

| Part | State it keeps | Operations | Who calls it |
|---|---|---|---|
| Background sync (`devonian/src/background`) | one persisted record per connection (failures, next due time, last success, pause), a lease | tick, syncNow, resume, withLock, start, stop | timers of tabs, service worker events, cron |
| API client (`syncables/src/client`) | local copies per collection, ids seen by the last sync, a write queue per record, writes given up | list, get, create, update, remove, sync, polling | reflection engine, reflector's sync engine, plugins |
| Reflection engine (`devonian/src/reflect`) | id map, marker in every copy, ledger of last agreed states | reflect, reflectNow, the runner's ticks | reflector service |
| Devonian tables (`devonian/src/storage`, `Devonian*.ts`) | rows per table, index, minting positions | add from client, ensureRow, upsert | nothing in this repository any more |
| Three-way reconcile (`devonian/src/reconcileRecord.ts`) | none (pure) | reconcileRecord, acknowledgedBaseline | plugins |
| Atomic lens (`devonian/src/atomic`) | subject to external id bindings, a resource store | ingest, publish, delete, patch, transaction | plugins |
| Reflector (`reflector/src`) | pending local operations with their before-image, tokens, sessions on disk | create, update, remove, poll, restore, connect, disconnect | its HTTP server |
| Integration proxy (`integration-proxy/src`) | connections, connect states, handoffs, delegations, runtimes, nonces, a refresh lease per connection | connect, callback, redeem, delegate, delete, forward, refresh | plugins through signed requests |
| Calendar plugin (`integrations/calendar`) | one row per event with baseline and ETag, the last preview, refreshes and a send under way | connect, refresh, review, send, discard, settle conflicts | a person, the host |
| Issue tracker plugin (`integrations/issue-tracker`) | records with bindings, baselines and saved operations, a write journal | sync passes, send, resolve, keep here only, remove | a person, the host |
| Timesheets plugin (`integrations/timesheets`) | a log of observations shared by all devices, rows | sync passes, compaction, projection | each device |
| Other plugins | rows keyed by the provider's ids | one-way import | the host |

Interactions: BackgroundSync's `run()` is a host's pass, usually a reflection
or a plugin sync; the reflection engine drives one API client per side and
waits for their write queues to drain; the reflector's sync engine drives the
same client and undoes local writes the client gave up on; all of them reach
the network through the proxy, which refreshes tokens under its own lease.

What is hard: every `await` is an interleaving point; contexts crash between
the effect and the record of it; a write that was applied may have lost its
response; syncs overwrite local copies while local writes are queued; leases
expire while their holder is still at work.

### What makes each part correct

- **Background sync.** Passes of one connection never overlap, in any number
  of tabs, workers and processes; a decision is never made on a schedule
  another context has replaced; a pause ends only by a person's resume; a due
  pass happens although ticks that find the lease taken are dropped.
- **API client.** Every write is sent, in the order made, to the record it was
  meant for, across retries and the change from the client's id to the
  server's; a write that is not confirmed can be found in `pendingWrites()`;
  what is confirmed is what both sides hold.
- **Conditional sync and paging.** After a sync, local storage is the list;
  polling catches up; no item goes back to an older version.
- **Reflector's sync engine.** A change shown as synced was confirmed, one that
  failed is undone, none stays undecided.
- **Reflection engine.** An original is copied once whatever is lost in a
  restart, a link joins a copy with its own original, both sides come to one
  state and a person's change is not undone.
- **Token refresh.** A rotating refresh token is spent once, by one request of
  many; whoever waited gets the new one; no request waits for ever.
- **Connections.** An approval makes one connection, for the browser that gave
  it and the hub that asked; a signed request counts once; a revocation is in
  force from the next request on.
- **Calendar.** A send changes in Google what was reviewed and nothing else; a
  refresh does not lose local edits; the baseline of the three-way merge is a
  real past value.
- **Issue tracker.** An issue is created once and only as approved, across lost
  answers and reloads; nothing that was not observed is replaced.
- **Timesheets.** The log means the same however it is read, compaction loses
  nothing, and absence is not taken for deletion.

## Modules

| Module | Models | Role |
|---|---|---|
| `SyncState` | the stored record and its transitions in `BackgroundSync.ts` | pure operators shared by the next two |
| `SyncSchedule` | the promise of the scheduler: passes one at a time, each outcome recorded or lost whole | abstract specification |
| `BackgroundSync` | `devonian/src/background` | implements `SyncSchedule` |
| `BackgroundSyncProofs` | | theorems about it |
| `ApiClient` | `syncables/src/client/client.ts`, the write path and `performSync`'s effect on local copies | |
| `ReflectorSync` | `reflector/src/sync/engine.ts` | extends `ApiClient`: the two run together |
| `ReflectorSyncProofs` | | theorems about both |
| `CollectionSync` | `performSync`, validators, page walks and polling in the same client | |
| `CollectionSyncProofs` | | theorems about it |
| `ReflectionEngine` | `devonian/src/reflect` (engine, runner, id map, ledger, markers) | uses the client as an abstraction, see below |
| `ReflectionEngineProofs` | | theorems about it |
| `RefreshLease` | `integration-proxy/src/proxy.rs` `refresh_connection` and the lease statements of `security.rs` | |
| `RefreshLeaseProofs` | | theorems about it |
| `ProxyConnections` | `connect.rs`, `oauth.rs`, `connections.rs`, `signature.rs`, `capability.rs`, the checks of `proxy.rs` and the tables of `security.rs` | |
| `ProxyConnectionsProofs` | | theorems about it |
| `ReconcileRecord` | `devonian/src/reconcileRecord.ts` | pure operators, instantiated by the next two |
| `CalendarApp` | `integrations/calendar`: controller, sync, adapter, relay | |
| `CalendarAppProofs` | | theorems about it |
| `IssueBridge` | `integrations/issue-tracker`: bridge, ports, review gate, journal, controller; the identity map and lens of `devonian/src/atomic` | |
| `IssueBridgeProofs` | | theorems about it |
| `ObservationLog` | `integrations/timesheets/app`: observations, log, reads, projection | |
| `MC*` | | what TLC instantiates, one `.cfg` per question |

Some definitions stand directly before the one they vary (`AcquireAnyway`,
`LinkOneWay`, `ClaimTaken`, ...): each is a plausible slip in that place of the
code. Exchanging it for the real one makes the property named in
`PROJECT.json` under `mutants` fail, which shows that the property depends on
that line. `TypeOK` in each module documents the values of its variables; where
there is a proof it is part of the inductive invariant.

### BackgroundSync

One call of a context is a program counter `pc` that moves from `await` to
`await`. `state` is what the store holds, `lease` who has the lock; `snap` is
what the call read last and `next` what it is about to write. `tick()` reads,
decides without the lease (`TickSkip`), tries the lock without queueing
(`TickBusy`, `TickAcquire`), reads again inside (`AttemptRead`), decides again
(`AttemptRefuse`, `RunStart`) and writes the outcome (`RunEnd`, `Write`,
`Release`). `syncNow`, `resume` and `withLock` wait for the lock (`Request`,
`Acquire`). `Crash` closes a tab: its lock is released by the browser and
nothing is written. `StoreFails` is a rejected read or write, which leaves
through the `finally`. Time is shared and moves between any two steps.
The outcome of `run()` is any of success, a transient failure and a failure
that needs a person. A context with several calls at once behaves like several
contexts.

### ApiClient

Queues are JavaScript arrays that a drain holds by reference over its
`await`s, so `heap` holds arrays and `queueAt` maps ids to them: moving a
queue to the server's id and shifting an array somebody else also holds are
then what they are in the code. Every storage call is a step of its own: a
user's call (`call`) reads, stores and then queues its write (`QueueWrite`), and
the answer to a create that was given another id deletes the copy under the old
one (`StoreDelete`) before it stores the new one (`StoreResult`), so a sync, a
drain or another user can come in between. A record is the set of writes whose fields it
carries, so a merge is a union and a lost edit is a missing member. The server
may keep the client's id or assign its own (`keepsIds`, part of the `setting` a
behaviour starts in). A request is
delivered or lost, and a delivered one may lose its response (`Lose`), in which
case it is retried after a backoff. `Callers` await their own calls;
`readsBack` says whether they also address records by ids they found in
`list()` and not only by the ids `create()` returned. `StableIds` excludes those
who do so with a server that assigns ids: they can address a record by an id that
its create has not settled on yet. Client ids are random UUIDs, taken to be none of
the server's (`IdsAssumption`).

### ReflectorSync

Extends `ApiClient`, so that the engine's calls end in the client's own actions:
`Ask` is the engine's own read, for the before-image, and the client's `update()`
reads again after it (`EngineUpdateRead`); a record that is gone by then counts as
one without fields.
Change `n` tracks write `n`, with the record from before it. `PollStart` is one
`pollChanges` up to its first rollback and `Rollback` each further one; the
interval does not wait for a poll, so two can be under way and `overlapped`
remembers that they were. A poll goes over the changes that were in flight when
it began, newest first (`changes.unshift`), so it is the set of those left (`todo`)
and the change it is rolling back (`undo`). The settings in `Tracked` go through the engine, the
others call the client directly: one run checks both, the fifth of its settings
through the engine.

### CollectionSync

Each running `performSync` is a job with its own fetched list; jobs share the
validator cache, `lastSyncedItems` and local storage, and every request, page
and storage call is a step. The server lists with or without validators, or in
pages by offset or by page number, and its list changes between any two pages.
`HasChanges` is what the code does, a comparison of fingerprints with the last
snapshot. `disturbed` names the three cases in which local storage may stay
behind: two syncs overlapped (possible with a user's `sync()` only), a sync
failed after part of its answer was kept, or a walk over a shifting list saw
one item twice.

### ReflectionEngine

A pass is a `phase` and the set `todo` of sources or pairs its loop has left;
the runner runs one pass at a time. `remote` is each system, `local` each
client's list as of the pass's sync, plus the client's unsettled copies under
generated ids (`Temp`). A copy that the engine stopped waiting for stays in
`late` while the client goes on posting it and in `gaveUp` once it does not;
either keeps later drains of that side from succeeding, as in the code.
`PersonCreates` and `PersonToggles` may happen between any two steps; `NextIds`
is the id a system assigns next, as long as the bound `N` leaves one. `Restart`
empties the clients and reads the id map and ledger back, or finds them
missing. `wish` is a history variable: the newest change by a person that the
engine has no reason to undo, i.e. one made between passes to a pair in
agreement, with `recorded` set if the ledger holds that agreement. The `Winner`
operator is the decision which side changed.

### RefreshLease

The connection's row (`status`, `token`, `expires`, `lease`) and the callers'
locals. Claim and release are single SQL statements and so single steps;
everything between is interleaved, in particular `Tick`, so a holder can
outlive its lease. The provider (not in this repository, modelled from how
`refresh_connection` uses it) rotates refresh tokens: `current` is the one it
accepts, and `grant` becomes `"reused"` when it is shown an older one.
`mishaps` is a history variable with the three things that can go wrong:
an answer lost with its caller, a lease overrun, and a claimed row that could
not be read again. A property states which mishaps it needs to be absent.

### ProxyConnections

A step is one database statement with the code up to the next `await`;
requests of any number of processes interleave and time passes between any two
steps. `jar` and `forms` are a browser's cookies and open consent pages;
`used`, `states`, `handoffs`, `conns`, `delegations` and `runtimes` are tables.
A random value is a fresh number, a flow stands for its PKCE pair, platform and
return address, and cryptography is assumed: a message is signed by whom it
says. `Sign` produces a message and `Deliver` brings it, also a second time or
late. A frame's request carries a capability of the owner's and is checked for
the delegation behind it first. `Abort` ends a request anywhere. Ghosts: `seen`
(a request that uses a connection was allowed at some moment since it arrived),
`accepted` (when a message was accepted) and `late` (a nonce was recorded after
what it was checked for was over).

Where a function makes two statements of which the first only sweeps rows that
are over (`create_connection`, `consume_nonce`, `store_connect_state`,
`store_handoff`), the two are one step. Readers of states, handoffs and connections
check the time themselves, so they cannot tell whether a row that is over was
swept; a nonce's record that runs out between the two statements still refuses in
the code, where the model lets the request through. Left out are the cookie's `max_age`,
which only ends a flow the proxy would still let finish, and the token refresh
between `touch` and the request to the provider, which `RefreshLease` models.

### ReconcileRecord

`Decision` is `reconcileRecord` as an operator on functions from properties to
values; `Inbound`, `Outbound` and `Clashing` partition the properties on which
the sides differ.

### CalendarApp

Google's versions of an event are a sequence and an ETag is a position in it,
so that "the value under this ETag" has a meaning. A value is a start and an
end, the smallest record with a validity condition that two one-sided edits can
break. Refresh and send are jobs whose steps interleave with the person, with
the host's own table editor and with Google. `last` is the controller's last
preview and `offer` the one its state shows and `send()` takes: `FinishRefresh`
replaces the first, then the rows are read again, and `Reloaded` shows the preview
as it was computed. An operation of the person stores its row first and goes on
when that returns (`saved`, `Saved`): it outdates the preview or drops what it
settled. A send reads the layout before its first PATCH, and fails there when it
cannot (`LayoutRead`). `countdown` is the rate-limit banner's timer, whose end
starts a refresh in whatever state the app is by then (`Retry`). The end of a send
is one step: it assigns the used-up preview, reads the rows and shows it, and the
failure of that read is the branch that leaves the app "sending". A row is made
under a subject of its own, never one that was used before. Ghosts: `madeFor` is
the event a row was made for, `untracked` are rows changed where a running preview
cannot see it, `interrupted` says that Connect or Disconnect was used while a job
ran, which the app offers then, or that the countdown ended while the consent bar
was open.

### IssueBridge

A pass is the Bridge's `sync()` step by step: resume saved operations, list
GitHub, list the rows, bind, plan one operation per record, check, write
GitHub, write the row, verify, checkpoint. `live` are the Bridge's records, and
`snap` the last checkpoint's, of which `disk` has what was flushed; a reload
goes on from `disk`. `reviewed` is what a person approved, by value. Writes to
GitHub may be refused, lost before or after their effect, and a status change
takes two requests. A held operation is listed per subject, as in the Bridge's
map: a later one of the same record replaces it and a record gone through without
one is taken off (`Others`); `Resume` drops what the last pass held one record at
a time. After an answer that a write landed, the save of its receipt may be
refused (`ReceiptRefused`), and a 401 ends a pass asking to reconnect. `unseen` names the window between `finish()`'s check and
the write. Keep here only and Remove from board save the records first and
change the table after; a row the table then does not change keeps its number
without a record, and `strays` are these rows.

### ObservationLog

A start time is a cell of time and a range a set of cells. `incs`, `snaps` and
`heads` are stored resources, read and saved whole and without
compare-and-swap. A device's pass holds the head and mirror it opened.
`receivedAt` comes from the device's own clock; a device in `slow` stamps its
reads before those another device made earlier. `calm` says that neither
Clockify nor another device did anything during the pass.

A value has what every entry has and a `project`, which stands for what an entry
need not have (project, member, billable). `RowValue` writes a row as the code
does: a value the entry does not have is neither compared nor removed, so it stays
in the row from before, and a completed entry that was resumed keeps the row of
its completion. `PassMirrors` says what holds: the row has all that the entry has.
The list is asked for a range (`query`) and known to be complete for a part of it
(`known`), narrower when the user's time zone is not known. `EnsureHead` is one
step although it has four awaits: the head and snapshot it makes are referenced by
nothing until its last save names them on the App, so no other device can see them.

## What TLC checks

| Run | Shows |
|---|---|
| `background` | `OneLeaseholder`: passes never overlap; `NoLostUpdate`: no stale read decides or overwrites; `ImplementsSchedule`: the whole implements `SyncSchedule` (and with it that pauses stick and only due passes run, which is also proved); `DuePassHappens`: a due schedule gets its pass although ticks are dropped and contexts crash |
| `api` | `PendingListed`, `WritesInOrder`, `ConfirmedCopies`, `EventuallyConfirmed` of the client; `SyncedWasConfirmed`, `FailedIsRolledBack`, `ChangesSettle` of the engine on top of it |
| `api_lost_edit` (violated) | a confirmed edit can vanish from the server, see *Disagreements* |
| `collection` | `SyncMirrors`, `NoItemGoesBack`, `PollingCatchesUp` |
| `reflection` | `CopiedOnce`, `EventuallyConverged`, and `LastChangeWins`: a recorded agreement lets a person's change win. That links match markers is proved, see below |
| `reflection_restart` (violated) | a restart between PATCH and ledger entry makes a later change lose |
| `refresh_lease` | `OneRefresher`, `TokenSpentOnce`, `StoredIsCurrent`, `CallsReturn` |
| `connections` | `OneConnectionPerConsent`, `CompletedByApprover`, `AcceptedOnce`, `ForwardedWhileAllowed` |
| `calendar` | `BaselineWasGoogle`, `ReviewReflectsRows`, `OneRowPerEvent`, `NoBlindWrite`, `LocalEditKept` |
| `issues` | `CreatedOnce`, `ReviewedOnly`, `OneRowPerIssue`, `SettledOrShown`, `OnlyObservedReplaced` |
| `issues_lost_create` (violated) | a create that landed without an answer becomes a second record and row |
| `timesheets` | `OpenEqualsReplay`, `LogKept`, `PassMirrors`, `DestroyedWasDeleted`, and `NoFalseSuspect`: a read cut short makes no entry suspect |

Every property is stated in words above its definition, with the sentence of
the code's documentation it is about where there is one.

### Bounds

Every bound is a constant named `Max...`, a budget in `left`, or a small set,
and stands in a guard. Where one run covers several questions, the initial
states carry the settings (`setting`, `limit`, `left`), each with its own
budget: all combinations at once would be out of reach, and the settings are
chosen so that each interesting combination is in one of them.

- *BackgroundSync*: two contexts, an interval of 1 and a largest backoff of 2,
  so that the backoff is reached and capped. Two manual calls let a resume meet
  a sync-now, one fault lets a context crash anywhere. The proofs lift all of
  these bounds.
- *ApiClient, ReflectorSync*: one existing record and one created one, three
  writes, three drains, one or two losses. Three writes are the least that can
  lose an edit (one in flight, one queued, one merged into the overwritten
  copy), and a create followed by two writes passes through every shape of a
  queue's move. Four settings for direct callers (two users; one with a loss and a
  sync; a limit on attempts and two losses; two users who read back, a server that
  keeps ids and a loss), one for the engine with a limit of two attempts, two
  losses and two overlapping polls: 956,000 states. The proofs lift these bounds.
- *CollectionSync*: three items on pages of one, three revisions, and one extra
  (a user's sync or a failure); `MaxPages` of two makes the page limit bite. The
  proofs lift these bounds.
- *ReflectionEngine*: four ids per system hold two originals with a copy each,
  or one with copies on both sides of a fault, and would hold the echoes and
  second copies the properties exclude. One toggle, fault, duplicate and restart
  each in any combination, or three toggles (a change, a change back and one on
  the other side) and a restart. The proofs lift these bounds.
- *RefreshLease*: two requests at a time and three in all (a holder, a waiter,
  and one that comes after); time to 3 with a lease of 2 lets a lease be overrun
  and taken over. The proofs lift these bounds.
- *ProxyConnections*: two requests at a time, two browsers, an OAuth flow and
  an API-key flow, three agents. The clock skew is 2 and the retention 4, the
  code's proportion of 5 to 10 minutes, with five ticks, enough for a record to
  expire while its message is still in time. Six settings: two flows, one slow
  flow, a connection used and changed, the same by a runtime, a message again,
  and an owner the policy no longer allows. The proofs lift these bounds.
- *CalendarApp*: two events and two outside events, or one event and three when
  it is imported already or the app is still to be connected, otherwise two; four
  rows, so that a doubled import would fit. Times are in 0..2 and an event starts
  as (0, 2), so that a start moved on one side and an end moved on the other
  merge into an impossible interval. One operation of the person at a time waits
  for its row to be stored (`MaxSaves`). 1.7 million states. The proofs lift these
  bounds.
- *IssueBridge*: one issue or one row to start from, two outside events, two
  titles and two statuses (one of them a label): 740,000 states. The proofs lift these bounds.
- *ObservationLog*: two devices, two entries on pages of one, compaction after
  two incrementals. Three passes with one entry to start with, or two with both,
  and two outside events; three passes with both and one event, plainly, with a
  slow clock or with a time zone that is not known; and a page limit of one, so
  that the list has more pages than are read. Three passes let a snapshot be
  opened by a device that was late for it. 2.1 million states.

`CHECK_DEADLOCK FALSE` stands where everything may be done: a client without
calls to make, a proxy without requests, an app nobody uses. The scheduler and
the reflection engine always have a next step, and their runs check for
deadlock. Symmetry is used where values are only compared: titles, devices,
request slots and browsers, in runs without liveness.

### Fairness

- *BackgroundSync*: a timer that was started keeps firing (`setInterval`), a
  call that can go on does, the host's `run()` settles, and the lock is granted
  in the order of requests, as Web Locks specify (strong fairness of
  `Acquire`). Nothing is assumed about when a context starts or crashes.
- *ApiClient, ReflectorSync*: each request is answered or fails in the end,
  backoff timers and the watcher's interval fire, storage calls settle, and an
  `update()` in progress goes on. Losses are bounded, so this does not promise
  that a server is ever reached; that is what *eventually* rests on.
- *CollectionSync*: a sync's requests settle and the polling timer fires.
- *ReflectionEngine*: the runner's interval starts passes and passes go on.
  No fairness for people, for faults, or for an abandoned copy's late arrival.
- *RefreshLease*: a call's own steps happen, because the HTTP client has a
  timeout and the database answers. Time need not pass, so no call relies on a
  lease running out.
- The apps and `ProxyConnections` wait for a person or a request at every turn;
  their properties are safety properties and assume no fairness.

## What is proved

Eight `Proofs` modules hold the theorems. They hold for every set of contexts,
callers, requests, ids, events, issues or items and for every value of the bounds,
and are checked by TLAPS to the last step. Each module has the same plan: an
inductive invariant whose parts are named for what they say, a lemma per group
of actions that says what they change, a lemma that the types are kept, a lemma
per group of actions that the rest is kept, and the theorems as consequences.
Before it was proved every part was checked by TLC as an invariant of the run's
own instance.

**`BackgroundSyncProofs`.** `IndInv` is `TypeOK`, `OneLeaseholder`,
`NoLostUpdate` and four more parts: `CallShape` (which call can be at which
step), `PassAllowed` (a running pass was allowed by what is stored),
`OutcomeFresh` (the outcome about to be written is one of `PassResults` of the
stored state) and `SuccessInPast` (no recorded success lies in the future).
`NoLostUpdate` is not inductive without `OneLeaseholder`, nor the action
properties without `OutcomeFresh`: only because one context is inside the lease
does the store stand still between its read and its write. From `IndInv`:

- `LeaseSafety`: types and `OneLeaseholder`; `NoStaleWrite`: `NoLostUpdate`;
- `PauseSticks`, `PassesAllowed`, `SuccessKept`: the action properties;
- `PermanentStops`: with the hypothesis that no error text is empty, since an
  empty one is stored but is no pause (`BackgroundSync.ts` tests the text for
  truthiness);
- `Refinement`: `Spec => ImplementsSchedule`. A write with an outcome is
  `Finish`, a crash or failing store inside a pass is `Abandon`, everything
  outside `RunStart`, `Write` and `Tock` stutters.

Assumptions: `Interval` is a positive natural number, `MaxBackoff` and the
bounds are natural numbers, the marker for "no pause" is not an error text and
the marker for "no holder" is not a context.

**`RefreshLeaseProofs`.** `RefreshInv` is `TypeOK`, `OneRefresher`,
`TokenSpentOnce`, `StoredIsCurrent`, `LeaseHeld` (short of an overrun the row's
lease is the holder's and is not over, so no claim succeeds), `HolderCurrent`
(the holder's token is the provider's newest) and `TriesLeft`. The step is split
by concern: `TypeStep`, then `LeaseStep` (mutual exclusion, which uses only the
clock and the lease), then `TokenStep` (which uses exclusion). Theorems:
`RefreshInvariant`, `SingleRefresh`, `TokensKept`, `NewestStored`. Assumption:
`TimesAssumption`, positive lease time and number of attempts, the rest natural.

**`ProxyConnectionsProofs`.** `ConnectionsInv` has the types of the tables and of
a request at each of its steps (`TypeOK`, `RequestsOK`) and four arguments:

- *Who completes a consent* (`Drawn`, `Approved`): the consent a request, a
  provider state or a handoff carries was shown to the browser that goes on with
  it; a state does so only through the cookie that was set with it, which is why
  random values must be fresh. It gives `ApproverCompletes`.
- *How often* (`OnePlace`, `UsesKnown`): an approved consent is in one place, be
  it a request, a state, a handoff or a connection, and while it could be
  submitted again its use is on record. Every step moves the consent or drops
  it. It gives `OneConnection`; the exception is a use recorded after the consent
  was over (`late`).
- *Replays* (`Replays`): the record of an accepted message lasts until the
  message is out of time. It gives `NoReplay`, with the exceptions the property
  names.
- *Who uses a connection* (`DelegationsLive`, `Stands`): a request past its
  checks was allowed at some moment since it arrived, although connections and
  delegations go meanwhile. It gives `SentWhileAllowed`.

Assumptions: `TimesAssumption`, of which the proofs need that records are kept
for twice the clock skew and as long as a consent (10, 5 and 10 minutes:
`security.rs:242-250`, `signature.rs:49`, `connect.rs:203`); `None` is no value;
the connections to start from were made without a consent of this behaviour.

**`CalendarAppProofs`.** `CalendarInv` is `TypeOK` and

- `History`: the baseline of a bound row, in the table and in every copy a job
  holds of it, is a past value of the event the row was made for, and so are the
  remote values of previews, conflicts and queued edits. It gives
  `BaselinesAreReal` and, because a PATCH goes through only under the ETag the
  edit was reviewed with, `SendsWhatWasReviewed`;
- `OneAtATime`: unless a job was interrupted, a refresh or a send runs alone, in
  the state of the controller that belongs to it;
- `Tracking`: how far the rows can be from the copy a refresh took of them. A row
  that no one changed behind it is as it was copied or as the refresh wrote it.
  Without it neither of the next two is inductive, since a refresh decides by its
  copy and writes to the table;
- `OneRow`, which gives `RowsStayUnique`, and `LocalEditsSurvive`;
- `ListedOnce`, `SavesOK` and `Fresh`, which give `ReviewIsTrue`. `Fresh` says it
  for the preview shown and for the one a refresh is about to show: it agrees with
  the rows (`Agrees`), a row whose discard has not returned holds Google's value or
  is one the preview cannot see (`Discards`), and what the last preview has less of
  are rows it cannot see (`Leaves`). The last two are needed because a discard
  drops its edit from the last preview and shows that, whichever was shown before.

That a row's subject is never given to another row is needed for `History` (an
edit reviewed for a row must not meet another row under its name); `madeFor`
records for whom a row was made. Assumptions: the fields and times of
`CalendarAssumption`, and that the model values `NoRow` and `None` are no rows,
no values and no previews.

**`ReflectionEngineProofs`.** `ReflectionInv` is `TypeOK` and

- `MarkersOK`: a marker names an issue a person wrote; `ListsOK`: a client's list
  has issues its system has, with their markers, and copies still to be posted;
- `Covered`: the lists of this pass's syncs show a copy of every issue that has
  one, so a marker scan that finds none means there is none;
- `LoopOK`, `PostingOK`, `LateOK`: what the loop that creates copies may rely on.
  A source without a marker has no copy, posted or listed; the copy the engine
  waits for, and an abandoned one that the client goes on posting, are still
  listed, and no copy of the source but those posted twice is on the system;
- `CountOK` and `LinksOK`: an original has at most `1 + twice` copies, links are
  mutual and a marker vouches for each;
- `StatesDone`: comments follow when no pair is left.

`CountOK` is not inductive alone: posting is safe because of `Covered` and
`LoopOK`, and a late copy because of `LateOK`. `LinksOK` needs that `Link`, which
writes over what is there, finds nothing or the same link: the copy's marker
names only this source. Theorems: `ReflectionInvariant`, `OneCopy`,
`LinksVouched`. Assumptions: `N` and the bounds are natural numbers, `None` is no
issue and no id.

**`CollectionSyncProofs`.** `CollectionInv` is `TypeOK` and

- `Alone`: unless something disturbed it one sync runs at a time, since a tick
  waits for the flag and a user's overlapping `sync()` counts as a disturbance;
- `Versions`: no version is newer than the server's, what is stored is not newer
  than what the server has, and short of a disturbance no list in hand is older
  than what is stored. It gives `VersionsAdvance` (`NoItemGoesBack`);
- `Fetching`: what a sync has of a list that has not changed since it began, for
  a walk the first pages of it; after the last page, if the page limit suffices,
  all of it. The list of an older revision is only known to be old;
- `CacheKept`: the validator is that of the last snapshot or of the answer being
  stored, so an answer 304 means that the last snapshot is the server's list;
- `StorageKept`: local storage is the last snapshot or, while a sync stores, on
  its way from it to the list fetched;
- `SeenKept`: the snapshot of a sync that saw the last revision is the list.

`SyncMirrors` is not inductive without them: skipping the writes is right only
because storage still is the last snapshot, and a 304 only because the cache
agrees with that snapshot. `SameItems` is the argument behind `hasChanges`: equal
length and every item found in the old list make the lists equal up to order,
because neither has an id twice (an injection of a finite set into itself is
onto). Theorems: `CollectionInvariant`, `MirrorsAfterSync`, `VersionsAdvance`.
Assumptions: page size, page limit and number of revisions are positive, and the
server's first list has no id twice.

**`IssueBridgeProofs`.** The invariant has six parts.

- `Core`: the types and the shape of a pass. `Mirrored` is the part the others
  rest on: the records of the pass are those of the last checkpoint but for held
  operations, which a resuming pass drops (`HeldDropped`), and for `unconfirmed`;
  a checkpoint that carries an operation is the one on disk. `OperationOK` says what the operation
  under way has: its record, an issue or a create's receipt, its journal entry.
- `Reviewed`: what is in flight or answered was approved. It gives
  `WritesReviewed` (`ReviewedOnly`).
- `Journalled`: an issue the app made has a create entry in the session's journal
  and in the saved one, and a create in flight has made none yet. `CreatedOnce` is
  not inductive without it: after a reload only the saved entry is left to stop
  the second send.
- `Observed`: what `finish()` checked still holds on a side nobody changed since;
  it gives the action property `ObservedReplaced` (`OnlyObservedReplaced`).
- `Shown`: what a pass is done with is held and listed, or has no operation. It
  gives `SettledAfterPass` (`SettledOrShown`). It needs that in the plan phase the
  pass and the checkpoint agree on every operation, because the end of a pass may
  save either.
- `Bound`: in the session and on disk, an issue has one record (`OneRecord`), and
  every numbered row that is no stray is owned by the record of its issue
  (`Linked`): bound to it, or made for it when it is bound to no row
  yet. The second case is the row of a frame that went away before the checkpoint,
  which `findByLocalId` finds; at most one row was made for a record
  (`OneCreated`). It gives `OneRowEach` (`OneRowPerIssue`). That the person who
  settles a missing issue lets go of the row that owns it (`MissingSettles`)
  needs that a pass past its listing has bound every numbered row (`Settles`),
  which the identity map's refusal of clashing bindings gives.

Assumptions: there is an issue number, a row, a title and the status Todo, and
`None` and `Null` are none of the values.

**`ReflectorSyncProofs`.** The client and the engine run together, so one
specification serves both: `EngineSpec`, in which a setting outside `Tracked` is
the client alone. `CoreInv` is the types and, for `StableIds`,

- `Filed`: the arrays in `writeQueues`, the `draining` set and the running drains
  belong together. No array is filed under two ids or empty, and each drain works
  on the head of the queue filed under its key, alone;
- `Sorted`: a queue holds the writes of its id in the order they were made, none
  older than what the server applied and all newer than the one given up;
- `Origins`, `Fresh`, `Targets`: a write held under an id was made to it, or to
  the id its create had before; nothing is held under an id that nobody knows and
  the server has not assigned; so a create that is about to move its queue finds
  no queue and no give-up under the new id, and no other drain moves there;
- `Unlimited`: nothing is given up without a limit on attempts; `Pending`:
  what `PendingListed` says, for queues and give-ups by id.

`PendingListed` is not inductive without `Targets`: the move overwrites what is
filed under the new id. `WritesInOrder` needs `Sorted` across the move, and that a
retry of an applied write is still the head of the only queue. On top of `CoreInv`:

- `PendingWritesListed`, `LandInOrder`: consequences of it and of the steps;
- `SyncedIsConfirmed`: inductive with `CoreInv`. A change whose id and type match
  no queued write has no write of its own in the queue either, and only with ids
  that stay the same does that mean it was confirmed;
- `CopiesAgree`, by `CopiesInv`: a record none of whose writes was given up is on
  the server what it is locally, but for what is queued; the response of the only
  queued write restores equality. Rollbacks touch records with a write given up
  only;
- `FailedRestored`, by `PollsInv` (while no polls overlap, a poll's changes are in
  flight and have their snapshot) and `RestoredInv` (the record of a sole change
  that is being undone, or was, has an empty queue, so no response changes it).

The hypotheses are inside the properties, as conditions on `setting`, each because
the code fails without it: `StableIds` (see *API client* below), `keepsIds` for
what is matched or compared by id, no `sync()` of the client beside its own writes
(`performSync` stores a list fetched before a write over its result), and polls
that did not overlap. Each is met by a setting of the run. Assumptions: client ids
are none of the server's, the bounds are natural numbers, `Existing` are ids of
the server.

**Only model-checked.** All liveness properties, since the prover does not
handle fairness. `OpenEqualsReplay`, `LogKept`, `PassMirrors` and `NoFalseSuspect`
of `ObservationLog`: what opening a log computes is a fold over its chain, and the
induction over data this needs is out of the prover's reach; its action property
`DestroyedWasDeleted` rests on the same folds.

## Disagreements between code and documentation

Checked as runs that TLC finds violated:

1. `api_lost_edit`: `attemptWrite` stores the response to an older update over
   the local copy that a later, still queued update changed. A third update then
   merges into that older copy and its PUT removes the second one's field, though
   all three are confirmed. `update()` is documented to merge into the local
   copy, and `pendingWrites()` says local storage reflects queued writes.
2. `reflection_restart`: the ledger is written after the PATCH. After a restart
   in between, a person who changes the patched side back is taken for the side
   that did not change.
3. `issues_lost_create`: a create that landed and lost its answer is resumed
   without approval and held; the same pass lists the new issue and imports it
   as another record and row. The README says the operation "just completes".

Reached in the models, and kept out of the properties by a named restriction:

- *API client.* With server-assigned ids, a user who finds a new record by its
  server id before the create has settled the queue can have two drains on one
  record, and the moved queue replaces the other (`client.ts:385`). A record has
  one slot for a write given up (`client.ts:376`). `update()` may queue under a
  client id that settled between its awaits (`client.ts:737`) and is then
  stranded on a 404. A POST whose response was lost is sent again.
- *Conditional sync.* The validator is cached before the body is parsed and
  stored (`client.ts:506`): if that fails, later syncs are answered 304 and the
  change is not seen until the next one. `hasChanges` compares with the last
  snapshot, so an item that a shifted walk delivered twice, or that a failed
  storing left behind, can stay in local storage.
- *Reflector's engine.* Overlapping polls that meet one given-up change find no
  snapshot the second time and delete the record (`engine.ts:426`); two failed
  edits of one record are not both undone, since the later snapshot holds the
  earlier edit.
- *Reflection engine.* When `drain` fails, the client's unsettled record stays in
  the list with its marker; the next pass takes it for an existing copy and
  links the original with an id the other system never had (`engine.ts:141`).
- *Token refresh.* The refresh lease and the HTTP timeout are both 30 seconds
  (`security.rs:66`, `lib.rs:135`), so a slow refresh can outlive its lease; a
  holder that cannot read the claimed row goes on with its older credential
  (`proxy.rs:146`). Both are mishaps of `RefreshLease`.
- *Connections.* The consent, the provider's state and the handoff are used up
  before what they are for has succeeded: after a failed exchange or insert the
  person starts again. A nonce's life is counted from the moment it is recorded
  and its time is checked before: a request held in between, or stamped the
  whole skew ahead, can be accepted a second time at the last moment. `standing`
  makes two queries, so an agent moved from runtime to delegate in between is
  refused once.
- *Calendar.* "Keep mine" writes the value the preview read, so an edit made to
  the row since then is undone (`sync.ts:914`). A refresh started by Reconnect
  while another runs imports events twice, and later previews stop at duplicate
  cards. One event whose one-sided edits merge into an impossible interval stops
  the preview of all (`adapter.ts:412`). If the store fails in the read after a
  send, the app shows "sending" for good (`controller.ts:641`). An edit discarded
  while a refresh reads the rows again is back in the list it then shows
  (`controller.ts:594`), and a send takes it to Google after all.
- *Issue tracker.* A row changed in the host's table, or an issue on GitHub,
  between `finish()`'s check and the write is overwritten. A PATCH that landed
  without its label request leaves the record in "Conflict during saved
  operation" until a person changes GitHub. Keep here only saves the record
  before it clears the row's number column (`sync.ts:505`); if the table refuses,
  a record first seen as a row is bound to that row while the column names
  another subject, and every later pass stops at the clash (`IdentityMap.ts:85`).
  Remove from board passes over a row it cannot read (`sync.ts:531`): the next
  pass finds it and reports the issue missing again.
- *Timesheets.* A device that compacts saves its own head without merging one
  that has another snapshot (`observationLog.ts:266`), so an incremental saved
  meanwhile is no longer listed; `LogKept` is therefore stated for passes that do
  not overlap. A device with a slow clock writes into its snapshot a mirror
  folded in the order of its appends (`observationLog.ts:326`). A row keeps the
  project, member or billable flag its entry no longer has (`sync.ts:285`; the
  README says so: "This app does not remove values"), and the row of a completed
  entry that is running again keeps its old times.

## Not modelled

The map covers 6 to 7% of the repository's implementation lines. The rest is
not state and protocol: views and styles of the plugins, generated bundles,
designs, catalogs, OpenAPI documents and the code that interprets them, parsers
of file formats, build and test tooling. Modelling them would repeat the code.

- In the modelled parts: the text form of stored JSON and the service worker's
  registration of `BackgroundSync`; comment copying, the one-way direction
  `a-to-b`, and errors while saving a link in the reflection engine; a POST
  still in flight when the process restarts; several collections in one sync;
  the reflector's `fullRead` of a hierarchy of collections; comments in the
  issue tracker, which pass through the same Bridge code under another entity;
  Clockify's projects and members.
- Cryptography, signatures and parsing (proxy), interpretation of OpenAPI
  documents and overlays, catalogs and templates: stateless computations on
  documents.
- `devonian`'s older tables, index and lens: nothing in the repository uses them
  outside their tests and examples. `IndexedStorage.ts:146` lets two callers that wait on one
  semaphore go on together, and a rejected upsert stays the semaphore.
- The reflector's sessions: refreshes are collapsed within one process, and the
  save of refreshed tokens is not awaited (`session.ts:107`), so that it can
  race a disconnect.
- Notion, Pets, Money and the protocol previews: one-way imports, keyed by the
  provider's ids.
- User interface, build scripts, generated bundles, the ontology: no behaviour
  of this kind.
