------------------------------ MODULE ApiClient ------------------------------
(***************************************************************************)
(* The local-first write path of the syncables API client                  *)
(* (syncables/src/client/client.ts) for one collection: create, update and *)
(* remove change local storage at once and queue a write; one drain per    *)
(* record sends its queue in order, retries, and follows a create onto the *)
(* id the server assigned.  performSync runs beside it.                    *)
(*                                                                         *)
(* A record is the set of the fields it carries; every call writes a field *)
(* of its own.  A call changes storage and queues its write in two steps,  *)
(* the await of the storage between them.  Queues are JavaScript arrays    *)
(* that drains hold by reference across awaits, so they live on a heap and *)
(* writeQueues maps ids to them.                                           *)
(***************************************************************************)
EXTENDS Naturals, Sequences, FiniteSets

CONSTANTS
    LocalIds,     \* ids the client can generate
    ServerIds,    \* ids the server can assign
    Existing,     \* the server's ids of the records both sides start with
    Absent,       \* no record under an id
    Callers,      \* users of the client, each awaiting its own calls
    Drains,       \* slots for running drainQueue calls
    MaxAttempts,  \* retry.maxAttempts where it is set; attempts are not counted further
    MaxWrites,    \* bound: writes made
    Settings      \* the settings to check, see below

(***************************************************************************)
(* A setting says how the client is used: which of the Callers use it      *)
(* (users), whether they also address records they find with list()        *)
(* (readsBack), whether the server files a POST under the id the client    *)
(* sent (keepsIds), whether retry.maxAttempts is set (givesUp), and, as    *)
(* bounds, how many messages get lost (losses) and how often sync() is     *)
(* called (syncs).                                                         *)
(***************************************************************************)
ASSUME ExistingAssumption == Existing \subseteq ServerIds
\* The client's ids (crypto.randomUUID) are none of the server's.
ASSUME IdsAssumption == LocalIds \cap ServerIds = {}
ASSUME BoundsAssumption == MaxAttempts \in Nat /\ MaxWrites \in Nat
ASSUME SettingsAssumption ==
    Settings \subseteq [users : SUBSET Callers, readsBack : BOOLEAN, keepsIds : BOOLEAN,
                        givesUp : BOOLEAN, losses : Nat, syncs : Nat]

VARIABLES
    setting,    \* the setting, fixed at the start
    local,      \* the storage adapter: id -> record
    server,     \* the server's collection: id -> record
    used,       \* ids the server ever assigned
    newest,     \* newest write the server applied to each id
    writes,     \* the writes made, in order
    confirmed,  \* writes whose success the client has seen
    heap,       \* every queue array ever made
    queueAt,    \* writeQueues: id -> array, 0 for none
    draining,   \* the draining set
    attempts,   \* attempts of each write
    gaveUp,     \* gaveUpWrites: id -> write, 0 for none
    drain,      \* the running drainQueue calls
    call,       \* the users' calls, between the storage calls they await
    sync,       \* performSync between its fetch and its storage writes
    synced,     \* lastSyncedItems, <<>> before the first sync
    losses,     \* requests and responses lost so far
    syncs       \* syncs so far

network == <<server, used, newest>>
queues  == <<heap, queueAt, draining, gaveUp, drain>>
vars == <<setting, local, server, used, newest, writes, confirmed, heap, queueAt, draining,
          attempts, gaveUp, drain, call, sync, synced, losses, syncs>>

Ids == LocalIds \cup ServerIds
Writes == 1..MaxWrites
Fields == Writes \X Callers          \* a call writes one field of its own
Records == SUBSET Fields
Copies == [Ids -> {Absent} \cup Records]
KnownIds == Existing \cup LocalIds  \* the ids of the start and those create() returns
NoItem == [n |-> 0, id |-> Absent]
Off == [pc |-> "off", key |-> Absent, array |-> 0, item |-> NoItem, to |-> Absent]
NoCall == [pc |-> "none", type |-> "update", id |-> Absent, own |-> Absent, data |-> {},
           before |-> Absent]
NoSync == [on |-> FALSE, items |-> [i \in Ids |-> Absent]]

\* What the state holds.
Types == {"create", "update", "delete"}
WriteSet == [type : Types, id : Ids, own : Fields, data : Records]
CallSet == {NoCall} \cup [pc : {"asked", "read", "queue"}, type : Types, id : Ids, own : Fields,
                         data : Records, before : {Absent} \cup Records]
ItemSet == [n : DOMAIN writes, id : Ids]
DrainSet(items, arrays) ==
    {Off} \cup [pc : {"sending", "failed", "backoff"}, key : Ids, array : arrays,
                item : items, to : {Absent} \cup Ids]
          \cup [pc : {"ok", "cleared", "stored"}, key : Ids, array : arrays, item : items, to : Ids]
TypeOK ==
    /\ local \in Copies /\ server \in Copies
    /\ used \subseteq Ids
    /\ newest \in [Ids -> 0..Len(writes)]
    /\ writes \in Seq(WriteSet) /\ Len(writes) <= MaxWrites
    /\ confirmed \subseteq DOMAIN writes
    /\ heap \in Seq(Seq(ItemSet))
    /\ queueAt \in [Ids -> 0..Len(heap)]
    /\ draining \subseteq Ids
    /\ attempts \in [Writes -> 0..MaxAttempts]
    /\ gaveUp \in [Ids -> 0..Len(writes)]
    /\ drain \in [Drains -> DrainSet(ItemSet, DOMAIN heap)]
    /\ call \in [Callers -> CallSet]
    /\ sync \in [on : BOOLEAN, items : Copies]
    /\ synced \in Seq(Copies)
    /\ setting \in Settings
    /\ losses \in 0..setting.losses /\ syncs \in 0..setting.syncs

Init ==
    /\ setting \in Settings
    /\ local = [i \in Ids |-> IF i \in Existing THEN {} ELSE Absent]
    /\ server = local
    /\ used = Existing
    /\ newest = [i \in Ids |-> 0]
    /\ writes = <<>>
    /\ confirmed = {}
    /\ heap = <<>>
    /\ queueAt = [i \in Ids |-> 0]
    /\ draining = {}
    /\ attempts = [n \in Writes |-> 0]
    /\ gaveUp = [i \in Ids |-> 0]
    /\ drain = [d \in Drains |-> Off]
    /\ call = [c \in Callers |-> NoCall]
    /\ sync = NoSync
    /\ synced = <<>>
    /\ losses = 0
    /\ syncs = 0

-----------------------------------------------------------------------------
(* drainQueue *)

Queue(i) == IF queueAt[i] = 0 THEN <<>> ELSE heap[queueAt[i]]

\* The top of drainQueue's loop on key k, once the queues are h and at: take
\* the head of the queue filed under k now, or stop.
LoopTop(d, k, h, at, busy) ==
    /\ heap' = h
    /\ IF at[k] = 0 \/ h[at[k]] = <<>>
       THEN /\ drain' = [drain EXCEPT ![d] = Off]
            /\ queueAt' = [at EXCEPT ![k] = 0]
            /\ draining' = busy \ {k}
       ELSE /\ drain' = [drain EXCEPT ![d] =
                  [pc |-> "sending", key |-> k, array |-> at[k],
                   item |-> Head(h[at[k]]), to |-> Absent]]
            /\ queueAt' = at
            /\ draining' = busy

FreeDrains == {d \in Drains : drain[d].pc = "off"}

\* Mutant: a new write overtakes the ones that wait.
EnqueueFront(n, i) ==
    LET item == [n |-> n, id |-> i]
        fresh == queueAt[i] = 0
        h  == IF fresh THEN Append(heap, <<item>>)
                       ELSE [heap EXCEPT ![queueAt[i]] = <<Head(@), item>> \o Tail(@)]
        at == IF fresh THEN [queueAt EXCEPT ![i] = Len(h)] ELSE queueAt
    IN  /\ gaveUp' = [gaveUp EXCEPT ![i] = 0]
        /\ IF i \in draining
           THEN heap' = h /\ queueAt' = at /\ UNCHANGED <<draining, drain>>
           ELSE /\ FreeDrains # {}
                /\ LoopTop(CHOOSE d \in FreeDrains : TRUE, i, h, at, draining \cup {i})

\* enqueueWrite: write n joins the queue of id i; a drain starts if none runs.
Enqueue(n, i) ==
    LET item == [n |-> n, id |-> i]
        fresh == queueAt[i] = 0
        h  == IF fresh THEN Append(heap, <<item>>)
                       ELSE [heap EXCEPT ![queueAt[i]] = Append(@, item)]
        at == IF fresh THEN [queueAt EXCEPT ![i] = Len(h)] ELSE queueAt
    IN  /\ gaveUp' = [gaveUp EXCEPT ![i] = 0]
        /\ IF i \in draining
           THEN heap' = h /\ queueAt' = at /\ UNCHANGED <<draining, drain>>
           ELSE /\ FreeDrains # {}
                /\ LoopTop(CHOOSE d \in FreeDrains : TRUE, i, h, at, draining \cup {i})

TypeOf(d) == writes[drain[d].item.n].type
DataOf(d) == writes[drain[d].item.n].data
At(d) == drain[d].item.id

\* Mutant: a DELETE leaves alone what an earlier response put back.
LocalBeforeSendNothing(d) == local' = local /\ drain[d].pc # "off"

\* Before each DELETE attempt the local copy is deleted (again).
LocalBeforeSend(d) ==
    local' = IF TypeOf(d) = "delete" THEN [local EXCEPT ![At(d)] = Absent] ELSE local

\* The server applies write n of drain d to id i.
Apply(d, i, record) ==
    /\ server' = [server EXCEPT ![i] = record]
    /\ newest' = [newest EXCEPT ![i] = drain[d].item.n]
    /\ drain' = [drain EXCEPT ![d].pc = "ok", ![d].to = i]

\* POST: the server stores the record under the id sent, or one it never used.
DeliverCreate(d) ==
    /\ drain[d].pc = "sending" /\ TypeOf(d) = "create"
    /\ \E i \in IF setting.keepsIds THEN {At(d)} ELSE ServerIds \ used :
          /\ Apply(d, i, DataOf(d))
          /\ used' = used \cup {i}
    /\ UNCHANGED <<setting, local, writes, confirmed, heap, queueAt, draining, attempts, gaveUp,
                   call, sync, synced, losses, syncs>>

\* PUT and DELETE of a record the server has.
DeliverChange(d) ==
    /\ drain[d].pc = "sending" /\ TypeOf(d) \in {"update", "delete"}
    /\ server[At(d)] # Absent
    /\ Apply(d, At(d), IF TypeOf(d) = "update" THEN DataOf(d) ELSE Absent)
    /\ LocalBeforeSend(d)
    /\ UNCHANGED <<setting, used, writes, confirmed, heap, queueAt, draining, attempts, gaveUp,
                   call, sync, synced, losses, syncs>>

\* PUT and DELETE of a record the server does not have: 404.
DeliverMissing(d) ==
    /\ drain[d].pc = "sending" /\ TypeOf(d) \in {"update", "delete"}
    /\ server[At(d)] = Absent
    /\ drain' = [drain EXCEPT ![d].pc = "failed"]
    /\ LocalBeforeSend(d)
    /\ UNCHANGED <<setting, network, writes, confirmed, heap, queueAt, draining, attempts, gaveUp,
                   call, sync, synced, losses, syncs>>

\* The request never reaches the server, or its response never comes back.
Lose(d) ==
    /\ drain[d].pc \in {"sending", "ok"}
    /\ losses < setting.losses
    /\ losses' = losses + 1
    /\ drain' = [drain EXCEPT ![d].pc = "failed"]
    /\ IF drain[d].pc = "sending" THEN LocalBeforeSend(d) ELSE UNCHANGED local
    /\ UNCHANGED <<setting, network, writes, confirmed, heap, queueAt, draining, attempts, gaveUp,
                   call, sync, synced, syncs>>

\* attemptWrite stores what the server answered; the copy under the client's id
\* is deleted first if the server assigned another.
StoreDelete(d) ==
    /\ drain[d].pc = "ok" /\ drain[d].to # At(d)
    /\ local' = [local EXCEPT ![At(d)] = Absent]
    /\ drain' = [drain EXCEPT ![d].pc = "cleared"]
    /\ UNCHANGED <<setting, network, writes, confirmed, heap, queueAt, draining, attempts, gaveUp,
                   call, sync, synced, losses, syncs>>

StoreResult(d) ==
    /\ \/ drain[d].pc = "ok" /\ drain[d].to = At(d)
       \/ drain[d].pc = "cleared"
    /\ local' = IF TypeOf(d) = "delete" THEN local ELSE [local EXCEPT ![drain[d].to] = DataOf(d)]
    /\ drain' = [drain EXCEPT ![d].pc = "stored"]
    /\ UNCHANGED <<setting, network, writes, confirmed, heap, queueAt, draining, attempts, gaveUp,
                   call, sync, synced, losses, syncs>>

\* queue.shift() on the array the drain took its write from.
Shift(h, a) == [h EXCEPT ![a] = IF @ = <<>> THEN @ ELSE Tail(@)]

\* The write at the head is settled; after a create that was given another
\* id, the rest of its queue moves behind the queue of that id.
Advance(d) ==
    /\ drain[d].pc = "stored"
    /\ confirmed' = confirmed \cup {drain[d].item.n}
    /\ LET k    == drain[d].key
           a    == drain[d].array
           to   == drain[d].to
           h    == Shift(heap, a)
           rest == [i \in DOMAIN h[a] |-> [h[a][i] EXCEPT !.id = to]]
       IN  IF to # At(d)
           THEN LoopTop(d, to,
                        Append([h EXCEPT ![a] = <<>>], Queue(to) \o rest),
                        [queueAt EXCEPT ![k] = 0, ![to] = Len(h) + 1],
                        (draining \ {k}) \cup {to})
           ELSE LoopTop(d, k, h,
                        IF h[a] = <<>> THEN [queueAt EXCEPT ![k] = 0] ELSE queueAt,
                        draining)
    /\ UNCHANGED <<setting, local, network, writes, attempts, gaveUp, call, sync, synced,
                   losses, syncs>>

MoreAttempts(n) ==
    IF setting.givesUp /\ attempts[n] < MaxAttempts THEN attempts[n] + 1 ELSE attempts[n]

\* Mutant: a failed attempt ends the drain.
BackOffStops(d) ==
    LET n == drain[d].item.n IN
    /\ drain[d].pc = "failed"
    /\ ~(setting.givesUp /\ MoreAttempts(n) >= MaxAttempts)
    /\ attempts' = [attempts EXCEPT ![n] = MoreAttempts(n)]
    /\ drain' = [drain EXCEPT ![d] = Off]
    /\ draining' = draining \ {drain[d].key}
    /\ UNCHANGED <<setting, local, network, writes, confirmed, heap, queueAt, gaveUp,
                   call, sync, synced, losses, syncs>>

\* attemptWrite's catch: back off ...
BackOff(d) ==
    LET n == drain[d].item.n IN
    /\ drain[d].pc = "failed"
    /\ ~(setting.givesUp /\ MoreAttempts(n) >= MaxAttempts)
    /\ attempts' = [attempts EXCEPT ![n] = MoreAttempts(n)]
    /\ drain' = [drain EXCEPT ![d].pc = "backoff"]
    /\ UNCHANGED <<setting, local, network, writes, confirmed, heap, queueAt, draining, gaveUp,
                   call, sync, synced, losses, syncs>>

\* Mutant: a retry that moves on to the write behind.
RetrySkips(d) ==
    /\ drain[d].pc = "backoff"
    /\ LoopTop(d, drain[d].key, Shift(heap, drain[d].array), queueAt, draining)
    /\ UNCHANGED <<setting, local, network, writes, confirmed, attempts, gaveUp,
                   call, sync, synced, losses, syncs>>

Retry(d) ==
    /\ drain[d].pc = "backoff"
    /\ LoopTop(d, drain[d].key, heap, queueAt, draining)
    /\ UNCHANGED <<setting, local, network, writes, confirmed, attempts, gaveUp,
                   call, sync, synced, losses, syncs>>

\* ... or give up: the write leaves the queue and is remembered for its id.
GiveUp(d) ==
    LET n == drain[d].item.n
        k == drain[d].key
        h == Shift(heap, drain[d].array)
    IN
    /\ drain[d].pc = "failed"
    /\ setting.givesUp /\ MoreAttempts(n) >= MaxAttempts
    /\ attempts' = [attempts EXCEPT ![n] = MoreAttempts(n)]
    /\ gaveUp' = [gaveUp EXCEPT ![k] = n]
    /\ LoopTop(d, k, h,
               IF h[drain[d].array] = <<>> THEN [queueAt EXCEPT ![k] = 0] ELSE queueAt,
               draining)
    /\ UNCHANGED <<setting, local, network, writes, confirmed, call, sync, synced, losses, syncs>>

-----------------------------------------------------------------------------
(* The calls a user makes, on records it can see. *)

\* A record is addressed by an id of the start or of a create(), and by any
\* other id in local storage if users read the collection back.
Visible(i) == local[i] # Absent /\ (setting.readsBack \/ i \in KnownIds)

\* c makes a call: it is not in one, and the bound leaves room for its write.
Calls(c) ==
    /\ call[c] = NoCall
    /\ Len(writes) < MaxWrites
    /\ Len(writes) + Cardinality({u \in Callers : call[u] # NoCall}) < MaxWrites

Called(c, pc, type, i, data, before) ==
    call' = [call EXCEPT ![c] = [pc |-> pc, type |-> type, id |-> i, data |-> data,
                                 own |-> <<Len(writes) + 1, c>>, before |-> before]]

\* create(): the record is stored under a new id ...
Create(c) ==
    /\ Calls(c)
    /\ \E i \in LocalIds :
          /\ \A n \in DOMAIN writes : writes[n].id # i
          /\ \A u \in Callers : call[u].id # i
          /\ Called(c, "queue", "create", i, {<<Len(writes) + 1, c>>}, Absent)
          /\ local' = [local EXCEPT ![i] = {<<Len(writes) + 1, c>>}]
    /\ UNCHANGED <<setting, network, writes, confirmed, queues, attempts, sync, synced, losses, syncs>>

\* update(): the stored record is read ...
UpdateRead(c) ==
    /\ Calls(c)
    /\ \E i \in Ids : Visible(i) /\ Called(c, "read", "update", i, local[i], Absent)
    /\ UNCHANGED <<setting, local, network, writes, confirmed, queues, attempts, sync, synced,
                   losses, syncs>>

\* ... merged with the new field and stored ...
UpdateStore(c) ==
    LET record == call[c].data \cup {call[c].own}
    IN
    /\ call[c].pc = "read"
    /\ local' = [local EXCEPT ![call[c].id] = record]
    /\ call' = [call EXCEPT ![c] = [call[c] EXCEPT !.pc = "queue", !.data = record]]
    /\ UNCHANGED <<setting, network, writes, confirmed, queues, attempts, sync, synced, losses, syncs>>

\* remove(): the record is deleted ...
Remove(c) ==
    /\ Calls(c)
    /\ \E i \in Ids :
          /\ Visible(i)
          /\ Called(c, "queue", "delete", i, {}, Absent)
          /\ local' = [local EXCEPT ![i] = Absent]
    /\ UNCHANGED <<setting, network, writes, confirmed, queues, attempts, sync, synced, losses, syncs>>

\* ... and, once storage is done, the write is queued and the call returns.
QueueWrite(c) ==
    LET w == call[c]
    IN
    /\ w.pc = "queue" /\ Len(writes) < MaxWrites
    /\ writes' = Append(writes, [type |-> w.type, id |-> w.id, own |-> w.own, data |-> w.data])
    /\ Enqueue(Len(writes) + 1, w.id)
    /\ call' = [call EXCEPT ![c] = NoCall]
    /\ UNCHANGED <<setting, local, network, confirmed, attempts, sync, synced, losses, syncs>>

-----------------------------------------------------------------------------
(* performSync *)

SyncFetch ==
    /\ ~sync.on
    /\ syncs < setting.syncs
    /\ syncs' = syncs + 1
    /\ sync' = [on |-> TRUE, items |-> server]
    /\ UNCHANGED <<setting, local, network, writes, confirmed, queues, attempts, call, synced,
                   losses>>

\* Fetched items are stored, and items of the last sync that are gone are
\* deleted, if the list changed since the last sync.
SyncStore ==
    /\ sync.on
    /\ LET previous == IF synced = <<>> THEN [i \in Ids |-> Absent] ELSE synced[1]
       IN  local' = IF synced # <<>> /\ previous = sync.items THEN local
                    ELSE [i \in Ids |->
                             IF sync.items[i] # Absent THEN sync.items[i]
                             ELSE IF previous[i] # Absent THEN Absent ELSE local[i]]
    /\ synced' = <<sync.items>>
    /\ sync' = NoSync
    /\ UNCHANGED <<setting, network, writes, confirmed, queues, attempts, call, losses, syncs>>

-----------------------------------------------------------------------------

DrainStep(d) ==
    \/ DeliverCreate(d) \/ DeliverChange(d) \/ DeliverMissing(d)
    \/ StoreDelete(d) \/ StoreResult(d) \/ Advance(d) \/ BackOff(d) \/ Retry(d) \/ GiveUp(d)

Next ==
    \/ \E d \in Drains : DrainStep(d) \/ Lose(d)
    \/ \E c \in setting.users :
          Create(c) \/ UpdateRead(c) \/ UpdateStore(c) \/ Remove(c) \/ QueueWrite(c)
    \/ SyncFetch \/ SyncStore

Spec == Init /\ [][Next]_vars

\* Requests get an answer in the end and timers fire.
Fairness ==
    /\ \A d \in Drains : WF_vars(DrainStep(d))
    /\ \A c \in Callers : WF_vars(UpdateStore(c)) /\ WF_vars(QueueWrite(c))

LiveSpec == Spec /\ Fairness

-----------------------------------------------------------------------------
(* Properties. *)

Queued(n) == \E i \in Ids : \E j \in DOMAIN Queue(i) : Queue(i)[j].n = n
Listed(n) == Queued(n) \/ \E i \in Ids : gaveUp[i] = n

Quiet ==
    /\ \A i \in Ids : Queue(i) = <<>>
    /\ \A d \in Drains : drain[d].pc = "off"
    /\ \A c \in Callers : call[c] = NoCall
    /\ ~sync.on

\* Users keep to ids that never change: those they know, or a server's that
\* keeps the client's ids.
StableIds == setting.readsBack => setting.keepsIds

\* pendingWrites() lists every write "not yet confirmed by the server": no
\* retry, id change or further call makes an unconfirmed write disappear.  With
\* a limit on attempts this goes for the latest write made to each record; only
\* an earlier one may have gone unreported.
PendingListed ==
    StableIds =>
        \A n \in DOMAIN writes :
            \/ n \in confirmed \/ Listed(n)
            \/ /\ setting.givesUp
               /\ \E m \in DOMAIN writes : m > n /\ writes[m].id = writes[n].id

\* "Writes to the same record land in the order they were made": the server
\* never applies a write to a record after it applied a later one.
WritesInOrder == [][StableIds => \A i \in Ids : newest'[i] >= newest[i]]_vars

\* Once every write is confirmed, local storage is what the server holds.
\* (For a server that keeps the client's ids and a client that does not sync.)
ConfirmedCopies ==
    setting.keepsIds /\ setting.syncs = 0 /\ Quiet /\ confirmed = DOMAIN writes => local = server

\* update() "merges data into the local copy": with all writes confirmed, no
\* field of a confirmed update is missing from the server's record.
NoLostEdit ==
    Quiet /\ confirmed = DOMAIN writes =>
        \A n \in confirmed :
            LET i == writes[n].id IN
            writes[n].type = "update" /\ server[i] # Absent => writes[n].own \in server[i]

\* A queue whose record the server does not have cannot be emptied: a 404 is
\* retried like any other failure.
Stranded(n) ==
    \E i \in Ids : /\ server[i] = Absent
                   /\ \E j \in DOMAIN Queue(i) : Queue(i)[j].n = n
                   /\ writes[Queue(i)[1].n].type # "create"

\* A client that never gives up catches up again and again: at some moment to
\* come every write made by then is confirmed, or the server lacks its record.
EventuallyConfirmed ==
    []<>(\A n \in DOMAIN writes : n \in confirmed \/ Stranded(n) \/ setting.givesUp)

=============================================================================
