--------------------------- MODULE CollectionSync ---------------------------
(***************************************************************************)
(* How the syncables API client (syncables/src/client/client.ts) keeps its *)
(* local copy of one collection: performSync with its conditional requests *)
(* and page walks, called by users and by the timer of startPolling.  Two  *)
(* syncs share the validators, the last snapshot and local storage, and    *)
(* every request, page and storage call is an await between them.          *)
(*                                                                         *)
(* The server's list changes under them.  An item's version is the         *)
(* server's revision of its last change, and a validator is a revision.    *)
(***************************************************************************)
EXTENDS Naturals, Sequences

CONSTANTS
    Ids,          \* ids of the items
    Initial,      \* ids of the items there at the start, in order
    Modes,        \* how the server lists: with or without validators, or by page
    Manual,       \* sync() calls of users
    Polled,       \* slots for the syncs that ticks start
    PageSize,     \* items on a page
    MaxPages,     \* MAX_PAGES
    MaxRev,       \* bound: revisions of the server's list
    MaxExtras     \* bound: calls of sync() by users, and requests, bodies and
                  \* storage calls that fail

ASSUME CollectionAssumption ==
    /\ {PageSize, MaxPages, MaxRev} \subseteq Nat \ {0}
    /\ MaxExtras \in Nat
    /\ Initial \in Seq(Ids)
    /\ \A k, l \in DOMAIN Initial : Initial[k] = Initial[l] => k = l

VARIABLES
    mode,          \* how this server lists
    server,        \* its list: a sequence of items
    rev,           \* its revision
    cache,         \* conditionalCache: the validator last seen, 0 for none
    synced,        \* lastSyncedItems: <<>> before the first sync, <<list>> after
    storage,       \* the storage adapter: id -> version, 0 for no item
    job,           \* the running performSync calls
    polling,       \* startPolling's timer is on (not stopped)
    syncInFlight,  \* startPolling's flag
    extras,        \* calls of sync() and failures so far
    seen,          \* the revision the last sync that ended had started from
    disturbed      \* two syncs overlapped, one failed with its answer half kept,
                   \* or a walk over a changing list saw an item twice

vars == <<mode, server, rev, cache, synced, storage, job, polling, syncInFlight,
          extras, seen, disturbed>>

Jobs == Manual \cup Polled
Paged == {"offset", "page"}
Idle == [pc |-> "idle", start |-> 0, asked |-> 0, fresh |-> FALSE,
         items |-> <<>>, page |-> 0, todo |-> <<>>, gone |-> {}]

Item == [id : Ids, v : 1..MaxRev]
Job == [pc : {"idle", "asking", "answered", "body", "walking", "walked", "storing"},
        start : 0..MaxRev, asked : 0..MaxRev, fresh : BOOLEAN, items : Seq(Item),
        page : 0..MaxPages, todo : Seq(Item), gone : SUBSET Ids]

IdsOf(list) == {list[k].id : k \in DOMAIN list}
Distinct(list) == \A k, l \in DOMAIN list : list[k].id = list[l].id => k = l
Quiet == \A j \in Jobs : job[j].pc = "idle"

TypeOK ==
    /\ mode \in Modes
    /\ rev \in 1..MaxRev /\ cache \in 0..MaxRev /\ seen \in 0..MaxRev
    /\ server \in Seq(Item) /\ Distinct(server)
    /\ synced \in Seq(Seq(Item)) /\ Len(synced) <= 1
    /\ storage \in [Ids -> 0..MaxRev]
    /\ job \in [Jobs -> Job]
    /\ \A j \in Jobs : job[j].pc = "idle" <=> job[j] = Idle
    /\ {polling, syncInFlight, disturbed} \subseteq BOOLEAN
    /\ extras \in 0..MaxExtras

Init ==
    /\ mode \in Modes
    /\ server = [k \in DOMAIN Initial |-> [id |-> Initial[k], v |-> 1]]
    /\ rev = 1
    /\ cache = 0
    /\ synced = <<>>
    /\ storage = [i \in Ids |-> 0]
    /\ job = [j \in Jobs |-> Idle]
    /\ polling = TRUE
    /\ syncInFlight = FALSE
    /\ extras = 0
    /\ seen = 0
    /\ disturbed = FALSE

-----------------------------------------------------------------------------
(* The server's list: the newest item comes first. *)

ServerChange ==
    /\ rev < MaxRev
    /\ rev' = rev + 1
    /\ \/ \E i \in Ids \ IdsOf(server) : server' = <<[id |-> i, v |-> rev']>> \o server
       \/ \E k \in DOMAIN server : server' = [server EXCEPT ![k].v = rev']
       \/ \E k \in DOMAIN server :
             server' = SubSeq(server, 1, k - 1) \o SubSeq(server, k + 1, Len(server))
    /\ UNCHANGED <<mode, cache, synced, storage, job, polling, syncInFlight, extras,
                   seen, disturbed>>

-----------------------------------------------------------------------------
(* Calling performSync. *)

Begin(j) ==
    /\ job[j].pc = "idle"
    /\ job' = [job EXCEPT ![j] =
                  IF mode \in Paged THEN [Idle EXCEPT !.pc = "walking", !.start = rev]
                                    ELSE [Idle EXCEPT !.pc = "asking", !.asked = cache]]
    /\ disturbed' = (disturbed \/ ~Quiet)

\* A user calls sync(): nothing keeps it from overlapping another one.
ManualSync(j) ==
    /\ j \in Manual
    /\ extras < MaxExtras
    /\ extras' = extras + 1
    /\ Begin(j)
    /\ UNCHANGED <<mode, server, rev, cache, synced, storage, polling, syncInFlight,
                   seen>>

\* Slots are taken in order.
FreeSlot == CHOOSE j \in Polled : job[j].pc = "idle" \/ \A k \in Polled : job[k].pc # "idle"

\* Mutant: a tick starts a sync while an earlier one still runs.
TickAlways(j) ==
    /\ j = FreeSlot
    /\ polling
    /\ job[j].pc = "idle"
    /\ job' = [job EXCEPT ![j] =
                  IF mode \in Paged THEN [Idle EXCEPT !.pc = "walking", !.start = rev]
                                    ELSE [Idle EXCEPT !.pc = "asking", !.asked = cache]]
    /\ syncInFlight' = TRUE
    /\ disturbed' = (disturbed \/ \E m \in Manual : job[m].pc # "idle")
    /\ UNCHANGED <<mode, server, rev, cache, synced, storage, polling, extras, seen>>

Tick(j) ==
    /\ j = FreeSlot
    /\ polling /\ ~syncInFlight
    /\ Begin(j)
    /\ syncInFlight' = TRUE
    /\ UNCHANGED <<mode, server, rev, cache, synced, storage, polling, extras, seen>>

StopPolling ==
    /\ polling
    /\ polling' = FALSE
    /\ UNCHANGED <<mode, server, rev, cache, synced, storage, job, syncInFlight, extras,
                   seen, disturbed>>

\* Mutant: the flag of a tick is not reset.
EndedKeeps(j) == syncInFlight' = (syncInFlight /\ j \in Jobs)

\* The finally of a tick: only a polled sync resets the flag.
Ended(j) == syncInFlight' = (syncInFlight /\ j \notin Polled)

\* performSync rejects and keeps what it has cached and stored so far.
Fail(j) ==
    /\ job[j].pc \in {"asking", "answered", "body", "walking", "storing"}
    /\ extras < MaxExtras
    /\ extras' = extras + 1
    /\ job' = [job EXCEPT ![j] = Idle]
    /\ Ended(j)
    /\ disturbed' = \/ disturbed
                    \/ job[j].pc = "storing"
                    \/ job[j].pc = "body" /\ cache # 0
    /\ UNCHANGED <<mode, server, rev, cache, synced, storage, polling, seen>>

-----------------------------------------------------------------------------
(* fetchCollectionSnapshot *)

\* The server answers a request: 304 when the validator it carries is current.
Answer(j) ==
    /\ job[j].pc = "asking"
    /\ job' = [job EXCEPT ![j].pc = "answered", ![j].start = rev,
                          ![j].fresh = (job[j].asked # rev), ![j].items = server]
    /\ UNCHANGED <<mode, server, rev, cache, synced, storage, polling, syncInFlight,
                   extras, seen, disturbed>>

\* 304: performSync goes on to the next collection.
NotModified(j) ==
    /\ job[j].pc = "answered" /\ ~job[j].fresh
    /\ job' = [job EXCEPT ![j] = Idle]
    /\ Ended(j)
    /\ seen' = job[j].start
    /\ UNCHANGED <<mode, server, rev, cache, synced, storage, polling, extras, disturbed>>

\* 200: the validators are kept as soon as the headers are there.
Headers(j) ==
    /\ job[j].pc = "answered" /\ job[j].fresh
    /\ cache' = IF mode = "validators" THEN job[j].start ELSE 0
    /\ job' = [job EXCEPT ![j].pc = "body"]
    /\ UNCHANGED <<mode, server, rev, synced, storage, polling, syncInFlight, extras,
                   seen, disturbed>>

-----------------------------------------------------------------------------
(* fetchAllItems *)

\* Where the page asked for starts: after the items fetched, or at a page
\* number (a token or a next link stands for the number of the next page).
Offset(j) == IF mode = "offset" THEN Len(job[j].items) ELSE job[j].page * PageSize

PageAt(from) ==
    LET last == from + PageSize
    IN  SubSeq(server, from + 1, IF last < Len(server) THEN last ELSE Len(server))

\* parsePaginationState: the total count against the items fetched so far,
\* else the page number against the number of pages (with which a token or a
\* link, there as long as pages follow, agrees).
HasNextPage(j, got) ==
    IF mode = "offset" THEN Len(got) < Len(server)
                       ELSE (job[j].page + 1) * PageSize < Len(server)

GoesOn(j, got) == HasNextPage(j, got) /\ job[j].page + 1 < MaxPages

\* One request of the walk; after the last page the list is complete.
FetchPage(j) ==
    LET got == job[j].items \o PageAt(Offset(j))
    IN
    /\ job[j].pc = "walking"
    /\ job' = [job EXCEPT ![j].items = got,
                          ![j].page = @ + 1,
                          ![j].pc = IF GoesOn(j, got) THEN "walking" ELSE "walked"]
    /\ UNCHANGED <<mode, server, rev, cache, synced, storage, polling, syncInFlight,
                   extras, seen, disturbed>>

-----------------------------------------------------------------------------
(* The rest of performSync: bring local storage to the list fetched. *)

\* Mutant: an edit that keeps the number of items goes unnoticed.
HasChangesLength(previous, next) ==
    Len(previous) = 0 \/ Len(previous[1]) # Len(next)

\* hasChanges: by the number of items, then by the fingerprint under each id.
HasChanges(previous, next) ==
    \/ previous = <<>>
    \/ Len(previous[1]) # Len(next)
    \/ \E k \in DOMAIN next : \A l \in DOMAIN previous[1] : previous[1][l] # next[k]

\* The body is parsed, or the walk is over, and compared with the last
\* snapshot at that moment.
Compare(j) ==
    /\ job[j].pc \in {"body", "walked"}
    /\ IF HasChanges(synced, job[j].items)
       THEN /\ job' = [job EXCEPT ![j].pc = "storing", ![j].todo = job[j].items,
                          ![j].gone = IF synced = <<>> THEN {}
                                      ELSE IdsOf(synced[1]) \ IdsOf(job[j].items)]
            /\ UNCHANGED <<synced, syncInFlight, seen>>
       ELSE /\ job' = [job EXCEPT ![j] = Idle]
            /\ synced' = <<job[j].items>>
            /\ seen' = job[j].start
            /\ Ended(j)
    /\ disturbed' = (disturbed \/ ~Distinct(job[j].items))
    /\ UNCHANGED <<mode, server, rev, cache, storage, polling, extras>>

\* storage.put of each item in turn ...
Put(j) ==
    /\ job[j].pc = "storing" /\ job[j].todo # <<>>
    /\ storage' = [storage EXCEPT ![Head(job[j].todo).id] = Head(job[j].todo).v]
    /\ job' = [job EXCEPT ![j].todo = Tail(@)]
    /\ UNCHANGED <<mode, server, rev, cache, synced, polling, syncInFlight, extras,
                   seen, disturbed>>

\* ... then storage.delete of each item of the last snapshot that is gone ...
Delete(j) ==
    /\ job[j].pc = "storing" /\ job[j].todo = <<>>
    /\ \E i \in job[j].gone :
          /\ storage' = [storage EXCEPT ![i] = 0]
          /\ job' = [job EXCEPT ![j].gone = @ \ {i}]
    /\ UNCHANGED <<mode, server, rev, cache, synced, polling, syncInFlight, extras,
                   seen, disturbed>>

\* ... and the list is the last snapshot.
Finish(j) ==
    /\ job[j].pc = "storing" /\ job[j].todo = <<>> /\ job[j].gone = {}
    /\ synced' = <<job[j].items>>
    /\ job' = [job EXCEPT ![j] = Idle]
    /\ seen' = job[j].start
    /\ Ended(j)
    /\ UNCHANGED <<mode, server, rev, cache, storage, polling, extras, disturbed>>

-----------------------------------------------------------------------------

SyncStep(j) ==
    \/ Answer(j) \/ NotModified(j) \/ Headers(j) \/ FetchPage(j)
    \/ Compare(j) \/ Put(j) \/ Delete(j) \/ Finish(j)

Next ==
    \/ ServerChange
    \/ StopPolling
    \/ \E j \in Jobs : ManualSync(j) \/ Tick(j) \/ SyncStep(j) \/ Fail(j)

Spec == Init /\ [][Next]_vars

\* Requests and storage calls settle, and the timer fires.
Fairness ==
    /\ \A j \in Jobs : WF_vars(SyncStep(j))
    /\ WF_vars(\E j \in Polled : Tick(j))

LiveSpec == Spec /\ Fairness

-----------------------------------------------------------------------------
(* Properties. *)

Fits == Len(server) <= MaxPages * PageSize

Mirrors ==
    \A i \in Ids :
        IF i \in IdsOf(server)
        THEN \E k \in DOMAIN server : server[k].id = i /\ storage[i] = server[k].v
        ELSE storage[i] = 0

\* "only touches local storage for items that actually changed" and still is a
\* mirror: after a sync of a list that has not changed since it was asked for
\* and fits in the page limit, local storage is that list, whatever was added,
\* edited, removed or shifted between pages in the walks before it.
SyncMirrors ==
    Quiet /\ seen = rev /\ ~disturbed /\ (mode \in Paged => Fits) => Mirrors

\* "sync() is safe to call on a timer": ticks never overlap, so unless a user's
\* sync() overlaps them, or a sync was disturbed otherwise, no item in local
\* storage goes back to an older version.
NoItemGoesBack ==
    [][~disturbed => \A i \in Ids : storage'[i] # 0 => storage'[i] >= storage[i]]_vars

\* While the timer is on, local storage ends up a mirror of the list for good
\* once the list stops changing: no failure before the answer is kept, and no
\* shifted walk, leaves it behind.
PollingCatchesUp ==
    <>[](Mirrors \/ disturbed \/ ~polling \/ (mode \in Paged /\ ~Fits))

=============================================================================
