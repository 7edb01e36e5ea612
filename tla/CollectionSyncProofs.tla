------------------------ MODULE CollectionSyncProofs ------------------------
(***************************************************************************)
(* What holds of the client's copy of a collection for lists, pages and    *)
(* revisions of any number: proofs for CollectionSync.                     *)
(***************************************************************************)
EXTENDS CollectionSync, FiniteSetTheorems, FunctionTheorems, TLAPS

-----------------------------------------------------------------------------
(* The inductive invariant. *)

\* Unless something disturbed it, one sync runs at a time.
Alone == ~disturbed => \A j, k \in Jobs : job[j].pc # "idle" /\ job[k].pc # "idle" => j = k

\* No version is newer than the server's, and a list in hand is not older than
\* what is stored.
Older(list) ==
    \A k \in DOMAIN list :
        /\ list[k].v <= rev
        /\ \A l \in DOMAIN server : server[l].id = list[k].id => list[k].v <= server[l].v
NotStale(list) == \A k \in DOMAIN list : storage[list[k].id] <= list[k].v
Versions ==
    /\ Older(server) /\ NotStale(server)
    /\ \A i \in Ids : storage[i] <= rev
    /\ \A j \in Jobs : Older(job[j].items)
    /\ ~disturbed => \A j \in Jobs : NotStale(job[j].items)

\* What a sync has fetched of a list that has not changed since it began.
Covers == mode \in Paged => Fits
Fetch(q) ==
    /\ q.pc \notin {"idle", "asking"} => q.start \in 1..rev
    /\ q.pc \in {"asking", "answered", "body"} => mode \notin Paged
    /\ q.pc = "answered" => (q.fresh <=> q.asked # q.start)
    /\ q.pc \in {"answered", "body", "walked", "storing"} =>
          (q.start = rev /\ Covers => q.items = server)
    /\ q.pc \in {"walking", "walked"} => mode \in Paged
    /\ q.pc = "storing" => \A k \in DOMAIN q.todo : \E l \in DOMAIN q.items : q.todo[k] = q.items[l]
    /\ q.pc = "walking" =>
          /\ q.page < MaxPages
          /\ q.start = rev => /\ q.page * PageSize <= Len(server)
                              /\ q.items = SubSeq(server, 1, q.page * PageSize)
Fetching == \A j \in Jobs : Fetch(job[j])

\* The validators kept are those of the last snapshot, or of the answer that is
\* being stored.
Storing(j) == job[j].pc \in {"body", "storing"}
CacheKept ==
    /\ cache <= rev
    /\ cache # 0 => mode \notin Paged
    /\ ~disturbed =>
          /\ \A j \in Jobs : job[j].pc \in {"asking", "answered"} => job[j].asked = cache
          /\ \A j \in Jobs : Storing(j) => cache \in {0, job[j].start}
          /\ cache = rev /\ (\A j \in Jobs : ~Storing(j)) => synced = <<server>>

\* Local storage is the last snapshot, or on its way from it to the next.
StoredIs(list) ==
    /\ \A k \in DOMAIN list : storage[list[k].id] = list[k].v
    /\ \A i \in Ids \ IdsOf(list) : storage[i] = 0
StoredSoFar(q) ==
    /\ Distinct(q.items) /\ q.gone \cap IdsOf(q.items) = {}
    /\ \A k \in DOMAIN q.items : q.items[k].id \notin IdsOf(q.todo) => storage[q.items[k].id] = q.items[k].v
    /\ \A i \in Ids \ (IdsOf(q.items) \cup q.gone) : storage[i] = 0
Snapshot == IF synced = <<>> THEN <<>> ELSE synced[1]
StorageKept ==
    ~disturbed =>
      /\ Distinct(Snapshot)
      /\ (\A j \in Jobs : job[j].pc # "storing") => StoredIs(Snapshot)
      /\ \A j \in Jobs : job[j].pc = "storing" => StoredSoFar(job[j])

\* The last sync's snapshot is the list, if that has not changed since.
SeenKept ==
    /\ seen <= rev
    /\ ~disturbed /\ seen = rev /\ Covers => synced = <<server>>

CollectionInv == TypeOK /\ Alone /\ Versions /\ Fetching /\ CacheKept /\ StorageKept /\ SeenKept

-----------------------------------------------------------------------------
(* Facts about the data. *)

\* The constants the proofs need.
LEMMA Constants ==
    /\ PageSize \in Nat /\ PageSize > 0 /\ MaxPages \in Nat /\ MaxPages > 0
    /\ MaxRev \in Nat /\ MaxRev > 0 /\ MaxExtras \in Nat
BY CollectionAssumption

\* A sync's state, field by field; a call that is not running has fetched
\* nothing.
LEMMA JobFields ==
    ASSUME NEW q \in Job
    PROVE  /\ q.start \in Nat /\ q.asked \in Nat /\ q.fresh \in BOOLEAN /\ q.page \in Nat
           /\ q.start \in 0..MaxRev /\ q.asked \in 0..MaxRev /\ q.page \in 0..MaxPages
           /\ q.items \in Seq(Item) /\ q.todo \in Seq(Item) /\ q.gone \subseteq Ids
<1>1. /\ q.start \in 0..MaxRev /\ q.asked \in 0..MaxRev /\ q.page \in 0..MaxPages
      /\ q.items \in Seq(Item) /\ q.todo \in Seq(Item) /\ q.gone \in SUBSET Ids
      /\ q.fresh \in BOOLEAN
    BY Zenon DEF Job
<1> QED
    BY <1>1, Constants

LEMMA IdleFacts ==
    Idle \in Job /\ Idle.pc = "idle" /\ Idle.items = <<>>
BY Constants DEF Idle, Job

\* The items of a list.
LEMMA Elements ==
    ASSUME NEW list \in Seq(Item), NEW k \in DOMAIN list
    PROVE  /\ list[k] \in Item /\ list[k].id \in Ids
           /\ list[k].v \in 1..MaxRev /\ list[k].v \in Nat /\ list[k].v > 0
           /\ Len(list) \in Nat /\ k \in 1..Len(list) /\ k \in Nat
<1>1. /\ Len(list) \in Nat /\ DOMAIN list = 1..Len(list)
      /\ list \in [1..Len(list) -> Item]
    OBVIOUS
<1>2. list[k] \in Item /\ k \in 1..Len(list)
    BY <1>1
<1>3. list[k].id \in Ids /\ list[k].v \in 1..MaxRev
    BY <1>2, Zenon DEF Item
<1> QED
    BY <1>1, <1>2, <1>3, Constants

\* One sync moves on.
Moved(j, q) ==
    /\ q \in Job /\ (q.pc = "idle" => q = Idle)
    /\ job' = [job EXCEPT ![j] = q]

LEMMA MovedFacts ==
    ASSUME TypeOK, NEW j \in Jobs, NEW q, Moved(j, q)
    PROVE  /\ job' \in [Jobs -> Job] /\ job'[j] = q
           /\ \A k \in Jobs : k # j => job'[k] = job[k]
           /\ \A k \in Jobs : job'[k].pc = "idle" <=> job'[k] = Idle
<1>1. /\ job' \in [Jobs -> Job] /\ job'[j] = q
      /\ \A k \in Jobs : k # j => job'[k] = job[k]
    BY DEF TypeOK, Moved
<1>2. ASSUME NEW k \in Jobs PROVE job'[k].pc = "idle" <=> job'[k] = Idle
    BY <1>1, IdleFacts DEF TypeOK, Moved
<1> QED
    BY <1>1, <1>2

-----------------------------------------------------------------------------
(* What the steps of a sync do to it. *)

\* The state of a sync that begins.
LEMMA BeginFacts ==
    ASSUME TypeOK, NEW j \in Jobs, Begin(j)
    PROVE  \E q \in Job :
             /\ Moved(j, q) /\ q.items = <<>>
             /\ mode \in Paged => q.pc = "walking" /\ q.start = rev /\ q.page = 0
             /\ mode \notin Paged => q.pc = "asking" /\ q.asked = cache
<1>1. rev \in 0..MaxRev /\ cache \in 0..MaxRev /\ Idle \in Job
    BY Constants, IdleFacts DEF TypeOK
<1>2. CASE mode \in Paged
    <2> DEFINE q == [Idle EXCEPT !.pc = "walking", !.start = rev]
    <2>1. q \in Job /\ q.pc = "walking" /\ q.start = rev /\ q.page = 0 /\ q.items = <<>>
        BY <1>1 DEF Idle, Job
    <2>2. job' = [job EXCEPT ![j] = q]
        BY <1>2 DEF Begin
    <2> QED
        BY <1>2, <2>1, <2>2 DEF Moved
<1>3. CASE mode \notin Paged
    <2> DEFINE q == [Idle EXCEPT !.pc = "asking", !.asked = cache]
    <2>1. q \in Job /\ q.pc = "asking" /\ q.asked = cache /\ q.items = <<>>
        BY <1>1 DEF Idle, Job
    <2>2. job' = [job EXCEPT ![j] = q]
        BY <1>3 DEF Begin
    <2> QED
        BY <1>3, <2>1, <2>2 DEF Moved
<1> QED
    BY <1>2, <1>3

\* ... and of one that has its answer, its headers, another page.
LEMMA AnswerFacts ==
    ASSUME TypeOK, NEW j \in Jobs, Answer(j)
    PROVE  \E q \in Job :
             /\ Moved(j, q) /\ q.pc = "answered" /\ q.start = rev /\ q.items = server
             /\ q.asked = job[j].asked /\ (q.fresh <=> q.asked # rev)
<1> DEFINE q == [job[j] EXCEPT !.pc = "answered", !.start = rev, !.fresh = (job[j].asked # rev), !.items = server]
<1>1. job[j] \in Job /\ rev \in 0..MaxRev /\ server \in Seq(Item)
    BY Constants DEF TypeOK
<1>2. job' = [job EXCEPT ![j] = q]
    BY DEF Answer, TypeOK
<1>3. q \in Job /\ q.pc = "answered" /\ q.start = rev /\ q.items = server /\ q.asked = job[j].asked
    BY <1>1 DEF Job
<1>4. q.fresh = (job[j].asked # rev)
    BY <1>1 DEF Job
<1> HIDE DEF q
<1> QED
    BY <1>2, <1>3, <1>4 DEF Moved

LEMMA HeadersFacts ==
    ASSUME TypeOK, NEW j \in Jobs, Headers(j)
    PROVE  \E q \in Job :
             /\ Moved(j, q) /\ q.pc = "body" /\ q.start = job[j].start /\ q.items = job[j].items
<1> DEFINE q == [job[j] EXCEPT !.pc = "body"]
<1>1. job[j] \in Job
    BY DEF TypeOK
<1>2. job' = [job EXCEPT ![j] = q]
    BY DEF Headers, TypeOK
<1>3. q \in Job /\ q.pc = "body" /\ q.start = job[j].start /\ q.items = job[j].items
    BY <1>1 DEF Job
<1> HIDE DEF q
<1> QED
    BY <1>2, <1>3 DEF Moved

-----------------------------------------------------------------------------
(* One sync at a time. *)

\* What the syncs share.
Shared ==
    /\ Older(server) /\ NotStale(server) /\ \A i \in Ids : storage[i] <= rev
    /\ cache <= rev /\ (cache # 0 => mode \notin Paged)
    /\ ~disturbed => Distinct(Snapshot)
    /\ SeenKept

\* What holds of the one sync that may be running.
Sole(q) ==
    /\ Older(q.items) /\ Fetch(q)
    /\ ~disturbed =>
          /\ NotStale(q.items)
          /\ q.pc \in {"asking", "answered"} => q.asked = cache
          /\ q.pc \in {"body", "storing"} => cache \in {0, q.start}
          /\ cache = rev /\ q.pc \notin {"body", "storing"} => synced = <<server>>
          /\ q.pc # "storing" => StoredIs(Snapshot)
          /\ q.pc = "storing" => StoredSoFar(q)
OthersIdle(j) == ~disturbed => \A k \in Jobs : k # j => job[k].pc = "idle"

LEMMA SharedHolds ==
    ASSUME CollectionInv
    PROVE  Shared
BY DEF CollectionInv, Shared, Versions, CacheKept, StorageKept

\* The invariant says so of a running sync ...
LEMMA Focus ==
    ASSUME CollectionInv, NEW j \in Jobs, job[j].pc # "idle"
    PROVE  OthersIdle(j) /\ Sole(job[j])
<1>1. OthersIdle(j)
    BY DEF CollectionInv, Alone, OthersIdle
<1>2. Older(job[j].items) /\ Fetch(job[j])
    BY DEF CollectionInv, Versions, Fetching
<1>3. ASSUME ~disturbed
      PROVE  /\ NotStale(job[j].items)
             /\ job[j].pc \in {"asking", "answered"} => job[j].asked = cache
             /\ job[j].pc \in {"body", "storing"} => cache \in {0, job[j].start}
             /\ cache = rev /\ job[j].pc \notin {"body", "storing"} => synced = <<server>>
             /\ job[j].pc # "storing" => StoredIs(Snapshot)
             /\ job[j].pc = "storing" => StoredSoFar(job[j])
    <2>1. \A k \in Jobs : k # j => job[k].pc = "idle"
        BY <1>1, <1>3 DEF OthersIdle
    <2>2. /\ NotStale(job[j].items)
          /\ job[j].pc \in {"asking", "answered"} => job[j].asked = cache
          /\ job[j].pc \in {"body", "storing"} => cache \in {0, job[j].start}
          /\ job[j].pc = "storing" => StoredSoFar(job[j])
        BY <1>3 DEF CollectionInv, Versions, CacheKept, StorageKept, Storing
    <2>3. cache = rev /\ job[j].pc \notin {"body", "storing"} => synced = <<server>>
        BY <1>3, <2>1 DEF CollectionInv, CacheKept, Storing
    <2>4. job[j].pc # "storing" => StoredIs(Snapshot)
        BY <1>3, <2>1 DEF CollectionInv, StorageKept
    <2> QED
        BY <2>2, <2>3, <2>4
<1> QED
    BY <1>1, <1>2, <1>3 DEF Sole

\* ... and a step of one sync keeps the invariant if it keeps this.
LEMMA StepOfOne ==
    ASSUME CollectionInv, TypeOK', NEW j \in Jobs, NEW q, Moved(j, q),
           mode' = mode, server' = server, rev' = rev,
           ~disturbed' => ~disturbed, ~disturbed' => \A k \in Jobs : k # j => job[k].pc = "idle",
           Shared', Sole(q)'
    PROVE  CollectionInv'
<1>1. /\ job' \in [Jobs -> Job] /\ job'[j] = q
      /\ \A k \in Jobs : k # j => job'[k] = job[k]
    BY MovedFacts DEF CollectionInv
<1>2. ASSUME ~disturbed', NEW k \in Jobs, k # j
      PROVE  job'[k] = Idle /\ job'[k].pc = "idle" /\ job'[k].items = <<>>
    BY <1>1, <1>2, IdleFacts DEF CollectionInv, TypeOK
<1>3. Alone'
    BY <1>2 DEF Alone
<1>4. Versions'
    <2>1. ASSUME NEW k \in Jobs PROVE Older(job[k].items)'
        <3>1. CASE k = j
            BY <1>1, <3>1 DEF Sole
        <3>2. CASE k # j
            BY <1>1, <3>2 DEF CollectionInv, Versions, Older
        <3> QED
            BY <3>1, <3>2
    <2>2. ASSUME ~disturbed', NEW k \in Jobs PROVE NotStale(job[k].items)'
        <3>1. CASE k = j
            BY <1>1, <2>2, <3>1 DEF Sole
        <3>2. CASE k # j
            BY <1>2, <2>2, <3>2 DEF NotStale
        <3> QED
            BY <3>1, <3>2
    <2> QED
        BY <2>1, <2>2 DEF Versions, Shared
<1>5. Fetching'
    <2> SUFFICES ASSUME NEW k \in Jobs PROVE Fetch(job[k])'
        BY DEF Fetching
    <2>1. CASE k = j
        BY <1>1, <2>1 DEF Sole
    <2>2. CASE k # j
        <3>1. PICK r : r = job[k]
            OBVIOUS
        <3>2. Fetch(r) /\ job'[k] = r
            BY <1>1, <2>2, <3>1 DEF CollectionInv, Fetching
        <3>3. Fetch(r)'
            BY <3>2 DEF Fetch, Covers, Fits
        <3> QED
            BY <3>2, <3>3
    <2> QED
        BY <2>1, <2>2
<1>6. CacheKept'
    <2>1. ASSUME ~disturbed', NEW k \in Jobs
          PROVE  /\ job'[k].pc \in {"asking", "answered"} => job'[k].asked = cache'
                 /\ Storing(k)' => cache' \in {0, job'[k].start}
        <3>1. CASE k = j
            BY <1>1, <2>1, <3>1 DEF Sole, Storing
        <3>2. CASE k # j
            BY <1>2, <2>1, <3>2 DEF Storing
        <3> QED
            BY <3>1, <3>2
    <2>2. ASSUME ~disturbed', cache' = rev', \A k \in Jobs : ~Storing(k)' PROVE synced' = <<server'>>
        BY <1>1, <2>2 DEF Sole, Storing
    <2> QED
        BY <2>1, <2>2 DEF CacheKept, Shared
<1>7. StorageKept'
    <2>1. ASSUME ~disturbed', \A k \in Jobs : job'[k].pc # "storing" PROVE StoredIs(Snapshot)'
        BY <1>1, <2>1 DEF Sole
    <2>2. ASSUME ~disturbed', NEW k \in Jobs, job'[k].pc = "storing" PROVE StoredSoFar(job[k])'
        <3>1. k = j
            BY <1>2, <2>2
        <3> QED
            BY <1>1, <2>2, <3>1 DEF Sole
    <2> QED
        BY <2>1, <2>2 DEF StorageKept, Shared
<1> QED
    BY <1>3, <1>4, <1>5, <1>6, <1>7 DEF CollectionInv, Shared

-----------------------------------------------------------------------------
(* The steps that begin a sync or end it with nothing stored. *)

LEMMA TypeStep ==
    ASSUME TypeOK, NEW j \in Jobs, NEW q, Moved(j, q),
           mode' = mode, server' = server, rev' = rev,
           cache' \in 0..MaxRev, seen' \in 0..MaxRev,
           synced' \in Seq(Seq(Item)), Len(synced') <= 1, storage' \in [Ids -> 0..MaxRev],
           polling' = polling, syncInFlight' \in BOOLEAN, disturbed' \in BOOLEAN,
           extras' \in 0..MaxExtras
    PROVE  TypeOK'
<1>1. job' \in [Jobs -> Job] /\ \A k \in Jobs : job'[k].pc = "idle" <=> job'[k] = Idle
    BY MovedFacts
<1>2. server' \in Seq(Item) /\ Distinct(server')
    BY DEF TypeOK
<1>3. mode' \in Modes /\ rev' \in 1..MaxRev
    BY DEF TypeOK
<1>4. {polling', syncInFlight', disturbed'} \subseteq BOOLEAN
    BY DEF TypeOK
<1> QED
    BY <1>1, <1>2, <1>3, <1>4 DEF TypeOK

\* Booleans.
LEMMA Flags ==
    ASSUME TypeOK
    PROVE  polling \in BOOLEAN /\ syncInFlight \in BOOLEAN /\ disturbed \in BOOLEAN
BY DEF TypeOK

\* An idle call has nothing to keep.
LEMMA IdleIsSole ==
    ASSUME TypeOK',
           ~disturbed' => (cache' = rev' => synced' = <<server'>>) /\ StoredIs(Snapshot)'
    PROVE  Sole(Idle)'
<1>1. Idle.pc = "idle" /\ Idle.items = <<>>
    BY IdleFacts
<1>2. Older(Idle.items)' /\ NotStale(Idle.items)'
    BY <1>1 DEF Older, NotStale
<1>3. Fetch(Idle)'
    BY <1>1 DEF Fetch
<1> QED
    BY <1>1, <1>2, <1>3 DEF Sole

LEMMA BeginInv ==
    ASSUME CollectionInv, NEW j \in Jobs, ManualSync(j) \/ Tick(j)
    PROVE  CollectionInv'
<1>1. /\ TypeOK /\ Begin(j) /\ Shared
      /\ UNCHANGED <<mode, server, rev, cache, synced, storage, polling, seen>>
      /\ extras' \in 0..MaxExtras /\ syncInFlight' \in BOOLEAN /\ disturbed' \in BOOLEAN
    <2>1. /\ TypeOK /\ Begin(j) /\ Shared
          /\ UNCHANGED <<mode, server, rev, cache, synced, storage, polling, seen>>
        BY SharedHolds DEF CollectionInv, ManualSync, Tick
    <2>2. extras' \in 0..MaxExtras
        BY <2>1, Constants DEF ManualSync, Tick, TypeOK
    <2>3. syncInFlight' \in BOOLEAN
        BY <2>1, Flags DEF ManualSync, Tick
    <2>4. disturbed' \in BOOLEAN
        BY <2>1, Zenon DEF Begin
    <2> QED
        BY <2>1, <2>2, <2>3, <2>4
<1>2. PICK q \in Job :
             /\ Moved(j, q) /\ q.items = <<>>
             /\ mode \in Paged => q.pc = "walking" /\ q.start = rev /\ q.page = 0
             /\ mode \notin Paged => q.pc = "asking" /\ q.asked = cache
    BY <1>1, BeginFacts
<1>3. TypeOK'
    BY <1>1, <1>2, TypeStep DEF TypeOK
<1>4. ~disturbed' => ~disturbed /\ Quiet
    BY <1>1, Zenon DEF Begin
<1>5. Shared'
    BY <1>1, <1>4 DEF Shared, Older, NotStale, SeenKept, Snapshot, Distinct, Covers, Fits
<1>6. Fetch(q)
    <2>1. CASE mode \in Paged
        <3>1. 0 * PageSize = 0 /\ SubSeq(server, 1, 0) = <<>> /\ Len(server) \in Nat /\ rev \in Nat /\ rev > 0
            BY <1>1, Constants DEF TypeOK
        <3> QED
            BY <1>2, <2>1, <3>1, Constants DEF Fetch
    <2>2. CASE mode \notin Paged
        BY <1>2, <2>2 DEF Fetch
    <2> QED
        BY <2>1, <2>2
<1>7. Sole(q)'
    <2>1. Fetch(q)'
        BY <1>1, <1>6 DEF Fetch, Covers, Fits
    <2>2. Older(q.items)' /\ NotStale(q.items)'
        BY <1>2 DEF Older, NotStale
    <2>3. q.pc \in {"walking", "asking"} /\ (q.pc = "asking" => q.asked = cache)
        BY <1>2
    <2>4. ~disturbed' => (cache = rev => synced = <<server>>) /\ StoredIs(Snapshot)
        BY <1>4 DEF CollectionInv, CacheKept, StorageKept, Quiet, Storing
    <2>5. ~disturbed' => (cache' = rev' => synced' = <<server'>>) /\ StoredIs(Snapshot)'
        BY <1>1, <2>4 DEF StoredIs, Snapshot, IdsOf
    <2> QED
        BY <1>1, <2>1, <2>2, <2>3, <2>5 DEF Sole
<1> QED
    BY <1>1, <1>2, <1>3, <1>4, <1>5, <1>7, StepOfOne DEF Quiet

LEMMA FailInv ==
    ASSUME CollectionInv, NEW j \in Jobs, Fail(j)
    PROVE  CollectionInv'
<1>1. /\ TypeOK /\ Shared /\ job[j].pc # "idle" /\ job' = [job EXCEPT ![j] = Idle]
      /\ UNCHANGED <<mode, server, rev, cache, synced, storage, polling, seen>>
      /\ extras' \in 0..MaxExtras /\ syncInFlight' \in BOOLEAN /\ disturbed' \in BOOLEAN
    BY SharedHolds, Flags, Constants DEF CollectionInv, Fail, Ended, TypeOK
<1>2. Moved(j, Idle)
    BY <1>1, IdleFacts DEF Moved
<1>3. TypeOK'
    BY <1>1, <1>2, TypeStep DEF TypeOK
<1>4. OthersIdle(j) /\ Sole(job[j])
    BY <1>1, Focus
<1>5. ~disturbed' => ~disturbed /\ job[j].pc # "storing" /\ (job[j].pc = "body" => cache = 0)
    BY DEF Fail
<1>6. Shared'
    BY <1>1, <1>5 DEF Shared, Older, NotStale, SeenKept, Snapshot, Distinct, Covers, Fits
<1>7. ~disturbed' => (cache = rev => synced = <<server>>) /\ StoredIs(Snapshot)
    BY <1>1, <1>4, <1>5, Constants DEF Sole, TypeOK
<1>8. ~disturbed' => (cache' = rev' => synced' = <<server'>>) /\ StoredIs(Snapshot)'
    BY <1>1, <1>7 DEF StoredIs, Snapshot, IdsOf
<1>9. Sole(Idle)'
    BY <1>3, <1>8, IdleIsSole
<1> QED
    BY <1>1, <1>2, <1>3, <1>4, <1>5, <1>6, <1>9, StepOfOne DEF OthersIdle

LEMMA NotModifiedInv ==
    ASSUME CollectionInv, NEW j \in Jobs, NotModified(j)
    PROVE  CollectionInv'
<1>1. /\ TypeOK /\ Shared /\ job[j].pc = "answered" /\ ~job[j].fresh /\ job' = [job EXCEPT ![j] = Idle]
      /\ UNCHANGED <<mode, server, rev, cache, synced, storage, polling, extras, disturbed>>
      /\ seen' = job[j].start /\ syncInFlight' \in BOOLEAN /\ job[j] \in Job
    BY SharedHolds, Flags DEF CollectionInv, NotModified, Ended, TypeOK
<1>2. Moved(j, Idle)
    BY <1>1, IdleFacts DEF Moved
<1>3. TypeOK'
    BY <1>1, <1>2, TypeStep, JobFields, Flags DEF TypeOK
<1>4. OthersIdle(j) /\ Sole(job[j])
    BY <1>1, Focus
<1>5. job[j].asked = job[j].start /\ job[j].start \in 1..rev
    BY <1>1, <1>4, JobFields DEF Sole, Fetch
<1>6. SeenKept'
    <2>1. seen' <= rev
        BY <1>1, <1>5, Constants DEF TypeOK
    <2>2. ~disturbed /\ seen' = rev => synced = <<server>>
        BY <1>1, <1>4, <1>5 DEF Sole
    <2> QED
        BY <1>1, <2>1, <2>2 DEF SeenKept
<1>7. Shared'
    BY <1>1, <1>6 DEF Shared, Older, NotStale, Snapshot, Distinct
<1>8. ~disturbed => (cache = rev => synced = <<server>>) /\ StoredIs(Snapshot)
    BY <1>1, <1>4 DEF Sole
<1>9. ~disturbed' => (cache' = rev' => synced' = <<server'>>) /\ StoredIs(Snapshot)'
    BY <1>1, <1>8 DEF StoredIs, Snapshot, IdsOf
<1>10. Sole(Idle)'
    BY <1>3, <1>9, IdleIsSole
<1> QED
    BY <1>1, <1>2, <1>3, <1>4, <1>7, <1>10, StepOfOne DEF OthersIdle

-----------------------------------------------------------------------------
(* The steps that fetch. *)

LEMMA AnswerInv ==
    ASSUME CollectionInv, NEW j \in Jobs, Answer(j)
    PROVE  CollectionInv'
<1>1. /\ TypeOK /\ Shared /\ job[j].pc = "asking"
      /\ UNCHANGED <<mode, server, rev, cache, synced, storage, polling, syncInFlight, extras, seen, disturbed>>
    BY SharedHolds DEF CollectionInv, Answer
<1>2. PICK q \in Job :
             /\ Moved(j, q) /\ q.pc = "answered" /\ q.start = rev /\ q.items = server
             /\ q.asked = job[j].asked /\ (q.fresh <=> q.asked # rev)
    BY <1>1, AnswerFacts
<1>3. TypeOK'
    BY <1>1, <1>2, TypeStep, Flags DEF TypeOK
<1>4. OthersIdle(j) /\ Sole(job[j])
    BY <1>1, Focus
<1>5. Shared'
    BY <1>1 DEF Shared, Older, NotStale, SeenKept, Snapshot, Distinct, Covers, Fits
<1>6. Fetch(q)
    BY <1>1, <1>2, <1>4, Constants DEF Fetch, Sole, TypeOK
<1>7. Sole(q)'
    <2>1. Fetch(q)'
        BY <1>1, <1>6 DEF Fetch, Covers, Fits
    <2>2. Older(q.items)' /\ NotStale(q.items)'
        BY <1>1, <1>2 DEF Shared, Older, NotStale
    <2>3. ~disturbed => job[j].asked = cache /\ (cache = rev => synced = <<server>>) /\ StoredIs(Snapshot)
        BY <1>1, <1>4 DEF Sole
    <2>4. ~disturbed' => (cache' = rev' => synced' = <<server'>>) /\ StoredIs(Snapshot)'
        BY <1>1, <2>3 DEF StoredIs, Snapshot, IdsOf
    <2> QED
        BY <1>1, <1>2, <2>1, <2>2, <2>3, <2>4 DEF Sole
<1> QED
    BY <1>1, <1>2, <1>3, <1>4, <1>5, <1>7, StepOfOne DEF OthersIdle

LEMMA HeadersInv ==
    ASSUME CollectionInv, NEW j \in Jobs, Headers(j)
    PROVE  CollectionInv'
<1>1. /\ TypeOK /\ Shared /\ job[j].pc = "answered" /\ job[j] \in Job
      /\ UNCHANGED <<mode, server, rev, synced, storage, polling, syncInFlight, extras, seen, disturbed>>
    BY SharedHolds DEF CollectionInv, Headers, TypeOK
<1>2. PICK q \in Job :
             /\ Moved(j, q) /\ q.pc = "body" /\ q.start = job[j].start /\ q.items = job[j].items
    BY <1>1, HeadersFacts
<1>3. OthersIdle(j) /\ Sole(job[j])
    BY <1>1, Focus
<1>4. /\ mode \notin Paged /\ q.start \in 1..rev /\ q.start \in 0..MaxRev
      /\ q.start = rev /\ Covers => q.items = server
    BY <1>1, <1>2, <1>3, JobFields DEF Sole, Fetch
<1>5. cache' \in {0, q.start} /\ cache' \in 0..MaxRev /\ cache' <= rev
    BY <1>1, <1>2, <1>4, Constants DEF Headers, TypeOK
<1>6. TypeOK'
    BY <1>1, <1>2, <1>5, TypeStep, Flags DEF TypeOK
<1>7. Shared'
    BY <1>1, <1>4, <1>5 DEF Shared, Older, NotStale, SeenKept, Snapshot, Distinct, Covers, Fits
<1>8. Sole(q)'
    <2>1. Fetch(q)
        BY <1>2, <1>4 DEF Fetch
    <2>2. Fetch(q)'
        BY <1>1, <2>1 DEF Fetch, Covers, Fits
    <2>3. Older(q.items) /\ (~disturbed => NotStale(q.items) /\ StoredIs(Snapshot))
        BY <1>1, <1>2, <1>3 DEF Sole
    <2>4. Older(q.items)' /\ (~disturbed' => NotStale(q.items)' /\ StoredIs(Snapshot)')
        BY <1>1, <2>3 DEF Older, NotStale, StoredIs, Snapshot, IdsOf
    <2> QED
        BY <1>1, <1>2, <1>5, <2>2, <2>4 DEF Sole
<1> QED
    BY <1>1, <1>2, <1>3, <1>6, <1>7, <1>8, StepOfOne DEF OthersIdle

\* A page holds items of the server's list, and a page that follows a prefix
\* of it makes a longer one.
LEMMA PageFacts ==
    ASSUME TypeOK, NEW list \in Seq(Item), NEW from \in Nat
    PROVE  /\ list \o PageAt(from) \in Seq(Item)
           /\ \A k \in DOMAIN (list \o PageAt(from)) :
                 \/ k \in DOMAIN list /\ (list \o PageAt(from))[k] = list[k]
                 \/ \E l \in DOMAIN server : (list \o PageAt(from))[k] = server[l]
           /\ from <= Len(server) /\ list = SubSeq(server, 1, from) =>
                 list \o PageAt(from) =
                        SubSeq(server, 1, IF from + PageSize < Len(server) THEN from + PageSize ELSE Len(server))
<1> DEFINE to == IF from + PageSize < Len(server) THEN from + PageSize ELSE Len(server)
<1>1. server \in Seq(Item) /\ Len(server) \in Nat /\ PageSize \in Nat /\ to \in Nat /\ to <= Len(server)
    BY Constants DEF TypeOK
<1>2. PageAt(from) = SubSeq(server, from + 1, to)
    BY DEF PageAt
<1> HIDE DEF to
<1>3. /\ SubSeq(server, from + 1, to) \in Seq(Item)
      /\ Len(SubSeq(server, from + 1, to)) = IF from + 1 <= to THEN to - from ELSE 0
      /\ \A k \in 1..Len(SubSeq(server, from + 1, to)) :
            SubSeq(server, from + 1, to)[k] = server[from + k] /\ from + k \in DOMAIN server
    BY <1>1
<1> DEFINE page == SubSeq(server, from + 1, to)
<1> HIDE DEF page
<1>4. page \in Seq(Item) /\ \A k \in 1..Len(page) : page[k] = server[from + k] /\ from + k \in DOMAIN server
    BY <1>3 DEF page
<1>5. ASSUME NEW k \in DOMAIN (list \o page)
      PROVE  \/ k \in DOMAIN list /\ (list \o page)[k] = list[k]
             \/ \E l \in DOMAIN server : (list \o page)[k] = server[l]
    <2>1. Len(list) \in Nat /\ Len(page) \in Nat /\ DOMAIN list = 1..Len(list) /\ k \in 1..(Len(list) + Len(page))
        BY <1>4
    <2>2. CASE k <= Len(list)
        BY <1>4, <2>1, <2>2
    <2>3. CASE k > Len(list)
        <3>1. (list \o page)[k] = page[k - Len(list)] /\ k - Len(list) \in 1..Len(page)
            BY <1>4, <2>1, <2>3
        <3> QED
            BY <1>4, <3>1
    <2> QED
        BY <2>1, <2>2, <2>3
<1>6. ASSUME from <= Len(server), list = SubSeq(server, 1, from)
      PROVE  list \o page = SubSeq(server, 1, to)
    <2>1. from <= to
        BY <1>1, <1>6, Constants DEF to
    <2>2. Len(page) = to - from /\ Len(list) = from /\ \A k \in 1..from : list[k] = server[k]
        BY <1>1, <1>3, <1>6, <2>1 DEF page
    <2>3. /\ list \o page \in Seq(Item) /\ Len(list \o page) = to
          /\ \A k \in 1..to : (list \o page)[k] = server[k]
        <3>1. list \o page \in Seq(Item) /\ Len(list \o page) = to
            <4>1. list \o page \in Seq(Item) /\ Len(list \o page) = Len(list) + Len(page)
                BY <1>4
            <4> QED
                BY <1>1, <2>2, <4>1
        <3>2. ASSUME NEW k \in 1..to PROVE (list \o page)[k] = server[k]
            <4>1. CASE k <= from
                BY <1>1, <1>4, <2>2, <4>1
            <4>2. CASE k > from
                <5>1. (list \o page)[k] = page[k - from] /\ k - from \in 1..Len(page)
                    BY <1>1, <1>4, <2>2, <4>2
                <5>2. from + (k - from) = k
                    BY <1>1
                <5> QED
                    BY <1>4, <5>1, <5>2
            <4>3. k <= from \/ k > from
                BY <1>1
            <4> QED
                BY <4>1, <4>2, <4>3, Zenon
        <3> QED
            BY <3>1, <3>2
    <2>4. /\ SubSeq(server, 1, to) \in Seq(Item) /\ Len(SubSeq(server, 1, to)) = to
          /\ \A k \in 1..to : SubSeq(server, 1, to)[k] = server[k]
        BY <1>1
    <2> QED
        BY <1>1, <2>3, <2>4
<1>7. list \o page \in Seq(Item)
    BY <1>4
<1>8. PageAt(from) = page
    BY <1>2 DEF page
<1> QED
    BY <1>5, <1>6, <1>7, <1>8, Zenon DEF to

LEMMA FetchPageFacts ==
    ASSUME TypeOK, NEW j \in Jobs, FetchPage(j), job[j].page < MaxPages
    PROVE  \E q \in Job :
             /\ Moved(j, q) /\ q.items = job[j].items \o PageAt(Offset(j))
             /\ q.start = job[j].start /\ q.page = job[j].page + 1
             /\ q.pc = IF GoesOn(j, q.items) THEN "walking" ELSE "walked"
<1> DEFINE got == job[j].items \o PageAt(Offset(j))
           pc == IF GoesOn(j, got) THEN "walking" ELSE "walked"
           q == [job[j] EXCEPT !.items = got, !.page = @ + 1, !.pc = pc]
<1>1. job[j] \in Job
    BY DEF TypeOK
<1>2. job[j].items \in Seq(Item) /\ job[j].page \in Nat /\ Offset(j) \in Nat
    BY <1>1, JobFields, Constants DEF Offset
<1>3. got \in Seq(Item)
    BY <1>2, PageFacts
<1>4. job' = [job EXCEPT ![j] = q]
    BY DEF FetchPage, TypeOK
<1>5. pc \in {"walking", "walked"} /\ job[j].page + 1 \in 0..MaxPages
    BY <1>2, Constants
<1> HIDE DEF got, pc
<1>6. q \in Job /\ q.items = got /\ q.pc = pc /\ q.start = job[j].start /\ q.page = job[j].page + 1
    BY <1>1, <1>3, <1>5 DEF Job
<1>7. Moved(j, q)
    BY <1>4, <1>5, <1>6 DEF Moved
<1> HIDE DEF q
<1> QED
    BY <1>6, <1>7 DEF got, pc

LEMMA FetchPageInv ==
    ASSUME CollectionInv, NEW j \in Jobs, FetchPage(j)
    PROVE  CollectionInv'
<1>1. /\ TypeOK /\ Shared /\ job[j].pc = "walking" /\ job[j] \in Job
      /\ UNCHANGED <<mode, server, rev, cache, synced, storage, polling, syncInFlight, extras, seen, disturbed>>
    BY SharedHolds DEF CollectionInv, FetchPage, TypeOK
<1>2. OthersIdle(j) /\ Sole(job[j])
    BY <1>1, Focus
<1>3. /\ job[j].page < MaxPages /\ mode \in Paged /\ job[j].start \in 1..rev
      /\ job[j].start = rev => /\ job[j].page * PageSize <= Len(server)
                               /\ job[j].items = SubSeq(server, 1, job[j].page * PageSize)
    BY <1>1, <1>2 DEF Sole, Fetch
<1>4. PICK q \in Job :
             /\ Moved(j, q) /\ q.items = job[j].items \o PageAt(Offset(j))
             /\ q.start = job[j].start /\ q.page = job[j].page + 1
             /\ q.pc = IF GoesOn(j, q.items) THEN "walking" ELSE "walked"
    BY <1>1, <1>3, FetchPageFacts
<1>5. TypeOK'
    BY <1>1, <1>4, TypeStep, Flags DEF TypeOK
<1>6. Shared'
    BY <1>1 DEF Shared, Older, NotStale, SeenKept, Snapshot, Distinct, Covers, Fits
<1>7. job[j].items \in Seq(Item) /\ job[j].page \in Nat /\ job[j].page * PageSize \in Nat /\ Offset(j) \in Nat
    BY <1>1, JobFields, Constants DEF Offset
<1>8. Older(q.items) /\ (~disturbed => NotStale(q.items))
    <2>1. Older(job[j].items) /\ (~disturbed => NotStale(job[j].items))
        BY <1>2 DEF Sole
    <2>2. Older(server) /\ NotStale(server)
        BY <1>1 DEF Shared
    <2>3. ASSUME NEW k \in DOMAIN q.items
          PROVE  \/ k \in DOMAIN job[j].items /\ q.items[k] = job[j].items[k]
                 \/ \E l \in DOMAIN server : q.items[k] = server[l]
        <3>1. \A l \in DOMAIN (job[j].items \o PageAt(Offset(j))) :
                 \/ l \in DOMAIN job[j].items /\ (job[j].items \o PageAt(Offset(j)))[l] = job[j].items[l]
                 \/ \E m \in DOMAIN server : (job[j].items \o PageAt(Offset(j)))[l] = server[m]
            BY <1>1, <1>7, PageFacts, Zenon
        <3> QED
            BY <1>4, <2>3, <3>1, Zenon
    <2>4. Older(q.items)
        BY <2>1, <2>2, <2>3 DEF Older
    <2>5. ~disturbed => NotStale(q.items)
        BY <2>1, <2>2, <2>3 DEF NotStale
    <2> QED
        BY <2>4, <2>5
<1>9. Fetch(q)
    <2> DEFINE from == job[j].page * PageSize
               to == IF from + PageSize < Len(server) THEN from + PageSize ELSE Len(server)
    <2>1. q.pc \in {"walking", "walked"} /\ (q.pc = "walking" <=> GoesOn(j, q.items))
        BY <1>4
    <2>2. q.pc = "walking" => q.page < MaxPages
        BY <1>4, <2>1 DEF GoesOn
    <2>3. server \in Seq(Item) /\ Len(server) \in Nat /\ PageSize \in Nat /\ to \in Nat /\ to <= Len(server) /\ from \in Nat
        BY <1>1, <1>7, Constants DEF TypeOK
    <2>4. q.page * PageSize = from + PageSize
        BY <1>4, <1>7, Constants
    <2>5. ASSUME q.start = rev
          PROVE  Offset(j) = from /\ q.items = SubSeq(server, 1, to)
        <3>1. from <= Len(server) /\ job[j].items = SubSeq(server, 1, from)
            BY <1>3, <1>4, <2>5
        <3>2. Offset(j) = from
            <4>1. Len(job[j].items) = from
                BY <2>3, <3>1
            <4> QED
                BY <4>1 DEF Offset
        <3> HIDE DEF from
        <3> QED
            BY <1>1, <1>4, <1>7, <2>3, <3>1, <3>2, PageFacts
    <2> HIDE DEF from
    <2>6. ASSUME q.start = rev, q.pc = "walking"
          PROVE  /\ q.page * PageSize <= Len(server)
                 /\ q.items = SubSeq(server, 1, q.page * PageSize)
        <3>1. q.items = SubSeq(server, 1, to)
            BY <2>5, <2>6
        <3>2. Len(q.items) = to
            BY <2>3, <3>1
        <3>3. HasNextPage(j, q.items)
            BY <2>1, <2>6 DEF GoesOn
        <3>4. from + PageSize < Len(server)
            BY <1>4, <2>3, <2>4, <3>2, <3>3 DEF HasNextPage
        <3> QED
            BY <2>3, <2>4, <3>1, <3>4
    <2>7. ASSUME q.start = rev, q.pc = "walked", Covers
          PROVE  q.items = server
        <3>1. q.items = SubSeq(server, 1, to)
            BY <2>5, <2>7
        <3>2. Len(q.items) = to
            BY <2>3, <3>1
        <3>3. ~HasNextPage(j, q.items) \/ job[j].page + 1 >= MaxPages
            BY <1>7, <2>1, <2>7, Constants DEF GoesOn
        <3>4. to = Len(server)
            <4>1. CASE ~HasNextPage(j, q.items)
                BY <1>4, <2>3, <2>4, <3>2, <4>1 DEF HasNextPage
            <4>2. CASE job[j].page + 1 >= MaxPages
                <5>1. q.page = MaxPages
                    BY <1>3, <1>4, <1>7, <4>2, Constants
                <5>2. Len(server) <= MaxPages * PageSize
                    BY <1>3, <2>7 DEF Covers, Fits
                <5> QED
                    BY <2>3, <2>4, <5>1, <5>2
            <4> QED
                BY <3>3, <4>1, <4>2
        <3> QED
            BY <2>3, <3>1, <3>4
    <2> QED
        BY <1>3, <1>4, <2>1, <2>2, <2>6, <2>7 DEF Fetch
<1>10. Sole(q)'
    <2>1. Fetch(q)'
        BY <1>1, <1>9 DEF Fetch, Covers, Fits
    <2>2. Older(q.items)' /\ (~disturbed' => NotStale(q.items)')
        BY <1>1, <1>8 DEF Older, NotStale
    <2>3. ~disturbed => (cache = rev => synced = <<server>>) /\ StoredIs(Snapshot)
        BY <1>1, <1>2 DEF Sole
    <2>4. ~disturbed' => (cache' = rev' => synced' = <<server'>>) /\ StoredIs(Snapshot)'
        BY <1>1, <2>3 DEF StoredIs, Snapshot, IdsOf
    <2>5. q.pc \in {"walking", "walked"}
        BY <1>4
    <2> QED
        BY <1>1, <2>1, <2>2, <2>4, <2>5 DEF Sole
<1> QED
    BY <1>1, <1>2, <1>4, <1>5, <1>6, <1>10, StepOfOne DEF OthersIdle

-----------------------------------------------------------------------------
(* The steps that store. *)

\* A list without repeats whose items are all on another of the same length
\* is that list in some order: what hasChanges compares is enough.
LEMMA SameItems ==
    ASSUME NEW a \in Seq(Item), NEW b \in Seq(Item), Distinct(b), Len(a) = Len(b),
           \A k \in DOMAIN b : \E l \in DOMAIN a : a[l] = b[k]
    PROVE  \A l \in DOMAIN a : \E k \in DOMAIN b : b[k] = a[l]
<1> DEFINE S == 1..Len(a)
           f == [k \in S |-> CHOOSE l \in S : a[l] = b[k]]
<1>1. DOMAIN a = S /\ DOMAIN b = S /\ Len(a) \in Nat
    OBVIOUS
<1> HIDE DEF S
<1>2. ASSUME NEW k \in S PROVE f[k] \in S /\ a[f[k]] = b[k]
    <2>1. \E l \in S : a[l] = b[k]
        BY <1>1
    <2> QED
        BY <2>1
<1>3. f \in [S -> S]
    BY <1>2
<1> HIDE DEF f
<1>4. ASSUME NEW k \in S, NEW m \in S, f[k] = f[m] PROVE k = m
    <2>1. a[f[k]] = b[k] /\ a[f[m]] = b[m]
        BY <1>2
    <2>2. b[k] = b[m]
        BY <1>4, <2>1
    <2> QED
        BY <1>1, <2>2 DEF Distinct
<1>5. f \in Injection(S, S)
    BY <1>3, <1>4, Fun_IsInj
<1>6. IsFiniteSet(S)
    BY <1>1, FS_Interval DEF S
<1>7. f \in Surjection(S, S)
    BY <1>5, <1>6, FS_Injection
<1>8. \A t \in S : \E s \in S : f[s] = t
    BY <1>7 DEF Surjection
<1> SUFFICES ASSUME NEW l \in DOMAIN a PROVE \E k \in DOMAIN b : b[k] = a[l]
    OBVIOUS
<1>9. PICK s \in S : f[s] = l
    BY <1>1, <1>8
<1>10. b[s] = a[l]
    BY <1>2, <1>9
<1> QED
    BY <1>1, <1>10

\* The last snapshot as a list.
LEMMA SnapshotFacts ==
    ASSUME TypeOK
    PROVE  /\ Snapshot \in Seq(Item)
           /\ synced # <<>> => Snapshot = synced[1]
<1>1. synced # <<>> => synced[1] \in Seq(Item)
    BY DEF TypeOK
<1> QED
    BY <1>1 DEF Snapshot

\* The list fetched differs from the last snapshot, and is to be stored.
LEMMA CompareFacts ==
    ASSUME TypeOK, NEW j \in Jobs, Compare(j), HasChanges(synced, job[j].items)
    PROVE  \E q \in Job :
             /\ Moved(j, q) /\ q.pc = "storing" /\ q.start = job[j].start
             /\ q.items = job[j].items /\ q.todo = job[j].items
             /\ q.gone = IdsOf(Snapshot) \ IdsOf(job[j].items)
<1> DEFINE gone == IF synced = <<>> THEN {} ELSE IdsOf(synced[1]) \ IdsOf(job[j].items)
           q == [job[j] EXCEPT !.pc = "storing", !.todo = job[j].items, !.gone = gone]
<1>1. job[j] \in Job /\ job[j].items \in Seq(Item) /\ Snapshot \in Seq(Item)
    BY JobFields, SnapshotFacts DEF TypeOK
<1>2. gone = IdsOf(Snapshot) \ IdsOf(job[j].items)
    BY DEF Snapshot, IdsOf
<1>3. gone \in SUBSET Ids
    <2> SUFFICES ASSUME NEW i \in gone PROVE i \in Ids
        OBVIOUS
    <2>1. PICK k \in DOMAIN Snapshot : i = Snapshot[k].id
        BY <1>2 DEF IdsOf
    <2> QED
        BY <1>1, <2>1, Elements
<1>4. job' = [job EXCEPT ![j] = q]
    BY DEF Compare, TypeOK
<1> HIDE DEF gone
<1>5. /\ q \in Job /\ q.pc = "storing" /\ q.start = job[j].start
      /\ q.items = job[j].items /\ q.todo = job[j].items /\ q.gone = gone
    BY <1>1, <1>3 DEF Job
<1> HIDE DEF q
<1> QED
    BY <1>2, <1>4, <1>5 DEF Moved

LEMMA CompareChangedInv ==
    ASSUME CollectionInv, NEW j \in Jobs, Compare(j), HasChanges(synced, job[j].items)
    PROVE  CollectionInv'
<1>1. /\ TypeOK /\ Shared /\ job[j].pc \in {"body", "walked"} /\ job[j] \in Job
      /\ UNCHANGED <<mode, server, rev, cache, synced, storage, polling, syncInFlight, extras, seen>>
    BY SharedHolds DEF CollectionInv, Compare, TypeOK
<1>2. disturbed' \in BOOLEAN /\ (~disturbed' => ~disturbed /\ Distinct(job[j].items))
    BY Zenon DEF Compare
<1>3. OthersIdle(j) /\ Sole(job[j])
    BY <1>1, Focus
<1>4. PICK q \in Job :
             /\ Moved(j, q) /\ q.pc = "storing" /\ q.start = job[j].start
             /\ q.items = job[j].items /\ q.todo = job[j].items
             /\ q.gone = IdsOf(Snapshot) \ IdsOf(job[j].items)
    BY <1>1, CompareFacts
<1>5. TypeOK'
    BY <1>1, <1>2, <1>4, TypeStep, Flags DEF TypeOK
<1>6. Shared'
    BY <1>1, <1>2 DEF Shared, Older, NotStale, SeenKept, Snapshot, Distinct, Covers, Fits
<1>7. Sole(q)'
    <2>1. Fetch(q)
        BY <1>1, <1>3, <1>4 DEF Sole, Fetch
    <2>2. Fetch(q)'
        BY <1>1, <2>1 DEF Fetch, Covers, Fits
    <2>3. Older(q.items) /\ (~disturbed => NotStale(q.items))
        BY <1>3, <1>4 DEF Sole
    <2>4. Older(q.items)' /\ (~disturbed' => NotStale(q.items)')
        BY <1>1, <1>2, <2>3 DEF Older, NotStale
    <2>5. ~disturbed' => cache' \in {0, q.start}
        <3>1. CASE job[j].pc = "body"
            BY <1>1, <1>2, <1>3, <1>4, <3>1 DEF Sole
        <3>2. CASE job[j].pc = "walked"
            BY <1>1, <1>3, <3>2 DEF Sole, Fetch, Shared
        <3> QED
            BY <1>1, <3>1, <3>2
    <2>6. ~disturbed' => StoredSoFar(q)'
        <3> SUFFICES ASSUME ~disturbed' PROVE StoredSoFar(q)'
            OBVIOUS
        <3>1. StoredIs(Snapshot)
            BY <1>1, <1>2, <1>3 DEF Sole
        <3>2. ASSUME NEW i \in Ids \ (IdsOf(q.items) \cup q.gone) PROVE storage'[i] = 0
            BY <1>1, <1>4, <3>1 DEF StoredIs
        <3>3. ASSUME NEW k \in DOMAIN q.items PROVE q.items[k].id \in IdsOf(q.todo)
            BY <1>4 DEF IdsOf
        <3>4. Distinct(q.items) /\ q.gone \cap IdsOf(q.items) = {}
            BY <1>2, <1>4
        <3> QED
            BY <3>2, <3>3, <3>4 DEF StoredSoFar
    <2> QED
        BY <1>4, <2>2, <2>4, <2>5, <2>6 DEF Sole
<1> QED
    BY <1>1, <1>2, <1>3, <1>4, <1>5, <1>6, <1>7, StepOfOne DEF OthersIdle

\* A sync ends and its list is the last snapshot.
LEMMA EndsInv ==
    ASSUME CollectionInv, NEW j \in Jobs, job[j].pc \in {"body", "walked", "storing"},
           job' = [job EXCEPT ![j] = Idle], synced' = <<job[j].items>>, seen' = job[j].start,
           UNCHANGED <<mode, server, rev, cache, storage, polling, extras>>,
           syncInFlight' \in BOOLEAN, disturbed' \in BOOLEAN,
           ~disturbed' => ~disturbed /\ Distinct(job[j].items) /\ StoredIs(job[j].items)
    PROVE  CollectionInv'
<1>1. TypeOK /\ Shared /\ job[j] \in Job
    BY SharedHolds DEF CollectionInv, TypeOK
<1>2. PICK r \in Job : r = job[j]
    BY <1>1
<1>3. OthersIdle(j) /\ Sole(r)
    BY <1>2, Focus
<1>4. Moved(j, Idle)
    BY IdleFacts DEF Moved
<1>5. /\ r.items \in Seq(Item) /\ r.start \in 0..MaxRev /\ r.start \in 1..rev
      /\ r.start = rev /\ Covers => r.items = server
    BY <1>2, <1>3, JobFields DEF Sole, Fetch
<1>6. synced' \in Seq(Seq(Item)) /\ Len(synced') <= 1 /\ Snapshot' = r.items
    BY <1>2, <1>5 DEF Snapshot
<1>7. TypeOK'
    BY <1>1, <1>2, <1>4, <1>5, <1>6, TypeStep DEF TypeOK
<1>8. SeenKept'
    <2>1. seen' <= rev
        BY <1>1, <1>2, <1>5, Constants DEF TypeOK
    <2> QED
        BY <1>2, <1>5, <2>1 DEF SeenKept, Covers, Fits
<1>9. Shared'
    BY <1>1, <1>2, <1>6, <1>8 DEF Shared, Older, NotStale, Distinct
<1>10. ~disturbed' => (cache' = rev' => synced' = <<server'>>)
    <2> SUFFICES ASSUME ~disturbed', cache = rev PROVE r.items = server
        BY <1>2
    <2>1. mode \notin Paged /\ rev # 0
        BY <1>1, Constants DEF Shared, TypeOK
    <2>2. r.pc \in {"body", "storing"}
        BY <1>2, <1>3, <2>1 DEF Sole, Fetch
    <2>3. r.start = rev
        BY <1>3, <2>1, <2>2 DEF Sole
    <2> QED
        BY <1>5, <2>1, <2>3 DEF Covers
<1>11. ~disturbed' => StoredIs(Snapshot)'
    BY <1>2, <1>6 DEF StoredIs
<1>12. Sole(Idle)'
    BY <1>7, <1>10, <1>11, IdleIsSole
<1> QED
    BY <1>3, <1>4, <1>7, <1>9, <1>12, StepOfOne DEF OthersIdle

LEMMA CompareSameInv ==
    ASSUME CollectionInv, NEW j \in Jobs, Compare(j), ~HasChanges(synced, job[j].items)
    PROVE  CollectionInv'
<1>1. /\ TypeOK /\ Shared /\ job[j].pc \in {"body", "walked"} /\ job[j] \in Job
      /\ job' = [job EXCEPT ![j] = Idle] /\ synced' = <<job[j].items>> /\ seen' = job[j].start
      /\ UNCHANGED <<mode, server, rev, cache, storage, polling, extras>>
    BY SharedHolds DEF CollectionInv, Compare, TypeOK
<1>2. disturbed' \in BOOLEAN /\ (~disturbed' => ~disturbed /\ Distinct(job[j].items))
    BY Zenon DEF Compare
<1>3. syncInFlight' \in BOOLEAN
    BY DEF Compare, Ended
<1>4. ~disturbed' => StoredIs(job[j].items)
    <2> SUFFICES ASSUME ~disturbed' PROVE StoredIs(job[j].items)
        OBVIOUS
    <2>1. PICK b \in Seq(Item) : b = job[j].items
        BY <1>1, JobFields
    <2>2. PICK a \in Seq(Item) : a = Snapshot
        BY <1>1, SnapshotFacts
    <2>3. Distinct(b) /\ StoredIs(a)
        BY <1>1, <1>2, <2>1, <2>2, Focus DEF Sole
    <2>4. Len(a) = Len(b) /\ \A k \in DOMAIN b : \E l \in DOMAIN a : a[l] = b[k]
        BY <1>1, <2>1, <2>2, SnapshotFacts DEF HasChanges
    <2>5. \A l \in DOMAIN a : \E k \in DOMAIN b : b[k] = a[l]
        BY <2>3, <2>4, SameItems
    <2>6. \A k \in DOMAIN b : storage[b[k].id] = b[k].v
        BY <2>3, <2>4 DEF StoredIs
    <2>7. IdsOf(a) = IdsOf(b)
        <3>1. IdsOf(a) \subseteq IdsOf(b)
            BY <2>5 DEF IdsOf
        <3>2. IdsOf(b) \subseteq IdsOf(a)
            BY <2>4 DEF IdsOf
        <3> QED
            BY <3>1, <3>2
    <2> QED
        BY <2>1, <2>3, <2>6, <2>7 DEF StoredIs
<1> QED
    BY <1>1, <1>2, <1>3, <1>4, EndsInv

LEMMA FinishInv ==
    ASSUME CollectionInv, NEW j \in Jobs, Finish(j)
    PROVE  CollectionInv'
<1>1. /\ TypeOK /\ job[j].pc = "storing" /\ job[j].todo = <<>> /\ job[j].gone = {}
      /\ job' = [job EXCEPT ![j] = Idle] /\ synced' = <<job[j].items>> /\ seen' = job[j].start
      /\ UNCHANGED <<mode, server, rev, cache, storage, polling, extras, disturbed>>
    BY DEF CollectionInv, Finish
<1>2. disturbed' \in BOOLEAN /\ syncInFlight' \in BOOLEAN
    BY <1>1, Flags DEF Finish, Ended
<1>3. ~disturbed => StoredSoFar(job[j])
    BY <1>1, Focus DEF Sole
<1>4. IdsOf(job[j].todo) = {}
    BY <1>1 DEF IdsOf
<1>5. ~disturbed' => ~disturbed /\ Distinct(job[j].items) /\ StoredIs(job[j].items)
    BY <1>1, <1>3, <1>4 DEF StoredSoFar, StoredIs
<1> QED
    BY <1>1, <1>2, <1>5, EndsInv

LEMMA PutFacts ==
    ASSUME TypeOK, NEW j \in Jobs, Put(j)
    PROVE  \E q \in Job : \E h \in Item :
             /\ Moved(j, q) /\ q.pc = "storing" /\ q.start = job[j].start
             /\ q.items = job[j].items /\ q.gone = job[j].gone
             /\ h = job[j].todo[1] /\ 1 \in DOMAIN job[j].todo
             /\ \A k \in DOMAIN q.todo : k + 1 \in DOMAIN job[j].todo /\ q.todo[k] = job[j].todo[k + 1]
             /\ IdsOf(job[j].todo) = IdsOf(q.todo) \cup {h.id}
             /\ storage' = [storage EXCEPT ![h.id] = h.v]
<1> DEFINE q == [job[j] EXCEPT !.todo = Tail(job[j].todo)]
<1>1. job[j] \in Job /\ job[j].pc = "storing" /\ job[j].todo # <<>>
    BY DEF TypeOK, Put
<1>2. PICK t \in Seq(Item) : t = job[j].todo
    BY <1>1, JobFields
<1>3. t # <<>> /\ Tail(t) \in Seq(Item) /\ Head(t) = t[1] /\ Len(t) \in Nat /\ Len(t) > 0
    BY <1>1, <1>2
<1>4. /\ Len(Tail(t)) = Len(t) - 1 /\ DOMAIN t = 1..Len(t) /\ DOMAIN Tail(t) = 1..(Len(t) - 1)
      /\ \A k \in 1..(Len(t) - 1) : Tail(t)[k] = t[k + 1]
    BY <1>3
<1>5. t[1] \in Item /\ 1 \in DOMAIN t
    BY <1>3, <1>4, Elements
<1>6. job' = [job EXCEPT ![j] = q]
    BY DEF Put, TypeOK
<1>7. /\ q \in Job /\ q.pc = "storing" /\ q.start = job[j].start
      /\ q.items = job[j].items /\ q.gone = job[j].gone /\ q.todo = Tail(t)
    BY <1>1, <1>2, <1>3 DEF Job
<1> HIDE DEF q
<1>8. \A k \in DOMAIN Tail(t) : k + 1 \in DOMAIN t /\ Tail(t)[k] = t[k + 1]
    BY <1>3, <1>4
<1>9. IdsOf(t) = IdsOf(Tail(t)) \cup {t[1].id}
    <2>1. ASSUME NEW k \in DOMAIN t PROVE t[k].id \in IdsOf(Tail(t)) \cup {t[1].id}
        <3>1. CASE k = 1
            BY <3>1
        <3>2. CASE k # 1
            <4>1. k - 1 \in DOMAIN Tail(t) /\ (k - 1) + 1 = k
                BY <1>3, <1>4, <3>2
            <4>2. t[k] = Tail(t)[k - 1]
                BY <1>8, <4>1
            <4> QED
                BY <4>1, <4>2 DEF IdsOf
        <3> QED
            BY <3>1, <3>2
    <2>2. ASSUME NEW k \in DOMAIN Tail(t) PROVE Tail(t)[k].id \in IdsOf(t)
        BY <1>8 DEF IdsOf
    <2>3. t[1].id \in IdsOf(t)
        BY <1>5 DEF IdsOf
    <2> QED
        BY <2>1, <2>2, <2>3 DEF IdsOf
<1>10. storage' = [storage EXCEPT ![t[1].id] = t[1].v]
    BY <1>2, <1>3 DEF Put
<1> QED
    BY <1>2, <1>5, <1>6, <1>7, <1>8, <1>9, <1>10 DEF Moved

LEMMA PutInv ==
    ASSUME CollectionInv, NEW j \in Jobs, Put(j)
    PROVE  /\ CollectionInv'
           /\ ~disturbed => \A i \in Ids : storage'[i] >= storage[i]
<1>1. /\ TypeOK /\ Shared /\ job[j].pc = "storing" /\ job[j] \in Job
      /\ UNCHANGED <<mode, server, rev, cache, synced, polling, syncInFlight, extras, seen, disturbed>>
    BY SharedHolds DEF CollectionInv, Put, TypeOK
<1>2. PICK q \in Job, h \in Item :
             /\ Moved(j, q) /\ q.pc = "storing" /\ q.start = job[j].start
             /\ q.items = job[j].items /\ q.gone = job[j].gone
             /\ h = job[j].todo[1] /\ 1 \in DOMAIN job[j].todo
             /\ \A k \in DOMAIN q.todo : k + 1 \in DOMAIN job[j].todo /\ q.todo[k] = job[j].todo[k + 1]
             /\ IdsOf(job[j].todo) = IdsOf(q.todo) \cup {h.id}
             /\ storage' = [storage EXCEPT ![h.id] = h.v]
    BY <1>1, PutFacts
<1>3. OthersIdle(j) /\ Sole(job[j])
    BY <1>1, Focus
<1>4. PICK l \in DOMAIN q.items : h = q.items[l]
    BY <1>1, <1>2, <1>3 DEF Sole, Fetch
<1>5. /\ q.items \in Seq(Item) /\ h.id \in Ids /\ h.v \in Nat /\ h.v \in 0..MaxRev /\ rev \in Nat
      /\ server \in Seq(Item)
    <2>1. h.id \in Ids /\ h.v \in 1..MaxRev
        BY Zenon DEF Item
    <2> QED
        BY <1>1, <2>1, JobFields, Constants DEF TypeOK
<1>6. /\ storage \in [Ids -> 0..MaxRev] /\ storage' \in [Ids -> 0..MaxRev]
      /\ storage'[h.id] = h.v /\ \A i \in Ids : i # h.id => storage'[i] = storage[i]
    BY <1>1, <1>2, <1>5 DEF TypeOK
<1>7. Older(q.items) /\ Older(server) /\ NotStale(server) /\ \A i \in Ids : storage[i] <= rev
    BY <1>1, <1>2, <1>3 DEF Sole, Shared
<1>8. TypeOK'
    BY <1>1, <1>2, <1>6, TypeStep, Flags DEF TypeOK
<1>9. Shared'
    <2>1. ASSUME NEW i \in Ids PROVE storage'[i] <= rev
        BY <1>4, <1>6, <1>7 DEF Older
    <2>2. ASSUME NEW k \in DOMAIN server PROVE storage'[server[k].id] <= server[k].v
        <3>1. server[k].id \in Ids
            BY <1>5, Elements
        <3>2. CASE server[k].id = h.id
            BY <1>4, <1>6, <1>7, <3>2 DEF Older
        <3>3. CASE server[k].id # h.id
            BY <1>6, <1>7, <3>1, <3>3 DEF NotStale
        <3> QED
            BY <3>2, <3>3
    <2>3. NotStale(server)'
        BY <1>1, <2>2 DEF NotStale
    <2> QED
        BY <1>1, <1>7, <2>1, <2>3 DEF Shared, Older, SeenKept, Snapshot, Distinct, Covers, Fits
<1>10. Sole(q)'
    <2>1. Fetch(q)
        <3>1. ASSUME NEW k \in DOMAIN q.todo PROVE \E m \in DOMAIN q.items : q.todo[k] = q.items[m]
            BY <1>1, <1>2, <1>3 DEF Sole, Fetch
        <3> QED
            BY <1>1, <1>2, <1>3, <3>1 DEF Sole, Fetch
    <2>2. Fetch(q)'
        BY <1>1, <2>1 DEF Fetch, Covers, Fits
    <2>3. Older(q.items)'
        BY <1>1, <1>7 DEF Older
    <2>4. ASSUME ~disturbed PROVE NotStale(q.items)' /\ StoredSoFar(q)'
        <3>1. StoredSoFar(job[j]) /\ NotStale(q.items) /\ Distinct(q.items)
            BY <1>1, <1>2, <1>3, <2>4 DEF Sole, StoredSoFar
        <3>2. ASSUME NEW k \in DOMAIN q.items, q.items[k].id = h.id PROVE k = l /\ storage'[q.items[k].id] = q.items[k].v
            BY <1>4, <1>6, <3>1, <3>2 DEF Distinct
        <3>3. ASSUME NEW k \in DOMAIN q.items, q.items[k].id # h.id PROVE storage'[q.items[k].id] = storage[q.items[k].id]
            BY <1>5, <1>6, <3>3, Elements
        <3>4. ASSUME NEW k \in DOMAIN q.items PROVE storage'[q.items[k].id] <= q.items[k].v
            <4>1. q.items[k].v \in Nat
                BY <1>5, Elements
            <4>2. CASE q.items[k].id = h.id
                BY <3>2, <4>1, <4>2
            <4>3. CASE q.items[k].id # h.id
                BY <3>1, <3>3, <4>3 DEF NotStale
            <4> QED
                BY <4>2, <4>3
        <3>5. ASSUME NEW k \in DOMAIN q.items, q.items[k].id \notin IdsOf(q.todo) PROVE storage'[q.items[k].id] = q.items[k].v
            <4>1. CASE q.items[k].id = h.id
                BY <3>2, <4>1
            <4>2. CASE q.items[k].id # h.id
                <5>1. q.items[k].id \notin IdsOf(job[j].todo)
                    BY <1>2, <3>5, <4>2
                <5> QED
                    BY <1>2, <3>1, <3>3, <4>2, <5>1 DEF StoredSoFar
            <4> QED
                BY <4>1, <4>2
        <3>6. ASSUME NEW i \in Ids \ (IdsOf(q.items) \cup q.gone) PROVE storage'[i] = 0
            <4>1. i # h.id
                BY <1>4, <3>6 DEF IdsOf
            <4> QED
                BY <1>2, <1>6, <3>1, <3>6, <4>1 DEF StoredSoFar
        <3>7. q.gone \cap IdsOf(q.items) = {}
            BY <1>2, <3>1 DEF StoredSoFar
        <3> QED
            BY <3>1, <3>4, <3>5, <3>6, <3>7 DEF NotStale, StoredSoFar
    <2>5. ~disturbed => cache \in {0, q.start}
        BY <1>1, <1>2, <1>3 DEF Sole
    <2> QED
        BY <1>1, <1>2, <2>2, <2>3, <2>4, <2>5 DEF Sole
<1>11. CollectionInv'
    BY <1>1, <1>2, <1>3, <1>8, <1>9, <1>10, StepOfOne DEF OthersIdle
<1>12. ASSUME ~disturbed, NEW i \in Ids PROVE storage'[i] >= storage[i]
    <2>1. storage[h.id] <= h.v
        BY <1>2, <1>3, <1>4, <1>12 DEF Sole, NotStale
    <2>2. storage[i] \in Nat
        BY <1>6
    <2> QED
        BY <1>5, <1>6, <2>1, <2>2
<1> QED
    BY <1>11, <1>12

LEMMA DeleteFacts ==
    ASSUME TypeOK, NEW j \in Jobs, Delete(j)
    PROVE  \E q \in Job : \E i \in job[j].gone :
             /\ Moved(j, q) /\ q.pc = "storing" /\ q.start = job[j].start
             /\ q.items = job[j].items /\ q.todo = job[j].todo /\ q.gone = job[j].gone \ {i}
             /\ storage' = [storage EXCEPT ![i] = 0]
<1>1. job[j] \in Job /\ job[j].pc = "storing"
    BY DEF TypeOK, Delete
<1>2. PICK i \in job[j].gone : /\ storage' = [storage EXCEPT ![i] = 0]
                               /\ job' = [job EXCEPT ![j].gone = @ \ {i}]
    BY DEF Delete
<1> DEFINE q == [job[j] EXCEPT !.gone = job[j].gone \ {i}]
<1>3. job' = [job EXCEPT ![j] = q]
    BY <1>2 DEF TypeOK
<1>4. /\ q \in Job /\ q.pc = "storing" /\ q.start = job[j].start
      /\ q.items = job[j].items /\ q.todo = job[j].todo /\ q.gone = job[j].gone \ {i}
    BY <1>1 DEF Job
<1> HIDE DEF q
<1> QED
    BY <1>2, <1>3, <1>4 DEF Moved

LEMMA DeleteInv ==
    ASSUME CollectionInv, NEW j \in Jobs, Delete(j)
    PROVE  /\ CollectionInv'
           /\ \A i \in Ids : storage'[i] # 0 => storage'[i] >= storage[i]
<1>1. /\ TypeOK /\ Shared /\ job[j].pc = "storing" /\ job[j] \in Job
      /\ UNCHANGED <<mode, server, rev, cache, synced, polling, syncInFlight, extras, seen, disturbed>>
    BY SharedHolds DEF CollectionInv, Delete, TypeOK
<1>2. PICK q \in Job, i \in job[j].gone :
             /\ Moved(j, q) /\ q.pc = "storing" /\ q.start = job[j].start
             /\ q.items = job[j].items /\ q.todo = job[j].todo /\ q.gone = job[j].gone \ {i}
             /\ storage' = [storage EXCEPT ![i] = 0]
    BY <1>1, DeleteFacts
<1>3. OthersIdle(j) /\ Sole(job[j])
    BY <1>1, Focus
<1>4. i \in Ids /\ q.items \in Seq(Item) /\ server \in Seq(Item) /\ rev \in Nat
    BY <1>1, <1>2, JobFields, Constants DEF TypeOK
<1>5. /\ storage \in [Ids -> 0..MaxRev] /\ storage' \in [Ids -> 0..MaxRev]
      /\ storage'[i] = 0 /\ \A k \in Ids : k # i => storage'[k] = storage[k]
    BY <1>1, <1>2, <1>4, Constants DEF TypeOK
<1>6. ASSUME NEW k \in Ids PROVE storage'[k] <= storage[k] /\ storage'[k] \in Nat /\ storage[k] \in Nat
    BY <1>5
<1>7. TypeOK'
    BY <1>1, <1>2, <1>5, TypeStep, Flags DEF TypeOK
<1>8. ASSUME NEW list \in Seq(Item), NotStale(list) PROVE NotStale(list)'
    <2> SUFFICES ASSUME NEW k \in DOMAIN list PROVE storage'[list[k].id] <= list[k].v
        BY DEF NotStale
    <2>1. list[k].id \in Ids /\ list[k].v \in Nat
        BY Elements
    <2>2. storage[list[k].id] <= list[k].v
        BY <1>8 DEF NotStale
    <2> QED
        BY <1>6, <2>1, <2>2
<1>9. Shared'
    <2>1. ASSUME NEW k \in Ids PROVE storage'[k] <= rev
        <3>1. storage[k] <= rev
            BY <1>1 DEF Shared
        <3> QED
            BY <1>4, <1>6, <3>1
    <2>2. PICK list \in Seq(Item) : list = server
        BY <1>4
    <2>3. NotStale(server)'
        BY <1>1, <1>8, <2>2 DEF Shared
    <2> QED
        BY <1>1, <2>1, <2>3 DEF Shared, Older, SeenKept, Snapshot, Distinct, Covers, Fits
<1>10. Sole(q)'
    <2>1. Fetch(q)
        BY <1>1, <1>2, <1>3 DEF Sole, Fetch
    <2>2. Fetch(q)'
        BY <1>1, <2>1 DEF Fetch, Covers, Fits
    <2>3. Older(q.items)'
        BY <1>1, <1>2, <1>3 DEF Older, Sole
    <2>4. ASSUME ~disturbed PROVE NotStale(q.items)' /\ StoredSoFar(q)'
        <3>1. StoredSoFar(job[j]) /\ NotStale(q.items) /\ i \notin IdsOf(q.items)
            BY <1>1, <1>2, <1>3, <2>4 DEF Sole, StoredSoFar
        <3>2. NotStale(q.items)'
            BY <1>4, <1>8, <3>1
        <3>3. ASSUME NEW k \in DOMAIN q.items, q.items[k].id \notin IdsOf(q.todo) PROVE storage'[q.items[k].id] = q.items[k].v
            <4>1. q.items[k].id # i /\ q.items[k].id \in Ids
                BY <1>4, <3>1, Elements DEF IdsOf
            <4>2. storage[q.items[k].id] = q.items[k].v
                BY <1>2, <3>1, <3>3 DEF StoredSoFar
            <4> QED
                BY <1>5, <4>1, <4>2
        <3>4. ASSUME NEW k \in Ids \ (IdsOf(q.items) \cup q.gone) PROVE storage'[k] = 0
            <4>1. CASE k = i
                BY <1>5, <4>1
            <4>2. CASE k # i
                BY <1>2, <1>5, <3>1, <3>4, <4>2 DEF StoredSoFar
            <4> QED
                BY <4>1, <4>2
        <3>5. Distinct(q.items) /\ q.gone \cap IdsOf(q.items) = {}
            BY <1>2, <3>1 DEF StoredSoFar
        <3> QED
            BY <3>2, <3>3, <3>4, <3>5 DEF StoredSoFar
    <2>5. ~disturbed => cache \in {0, q.start}
        BY <1>1, <1>2, <1>3 DEF Sole
    <2> QED
        BY <1>1, <1>2, <2>2, <2>3, <2>4, <2>5 DEF Sole
<1>11. CollectionInv'
    BY <1>1, <1>2, <1>3, <1>7, <1>9, <1>10, StepOfOne DEF OthersIdle
<1>12. ASSUME NEW k \in Ids, storage'[k] # 0 PROVE storage'[k] >= storage[k]
    BY <1>5, <1>6, <1>12
<1> QED
    BY <1>11, <1>12

-----------------------------------------------------------------------------
(* The server's list changes, and the rest. *)

\* Whatever changes, an item of the new list is new at this revision or was on
\* the old list.
LEMMA ServerChangeFacts ==
    ASSUME TypeOK, ServerChange
    PROVE  /\ server' \in Seq(Item) /\ Distinct(server')
           /\ \A k \in DOMAIN server' :
                 \/ server'[k].v = rev + 1
                 \/ \E l \in DOMAIN server : server'[k] = server[l]
<1>1. /\ server \in Seq(Item) /\ Distinct(server) /\ rev' = rev + 1 /\ rev + 1 \in 1..MaxRev
      /\ Len(server) \in Nat /\ DOMAIN server = 1..Len(server)
    <2>1. server \in Seq(Item) /\ Distinct(server) /\ rev \in 1..MaxRev /\ rev < MaxRev /\ rev' = rev + 1
        BY DEF TypeOK, ServerChange
    <2>2. Len(server) \in Nat /\ DOMAIN server = 1..Len(server)
        BY <2>1
    <2> QED
        BY <2>1, <2>2, Constants
<1>2. CASE \E i \in Ids \ IdsOf(server) : server' = <<[id |-> i, v |-> rev']>> \o server
    <2>1. PICK i \in Ids \ IdsOf(server) : server' = <<[id |-> i, v |-> rev']>> \o server
        BY <1>2
    <2>2. PICK h \in Item : h = [id |-> i, v |-> rev'] /\ h.id = i /\ h.v = rev + 1
        <3>1. rev + 1 \in 1..MaxRev /\ rev' = rev + 1
            BY <1>1
        <3>2. [id |-> i, v |-> rev'] \in Item
            BY <3>1 DEF Item
        <3> QED
            BY <3>1, <3>2
    <2>3. /\ server' \in Seq(Item) /\ Len(server') = Len(server) + 1 /\ server'[1] = h
          /\ DOMAIN server' = 1..(Len(server) + 1)
          /\ \A k \in 2..(Len(server) + 1) : server'[k] = server[k - 1] /\ k - 1 \in DOMAIN server
        BY <1>1, <2>1, <2>2
    <2>4. ASSUME NEW k \in DOMAIN server'
          PROVE  \/ k = 1 /\ server'[k] = h
                 \/ k # 1 /\ k - 1 \in DOMAIN server /\ server'[k] = server[k - 1] /\ server'[k].id # h.id
        BY <1>1, <2>2, <2>3 DEF IdsOf
    <2>5. Distinct(server')
        <3> SUFFICES ASSUME NEW k \in DOMAIN server', NEW l \in DOMAIN server', server'[k].id = server'[l].id
                     PROVE  k = l
            BY DEF Distinct
        <3>1. CASE k = 1 \/ l = 1
            BY <2>4, <3>1
        <3>2. CASE k # 1 /\ l # 1
            <4>1. k - 1 = l - 1
                BY <1>1, <2>4, <3>2 DEF Distinct
            <4> QED
                BY <1>1, <2>3, <4>1
        <3> QED
            BY <3>1, <3>2
    <2> QED
        BY <2>2, <2>3, <2>4, <2>5
<1>3. CASE \E k \in DOMAIN server : server' = [server EXCEPT ![k].v = rev']
    <2>1. PICK m \in DOMAIN server : server' = [server EXCEPT ![m].v = rev']
        BY <1>3
    <2>2. server[m] \in Item
        BY <1>1, Elements
    <2>3. PICK h \in Item : h = [server[m] EXCEPT !.v = rev'] /\ h.id = server[m].id /\ h.v = rev + 1
        <3> DEFINE r == [server[m] EXCEPT !.v = rev']
        <3>1. rev + 1 \in 1..MaxRev /\ rev' = rev + 1
            BY <1>1
        <3>2. r \in Item /\ r.id = server[m].id /\ r.v = rev + 1
            BY <2>2, <3>1 DEF Item
        <3> HIDE DEF r
        <3>3. r = [server[m] EXCEPT !.v = rev']
            BY DEF r
        <3> QED
            BY <3>2, <3>3, Zenon
    <2>4. server' = [server EXCEPT ![m] = h]
        BY <2>1, <2>3
    <2>5. /\ server' \in Seq(Item) /\ DOMAIN server' = DOMAIN server
          /\ server'[m] = h /\ \A k \in DOMAIN server : k # m => server'[k] = server[k]
        BY <1>1, <2>4
    <2>6. \A k \in DOMAIN server : server'[k].id = server[k].id
        BY <2>3, <2>5
    <2>7. Distinct(server')
        BY <1>1, <2>5, <2>6 DEF Distinct
    <2> QED
        BY <2>3, <2>5, <2>7
<1>4. CASE \E k \in DOMAIN server :
             server' = SubSeq(server, 1, k - 1) \o SubSeq(server, k + 1, Len(server))
    <2>1. PICK m \in DOMAIN server :
             server' = SubSeq(server, 1, m - 1) \o SubSeq(server, m + 1, Len(server))
        BY <1>4
    <2>2. m \in 1..Len(server) /\ Len(server) - 1 \in Nat
        BY <1>1
    <2> DEFINE a == SubSeq(server, 1, m - 1)
               b == SubSeq(server, m + 1, Len(server))
    <2>3. /\ a \in Seq(Item) /\ Len(a) = m - 1 /\ \A k \in 1..(m - 1) : a[k] = server[k]
          /\ b \in Seq(Item) /\ Len(b) = Len(server) - m
          /\ \A k \in 1..(Len(server) - m) : b[k] = server[m + k]
        <3>1. m - 1 \in Nat /\ m - 1 <= Len(server) /\ m \in Nat
            BY <1>1, <2>2
        <3>2. a \in Seq(Item) /\ Len(a) = m - 1 /\ \A k \in 1..(m - 1) : a[k] = server[k]
            BY <1>1, <3>1
        <3>3. /\ b \in Seq(Item)
              /\ Len(b) = IF m + 1 <= Len(server) THEN Len(server) - (m + 1) + 1 ELSE 0
              /\ \A k \in 1..Len(b) : b[k] = server[(m + 1) + k - 1]
            BY <1>1, <3>1
        <3>4. Len(b) = Len(server) - m
            BY <1>1, <2>2, <3>3
        <3>5. ASSUME NEW k \in 1..(Len(server) - m) PROVE b[k] = server[m + k]
            <4>1. (m + 1) + k - 1 = m + k
                BY <3>1
            <4> QED
                BY <3>3, <3>4, <4>1
        <3> HIDE DEF a, b
        <3> QED
            BY <3>2, <3>3, <3>4, <3>5
    <2> HIDE DEF a, b
    <2>4. server' = a \o b
        BY <2>1 DEF a, b
    <2>5. a \o b \in Seq(Item) /\ Len(a \o b) = Len(a) + Len(b) /\ DOMAIN (a \o b) = 1..Len(a \o b)
        <3>1. a \in Seq(Item) /\ b \in Seq(Item)
            BY <2>3
        <3> QED
            BY <3>1
    <2>6. DOMAIN server' = 1..(Len(server) - 1)
        <3>1. Len(a) + Len(b) = Len(server) - 1
            BY <1>1, <2>2, <2>3
        <3> QED
            BY <2>4, <2>5, <3>1
    <2>7. ASSUME NEW k \in DOMAIN server'
          PROVE  /\ k < m => k \in DOMAIN server /\ server'[k] = server[k]
                 /\ k >= m => k + 1 \in DOMAIN server /\ server'[k] = server[k + 1]
        <3>1. ASSUME k < m PROVE k \in DOMAIN server /\ server'[k] = server[k]
            <4>1. k \in 1..(m - 1) /\ k \in DOMAIN server
                BY <1>1, <2>2, <2>6, <3>1
            <4>2. a \in Seq(Item) /\ b \in Seq(Item) /\ k \in 1..Len(a)
                BY <2>3, <4>1
            <4>3. (a \o b)[k] = a[k]
                BY <4>2
            <4> QED
                BY <2>3, <2>4, <4>1, <4>3
        <3>2. ASSUME k >= m PROVE k + 1 \in DOMAIN server /\ server'[k] = server[k + 1]
            <4>1. (a \o b)[k] = b[k - (m - 1)] /\ k - (m - 1) \in 1..(Len(server) - m)
                BY <1>1, <2>2, <2>3, <2>6, <3>2
            <4>2. m + (k - (m - 1)) = k + 1 /\ k + 1 \in DOMAIN server
                BY <1>1, <2>2, <2>6
            <4> QED
                BY <2>3, <2>4, <4>1, <4>2
        <3> QED
            BY <3>1, <3>2
    <2>8. ASSUME NEW k \in DOMAIN server' PROVE k \in Nat /\ (k < m \/ k >= m)
        BY <1>1, <2>2, <2>6
    <2>9. Distinct(server')
        <3> SUFFICES ASSUME NEW k \in DOMAIN server', NEW l \in DOMAIN server', server'[k].id = server'[l].id
                     PROVE  k = l
            BY DEF Distinct
        <3>1. PICK k1 \in DOMAIN server : server'[k] = server[k1] /\ k1 = IF k < m THEN k ELSE k + 1
            BY <2>7, <2>8
        <3>2. PICK l1 \in DOMAIN server : server'[l] = server[l1] /\ l1 = IF l < m THEN l ELSE l + 1
            BY <2>7, <2>8
        <3>3. k1 = l1
            BY <1>1, <3>1, <3>2 DEF Distinct
        <3> QED
            BY <2>2, <2>8, <3>1, <3>2, <3>3
    <2> QED
        BY <2>4, <2>5, <2>7, <2>8, <2>9
<1> QED
    BY <1>2, <1>3, <1>4 DEF ServerChange

LEMMA ServerChangeInv ==
    ASSUME CollectionInv, ServerChange
    PROVE  CollectionInv'
<1>1. /\ TypeOK /\ rev' = rev + 1 /\ rev < MaxRev /\ rev \in Nat /\ rev > 0 /\ cache \in Nat /\ seen \in Nat
      /\ UNCHANGED <<mode, cache, synced, storage, job, polling, syncInFlight, extras, seen, disturbed>>
    BY Constants DEF CollectionInv, ServerChange, TypeOK
<1>2. PICK new \in Seq(Item) :
         /\ server' = new /\ Distinct(new)
         /\ \A k \in DOMAIN new : new[k].v = rev + 1 \/ \E l \in DOMAIN server : new[k] = server[l]
    BY <1>1, ServerChangeFacts
<1>3. TypeOK'
    <2>1. rev' \in 1..MaxRev /\ {polling', syncInFlight', disturbed'} \subseteq BOOLEAN
        BY <1>1, Constants DEF TypeOK
    <2> QED
        BY <1>1, <1>2, <2>1 DEF TypeOK
<1>4. Alone'
    BY <1>1 DEF CollectionInv, Alone
<1>5. Versions'
    <2>1. /\ \A i \in Ids : storage[i] <= rev /\ storage[i] \in Nat
          /\ Older(server) /\ NotStale(server)
        BY <1>1 DEF CollectionInv, Versions, TypeOK
    <2>2. ASSUME NEW k \in DOMAIN new PROVE new[k].v <= rev + 1 /\ storage[new[k].id] <= new[k].v
        <3>1. new[k].id \in Ids /\ new[k].v \in Nat
            BY Elements
        <3>2. CASE new[k].v = rev + 1
            BY <1>1, <2>1, <3>1, <3>2
        <3>3. CASE \E l \in DOMAIN server : new[k] = server[l]
            BY <1>1, <2>1, <3>1, <3>3 DEF Older, NotStale
        <3> QED
            BY <1>2, <3>2, <3>3
    <2>3. Older(server)'
        <3>1. ASSUME NEW k \in DOMAIN new, NEW l \in DOMAIN new, new[l].id = new[k].id PROVE new[k].v <= new[l].v
            <4>1. k = l /\ new[k].v \in Nat
                BY <1>2, <3>1, Elements DEF Distinct
            <4> QED
                BY <4>1
        <3> QED
            BY <1>1, <1>2, <2>2, <3>1 DEF Older
    <2>4. NotStale(server)'
        BY <1>1, <1>2, <2>2 DEF NotStale
    <2>5. ASSUME NEW j \in Jobs PROVE Older(job[j].items)'
        <3>1. PICK list \in Seq(Item) : list = job[j].items
            BY <1>1, JobFields DEF TypeOK
        <3>2. Older(list)
            BY <3>1 DEF CollectionInv, Versions
        <3>3. ASSUME NEW k \in DOMAIN list
              PROVE  /\ list[k].v <= rev + 1
                     /\ \A l \in DOMAIN new : new[l].id = list[k].id => list[k].v <= new[l].v
            <4>1. list[k].v \in Nat /\ list[k].v <= rev
                BY <3>2, Elements DEF Older
            <4>2. ASSUME NEW l \in DOMAIN new, new[l].id = list[k].id PROVE list[k].v <= new[l].v
                <5>1. CASE new[l].v = rev + 1
                    BY <1>1, <4>1, <5>1
                <5>2. CASE \E m \in DOMAIN server : new[l] = server[m]
                    BY <3>2, <4>2, <5>2 DEF Older
                <5> QED
                    BY <1>2, <5>1, <5>2
            <4> QED
                BY <1>1, <4>1, <4>2
        <3> QED
            BY <1>1, <1>2, <3>1, <3>3 DEF Older
    <2>6. ASSUME ~disturbed', NEW j \in Jobs PROVE NotStale(job[j].items)'
        BY <1>1, <2>6 DEF CollectionInv, Versions, NotStale
    <2>7. ASSUME NEW i \in Ids PROVE storage'[i] <= rev'
        BY <1>1, <2>1
    <2> QED
        BY <2>3, <2>4, <2>5, <2>6, <2>7 DEF Versions
<1>6. Fetching'
    <2> SUFFICES ASSUME NEW j \in Jobs PROVE Fetch(job[j])'
        BY DEF Fetching
    <2>1. PICK q \in Job : q = job[j]
        BY <1>1 DEF TypeOK
    <2>2. Fetch(q) /\ q.start \in Nat
        BY <2>1, JobFields DEF CollectionInv, Fetching
    <2>3. q.pc \notin {"idle", "asking"} => q.start # rev + 1 /\ q.start \in 1..(rev + 1)
        BY <1>1, <2>2 DEF Fetch
    <2>4. Fetch(q)'
        BY <1>1, <2>2, <2>3 DEF Fetch
    <2> QED
        BY <1>1, <2>1, <2>4
<1>7. CacheKept'
    BY <1>1 DEF CollectionInv, CacheKept, Storing
<1>8. StorageKept'
    BY <1>1 DEF CollectionInv, StorageKept, StoredIs, StoredSoFar, Snapshot, IdsOf, Distinct
<1>9. SeenKept'
    BY <1>1 DEF CollectionInv, SeenKept
<1> QED
    BY <1>3, <1>4, <1>5, <1>6, <1>7, <1>8, <1>9 DEF CollectionInv

LEMMA RestInv ==
    ASSUME CollectionInv, StopPolling \/ UNCHANGED vars
    PROVE  CollectionInv'
<1>1. UNCHANGED <<mode, server, rev, cache, synced, storage, job, syncInFlight, extras, seen, disturbed>>
    BY DEF StopPolling, vars
<1>2. polling' \in BOOLEAN
    BY Flags DEF CollectionInv, StopPolling, vars
<1>3. TypeOK'
    <2>1. {polling', syncInFlight', disturbed'} \subseteq BOOLEAN
        BY <1>1, <1>2, Flags DEF CollectionInv
    <2> QED
        BY <1>1, <2>1 DEF CollectionInv, TypeOK
<1>4. Alone' /\ Versions'
    BY <1>1 DEF CollectionInv, Alone, Versions, Older, NotStale
<1>5. Fetching'
    BY <1>1 DEF CollectionInv, Fetching, Fetch, Covers, Fits
<1>6. CacheKept' /\ SeenKept'
    BY <1>1 DEF CollectionInv, CacheKept, Storing, SeenKept, Covers, Fits
<1>7. StorageKept'
    BY <1>1 DEF CollectionInv, StorageKept, StoredIs, StoredSoFar, Snapshot, IdsOf, Distinct
<1> QED
    BY <1>3, <1>4, <1>5, <1>6, <1>7 DEF CollectionInv

LEMMA InitInv ==
    Init => CollectionInv
<1> SUFFICES ASSUME Init PROVE CollectionInv
    OBVIOUS
<1>1. Initial \in Seq(Ids) /\ \A k, l \in DOMAIN Initial : Initial[k] = Initial[l] => k = l
    BY CollectionAssumption
<1>2. /\ server = [k \in DOMAIN Initial |-> [id |-> Initial[k], v |-> 1]]
      /\ DOMAIN Initial = 1..Len(Initial) /\ Len(Initial) \in Nat
      /\ \A k \in DOMAIN Initial : [id |-> Initial[k], v |-> 1] \in Item
    BY <1>1, Constants DEF Init, Item
<1>3. server \in Seq(Item) /\ DOMAIN server = DOMAIN Initial
    BY <1>2
<1>4. \A k \in DOMAIN server : server[k].id = Initial[k] /\ server[k].v = 1
    BY <1>2
<1>5. Distinct(server)
    BY <1>1, <1>3, <1>4 DEF Distinct
<1>6. \A j \in Jobs : job[j] = Idle
    BY DEF Init
<1>7. TypeOK
    <2>1. job \in [Jobs -> Job] /\ \A j \in Jobs : job[j].pc = "idle" <=> job[j] = Idle
        BY <1>6, IdleFacts DEF Init
    <2>2. {polling, syncInFlight, disturbed} \subseteq BOOLEAN
        BY DEF Init
    <2>3. /\ rev \in 1..MaxRev /\ cache \in 0..MaxRev /\ seen \in 0..MaxRev /\ extras \in 0..MaxExtras
          /\ synced \in Seq(Seq(Item)) /\ Len(synced) <= 1 /\ storage \in [Ids -> 0..MaxRev] /\ mode \in Modes
        BY Constants DEF Init
    <2> QED
        BY <1>3, <1>5, <2>1, <2>2, <2>3 DEF TypeOK
<1>8. Alone
    BY <1>6, IdleFacts DEF Alone
<1>9. Versions
    <2>1. Older(server) /\ NotStale(server)
        <3>1. rev = 1 /\ \A i \in Ids : storage[i] = 0
            BY DEF Init
        <3>2. \A k \in DOMAIN server : server[k].id \in Ids
            BY <1>3, Elements
        <3>3. NotStale(server)
            BY <1>4, <3>1, <3>2 DEF NotStale
        <3>4. Older(server)
            BY <1>4, <3>1 DEF Older
        <3> QED
            BY <3>3, <3>4
    <2>2. \A i \in Ids : storage[i] <= rev
        <3>1. rev = 1 /\ \A i \in Ids : storage[i] = 0
            BY DEF Init
        <3>2. 0 <= 1
            OBVIOUS
        <3> QED
            BY <3>1, <3>2, Zenon
    <2>3. \A j \in Jobs : Older(job[j].items) /\ NotStale(job[j].items)
        BY <1>6, IdleFacts DEF Older, NotStale
    <2> QED
        BY <2>1, <2>2, <2>3 DEF Versions
<1>10. Fetching
    BY <1>6, IdleFacts DEF Fetching, Fetch
<1>11. CacheKept
    BY <1>6, IdleFacts DEF Init, CacheKept, Storing
<1>12. StorageKept
    BY <1>6, IdleFacts DEF Init, StorageKept, StoredIs, Snapshot, Distinct
<1>13. SeenKept
    BY DEF Init, SeenKept
<1> QED
    BY <1>7, <1>8, <1>9, <1>10, <1>11, <1>12, <1>13 DEF CollectionInv

-----------------------------------------------------------------------------
(* The theorems. *)

\* Every step of the client and of the server keeps the invariant.
LEMMA NextInv ==
    ASSUME CollectionInv, [Next]_vars
    PROVE  CollectionInv'
<1>1. CASE ServerChange
    BY <1>1, ServerChangeInv
<1>2. CASE StopPolling \/ UNCHANGED vars
    BY <1>2, RestInv
<1>3. ASSUME NEW j \in Jobs, ManualSync(j) \/ Tick(j) \/ SyncStep(j) \/ Fail(j)
      PROVE  CollectionInv'
    <2>1. CASE ManualSync(j) \/ Tick(j)
        BY <2>1, BeginInv
    <2>2. CASE Fail(j)
        BY <2>2, FailInv
    <2>3. CASE Answer(j)
        BY <2>3, AnswerInv
    <2>4. CASE NotModified(j)
        BY <2>4, NotModifiedInv
    <2>5. CASE Headers(j)
        BY <2>5, HeadersInv
    <2>6. CASE FetchPage(j)
        BY <2>6, FetchPageInv
    <2>7. CASE Compare(j)
        BY <2>7, CompareChangedInv, CompareSameInv
    <2>8. CASE Put(j)
        BY <2>8, PutInv
    <2>9. CASE Delete(j)
        BY <2>9, DeleteInv
    <2>10. CASE Finish(j)
        BY <2>10, FinishInv
    <2> QED
        BY <1>3, <2>1, <2>2, <2>3, <2>4, <2>5, <2>6, <2>7, <2>8, <2>9, <2>10 DEF SyncStep
<1> QED
    BY <1>1, <1>2, <1>3 DEF Next

\* The invariant holds in every behaviour of performSync, startPolling and the
\* server, for any number of syncs, items, pages and revisions.
THEOREM CollectionInvariant ==
    Spec => []CollectionInv
<1>1. Init => CollectionInv
    BY InitInv
<1>2. CollectionInv /\ [Next]_vars => CollectionInv'
    BY NextInv
<1> QED
    BY <1>1, <1>2, PTL DEF Spec

\* After a sync that nothing disturbed and that saw the server's last change,
\* performSync has left local storage a mirror of the list: the comparison with
\* the last snapshot, the validators kept and the page walk lose nothing.
THEOREM MirrorsAfterSync ==
    Spec => []SyncMirrors
<1>1. CollectionInv => SyncMirrors
    <2> SUFFICES ASSUME CollectionInv, Quiet, seen = rev, ~disturbed, Covers PROVE Mirrors
        BY DEF SyncMirrors, Covers
    <2>1. synced = <<server>> /\ server \in Seq(Item)
        BY DEF CollectionInv, SeenKept, TypeOK
    <2>2. Snapshot = server
        BY <2>1 DEF Snapshot
    <2>3. StoredIs(server)
        BY <2>2 DEF CollectionInv, StorageKept, Quiet
    <2>4. ASSUME NEW i \in IdsOf(server)
          PROVE  \E k \in DOMAIN server : server[k].id = i /\ storage[i] = server[k].v
        BY <2>3 DEF StoredIs, IdsOf
    <2> QED
        BY <2>3, <2>4 DEF Mirrors, StoredIs
<1> QED
    BY <1>1, CollectionInvariant, PTL

\* As long as nothing disturbed the syncs (a user's sync() over another one, a
\* failure half way, an item seen twice in a walk), no storage.put of
\* performSync takes an item in local storage back to an older version.
THEOREM VersionsAdvance ==
    Spec => NoItemGoesBack
<1>1. ASSUME CollectionInv, [Next]_vars, ~disturbed, NEW i \in Ids, storage'[i] # 0
      PROVE  storage'[i] >= storage[i]
    <2>1. CASE \E j \in Jobs : Put(j)
        BY <1>1, <2>1, PutInv
    <2>2. CASE \E j \in Jobs : Delete(j)
        BY <1>1, <2>2, DeleteInv
    <2>3. CASE UNCHANGED storage
        <3>1. storage[i] \in Nat
            BY <1>1 DEF CollectionInv, TypeOK
        <3> QED
            BY <2>3, <3>1
    <2>4. \/ \E j \in Jobs : Put(j) \/ Delete(j)
          \/ UNCHANGED storage
        BY <1>1 DEF Next, vars, ServerChange, StopPolling, ManualSync, Tick, SyncStep, Fail, Answer,
                    NotModified, Headers, FetchPage, Compare, Finish
    <2> QED
        BY <2>1, <2>2, <2>3, <2>4
<1>2. CollectionInv /\ [Next]_vars =>
          [~disturbed => \A i \in Ids : storage'[i] # 0 => storage'[i] >= storage[i]]_vars
    BY <1>1
<1> QED
    BY <1>2, CollectionInvariant, PTL DEF Spec, NoItemGoesBack

=============================================================================
