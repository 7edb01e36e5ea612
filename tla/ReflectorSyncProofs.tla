------------------------- MODULE ReflectorSyncProofs -------------------------
(***************************************************************************)
(* Proofs about the write path of the API client and the engine on top of  *)
(* it: the client lists every unconfirmed write and sends the writes of a  *)
(* record in order, its copies agree with the server's once everything is  *)
(* confirmed, the engine's "synced" means confirmed and "failed" rolled    *)
(* back, whatever the number of ids, users, drains, polls and writes.      *)
(***************************************************************************)
EXTENDS ReflectorSync, SequenceTheorems, TLAPS

-----------------------------------------------------------------------------
(* The inductive invariant. *)

Running(d) == drain[d].pc # "off"
Sent(d) == drain[d].pc \in {"ok", "cleared", "stored"}

\* writeQueues, the draining set and the running drains belong together: no
\* array is filed under two ids, empty or without its drain, and each drain
\* works on the head of the queue filed under its own key.
Filed ==
    /\ \A i \in Ids : queueAt[i] # 0 <=> i \in draining
    /\ \A i \in Ids : queueAt[i] # 0 => heap[queueAt[i]] # <<>>
    /\ \A i, j \in Ids : queueAt[i] # 0 /\ queueAt[i] = queueAt[j] => i = j
    /\ \A d \in Drains : Running(d) =>
          /\ drain[d].key \in draining
          /\ drain[d].array = queueAt[drain[d].key]
          /\ drain[d].item = Head(heap[drain[d].array])
    /\ \A d, e \in Drains : Running(d) /\ Running(e) /\ drain[d].key = drain[e].key => d = e

\* A queue holds writes to its own id, oldest first, none of them older than
\* what the server applied or as old as what was given up.
InOrder(s, i, least, above) ==
    /\ \A j \in DOMAIN s : s[j].id = i /\ least <= s[j].n /\ above < s[j].n
    /\ \A j, l \in DOMAIN s : l < j => s[l].n < s[j].n
Ordered(i) == InOrder(Queue(i), i, newest[i], gaveUp[i])

\* The write that is queued or given up under an id was made to that id, or,
\* under an id that the server assigned, to the one its create had before.
Numbers(s) == {s[j].n : j \in DOMAIN s}
Held(i, n) == gaveUp[i] = n \/ n \in Numbers(Queue(i))
Origins ==
    /\ \A n \in DOMAIN writes : writes[n].id \in KnownIds
    /\ \A i \in KnownIds : \A n \in DOMAIN writes : Held(i, n) => writes[n].id = i
    /\ \A i \in Ids : \A n, m \in DOMAIN writes :
          Held(i, n) /\ Held(i, m) => writes[n].id = writes[m].id

\* Nothing is known under an id that is neither the users' nor used.
Fresh ==
    /\ Existing \subseteq used
    /\ \A i \in Ids \ KnownIds :
          i \notin used => newest[i] = 0 /\ gaveUp[i] = 0 /\ Queue(i) = <<>>
    /\ setting.keepsIds =>
          /\ used \subseteq KnownIds
          /\ \A i \in Ids \ KnownIds :
                local[i] = Absent /\ server[i] = Absent /\ sync.items[i] = Absent
    /\ \A c \in Callers : call[c] # NoCall => call[c].id \in KnownIds

\* A create about to move its queue finds no other under the new id.
Moving(d) == Sent(d) /\ drain[d].to # drain[d].key
Targets ==
    /\ \A d \in Drains : Moving(d) =>
          /\ drain[d].to \in used \ KnownIds
          /\ Queue(drain[d].to) = <<>> /\ gaveUp[drain[d].to] = 0
          /\ newest[drain[d].to] <= drain[d].item.n
    /\ \A d, e \in Drains : Moving(d) /\ Moving(e) /\ drain[d].to = drain[e].to => d = e

Unlimited == ~setting.givesUp => \A i \in Ids : gaveUp[i] = 0

Pending ==
    \A n \in DOMAIN writes :
        \/ n \in confirmed \/ \E i \in Ids : Held(i, n)
        \/ /\ setting.givesUp
           /\ \E m \in DOMAIN writes : m > n /\ writes[m].id = writes[n].id

Sorted == \A i \in Ids : Ordered(i)
Core == Filed /\ Sorted /\ Origins /\ Fresh /\ Targets /\ Unlimited /\ Pending
CoreInv == EngineTypeOK /\ (StableIds => Core)

\* A write to i was given up.
LostAt(i) ==
    \E n \in DOMAIN writes :
        writes[n].id = i /\ n \notin confirmed /\ n \notin Numbers(Queue(i))

\* A write to i is stored and not queued yet.
Calling(i) == \E c \in Callers : call[c].pc = "queue" /\ call[c].id = i

\* While none was given up, local storage and the server differ only by what is
\* queued or about to be.
Agrees(i) ==
    /\ Queue(i) = <<>> /\ ~Calling(i) => local[i] = server[i]
    /\ \A d \in Drains : Sent(d) /\ drain[d].key = i =>
          /\ server[i] = IF TypeOf(d) = "delete" THEN Absent ELSE DataOf(d)
          /\ Len(Queue(i)) = 1 /\ (drain[d].pc = "stored" \/ TypeOf(d) = "delete") /\ ~Calling(i) =>
                local[i] = server[i]

Unconfirmed == \A i \in Ids : \A n \in DOMAIN writes : Held(i, n) => n \notin confirmed
AgreeOn == Unconfirmed /\ \A i \in Ids : LostAt(i) \/ Agrees(i)

CopiesInv ==
    setting.keepsIds /\ setting.syncs = 0 =>
        /\ ~sync.on
        /\ AgreeOn
        /\ \A p \in Polls : poll[p] # NoPoll => LostAt(IdOf(poll[p].undo))

\* The snapshot of a change is kept while the change is in flight, and a poll
\* that no other overlaps restores it.
Snapshots ==
    \A n \in DOMAIN changes :
        /\ changes[n].kept <=> changes[n].state = "syncing"
        /\ writes[n].type = "create" => changes[n].before = Absent

Undoing(p) ==
    /\ poll[p].undo \in Syncing(changes)
    /\ poll[p].todo \subseteq Syncing(changes)
    /\ poll[p].undo \notin poll[p].todo
    /\ poll[p].value = changes[poll[p].undo].before

Creating == \A c \in Callers : call[c].type = "create" => call[c].before = Absent

PollsInv ==
    /\ Snapshots
    /\ Creating
    /\ ~overlapped =>
          /\ \A p, q \in Polls : poll[p] # NoPoll /\ poll[q] # NoPoll => p = q
          /\ \A p \in Polls : poll[p] # NoPoll => Undoing(p)

\* A record changed once is left alone from the moment its write is given up.
RestoredInv ==
    StableIds /\ setting.syncs = 0 /\ ~overlapped =>
        /\ ~sync.on
        /\ \A p \in Polls : poll[p] # NoPoll /\ Sole(poll[p].undo) =>
              Queue(IdOf(poll[p].undo)) = <<>>
        /\ \A n \in DOMAIN changes : changes[n].state = "failed" /\ Sole(n) =>
              Queue(IdOf(n)) = <<>> /\ local[IdOf(n)] = changes[n].before

-----------------------------------------------------------------------------
(* Types. *)

\* More writes and more arrays leave a drain well typed.
LEMMA DrainSetGrows ==
  ASSUME NEW I, NEW J, NEW A, NEW B, I \subseteq J, A \subseteq B
  PROVE  DrainSet(I, A) \subseteq DrainSet(J, B)
BY DEF DrainSet

LEMMA SeqGrows ==
  ASSUME NEW I, NEW J, I \subseteq J
  PROVE  /\ Seq(I) \subseteq Seq(J)
         /\ Seq(Seq(I)) \subseteq Seq(Seq(J))
<1>1. Seq(I) \subseteq Seq(J)
  BY SeqMonotonic
<1> QED
  BY <1>1, SeqMonotonic

\* The loop of drainQueue keeps the types of the queues it is given.
LEMMA LoopTopTypes ==
  ASSUME NEW I, NEW d \in Drains, NEW k \in Ids, NEW h \in Seq(Seq(I)),
         NEW at \in [Ids -> 0..Len(h)], NEW busy \in SUBSET Ids,
         drain \in [Drains -> DrainSet(I, DOMAIN h)],
         LoopTop(d, k, h, at, busy)
  PROVE  /\ heap' \in Seq(Seq(I))
         /\ queueAt' \in [Ids -> 0..Len(heap')]
         /\ draining' \subseteq Ids
         /\ drain' \in [Drains -> DrainSet(I, DOMAIN heap')]
<1>1. heap' = h /\ Len(h) \in Nat /\ DOMAIN h = 1..Len(h)
  BY LenProperties DEF LoopTop
<1>2. CASE at[k] = 0 \/ h[at[k]] = <<>>
  <2>1. /\ drain' = [drain EXCEPT ![d] = Off]
        /\ queueAt' = [at EXCEPT ![k] = 0]
        /\ draining' = busy \ {k}
    BY <1>2 DEF LoopTop
  <2>2. Off \in DrainSet(I, DOMAIN h)
    BY DEF DrainSet
  <2> QED
    BY <1>1, <2>1, <2>2
<1>3. CASE ~(at[k] = 0 \/ h[at[k]] = <<>>)
  <2> DEFINE r == [pc |-> "sending", key |-> k, array |-> at[k],
                   item |-> Head(h[at[k]]), to |-> Absent]
  <2>1. drain' = [drain EXCEPT ![d] = r] /\ queueAt' = at /\ draining' = busy
    BY <1>3 DEF LoopTop
  <2>2. at[k] \in DOMAIN h /\ h[at[k]] \in Seq(I) /\ h[at[k]] # <<>>
    BY <1>1, <1>3, ElementOfSeq
  <2>3. Head(h[at[k]]) \in I
    BY <2>2, HeadTailProperties
  <2>4. r \in DrainSet(I, DOMAIN h)
    BY <2>2, <2>3 DEF DrainSet
  <2> QED
    BY <1>1, <2>1, <2>4
<1> QED
  BY <1>2, <1>3

LEMMA EnqueueTypes ==
  ASSUME NEW I, NEW n \in Nat, NEW i \in Ids, [n |-> n, id |-> i] \in I,
         heap \in Seq(Seq(I)), queueAt \in [Ids -> 0..Len(heap)], draining \subseteq Ids,
         drain \in [Drains -> DrainSet(I, DOMAIN heap)],
         gaveUp \in [Ids -> 0..n], Enqueue(n, i)
  PROVE  /\ heap' \in Seq(Seq(I))
         /\ queueAt' \in [Ids -> 0..Len(heap')]
         /\ draining' \subseteq Ids
         /\ drain' \in [Drains -> DrainSet(I, DOMAIN heap')]
         /\ gaveUp' \in [Ids -> 0..n]
<1> DEFINE item == [n |-> n, id |-> i]
           h == IF queueAt[i] = 0 THEN Append(heap, <<item>>)
                ELSE [heap EXCEPT ![queueAt[i]] = Append(@, item)]
           at == IF queueAt[i] = 0 THEN [queueAt EXCEPT ![i] = Len(h)] ELSE queueAt
<1>1. gaveUp' \in [Ids -> 0..n]
  BY DEF Enqueue
<1>2. IF i \in draining
      THEN heap' = h /\ queueAt' = at /\ UNCHANGED <<draining, drain>>
      ELSE /\ FreeDrains # {}
           /\ LoopTop(CHOOSE e \in FreeDrains : TRUE, i, h, at, draining \cup {i})
  BY DEF Enqueue
<1>3. Len(heap) \in Nat /\ DOMAIN heap = 1..Len(heap)
  BY LenProperties
<1>4. h \in Seq(Seq(I)) /\ Len(h) \in Nat /\ DOMAIN h = 1..Len(h) /\ Len(heap) <= Len(h)
      /\ (queueAt[i] = 0 => Len(h) > 0)
  <2>1. CASE queueAt[i] = 0
    <3>1. <<item>> \in Seq(I) /\ h = Append(heap, <<item>>)
      BY <2>1
    <3>2. h \in Seq(Seq(I)) /\ Len(h) = Len(heap) + 1
      BY <3>1, AppendProperties
    <3> QED
      BY <1>3, <3>2, LenProperties
  <2>2. CASE queueAt[i] # 0
    <3>1. queueAt[i] \in 1..Len(heap)
      BY <1>3, <2>2
    <3>2. heap[queueAt[i]] \in Seq(I)
      BY <3>1, ElementOfSeq
    <3>3. PICK s : s = Append(heap[queueAt[i]], item)
      OBVIOUS
    <3>4. s \in Seq(I)
      BY <3>2, <3>3, AppendProperties
    <3>5. h = [heap EXCEPT ![queueAt[i]] = s]
      BY <2>2, <3>3
    <3>6. h \in Seq(Seq(I)) /\ Len(h) = Len(heap)
      BY <3>1, <3>4, <3>5, ExceptSeq
    <3> QED
      BY <1>3, <3>6, LenProperties, <2>2
  <2> QED
    BY <2>1, <2>2
<1>5. at \in [Ids -> 0..Len(h)]
  <2> HIDE DEF h
  <2>1. CASE queueAt[i] = 0
    BY <2>1, <1>4, <1>3
  <2>2. CASE queueAt[i] # 0
    BY <2>2, <1>4, <1>3
  <2> QED
    BY <2>1, <2>2
<1>6. drain \in [Drains -> DrainSet(I, DOMAIN h)]
  <2>1. DOMAIN heap \subseteq DOMAIN h
    BY <1>3, <1>4
  <2> QED
    BY <2>1, DrainSetGrows
<1> HIDE DEF h, at
<1>7. CASE i \in draining
  BY <1>1, <1>2, <1>4, <1>5, <1>6, <1>7
<1>8. CASE i \notin draining
  <2>1. PICK e : e = CHOOSE f \in FreeDrains : TRUE
    OBVIOUS
  <2>2. e \in Drains /\ LoopTop(e, i, h, at, draining \cup {i})
    BY <1>2, <1>8, <2>1 DEF FreeDrains
  <2>3. draining \cup {i} \in SUBSET Ids
    OBVIOUS
  <2> QED
    BY <1>1, <1>4, <1>5, <1>6, <2>2, <2>3, LoopTopTypes
<1> QED
  BY <1>7, <1>8

\* What a running drain is, and the states it can go to.
LEMMA DrainFields ==
  ASSUME NEW I, NEW A, NEW r \in DrainSet(I, A), r.pc # "off"
  PROVE  /\ r.key \in Ids /\ r.array \in A /\ r.item \in I
         /\ r.pc \in {"sending", "failed", "backoff", "ok", "cleared", "stored"}
         /\ r.pc \in {"ok", "cleared", "stored"} => r.to \in Ids
         /\ [r EXCEPT !.pc = "failed"] \in DrainSet(I, A)
         /\ [r EXCEPT !.pc = "backoff"] \in DrainSet(I, A)
         /\ \A i \in Ids : [r EXCEPT !.pc = "ok", !.to = i] \in DrainSet(I, A)
         /\ r.pc = "ok" => [r EXCEPT !.pc = "cleared"] \in DrainSet(I, A)
         /\ r.pc \in {"ok", "cleared"} => [r EXCEPT !.pc = "stored"] \in DrainSet(I, A)
<1>1. \/ r \in [pc : {"sending", "failed", "backoff"}, key : Ids, array : A, item : I,
                to : {Absent} \cup Ids]
      \/ r \in [pc : {"ok", "cleared", "stored"}, key : Ids, array : A, item : I, to : Ids]
  BY DEF DrainSet, Off
<1> QED
  BY <1>1 DEF DrainSet

\* The parts of a write.
LEMMA WriteFields ==
  ASSUME TypeOK, NEW n \in DOMAIN writes
  PROVE  /\ writes[n].type \in {"create", "update", "delete"}
         /\ writes[n].id \in Ids /\ writes[n].data \in Records
<1>1. writes[n] \in WriteSet
  BY ElementOfSeq, LenProperties DEF TypeOK
<1> QED
  BY <1>1 DEF WriteSet, Types

LEMMA RunningFields ==
  ASSUME TypeOK, NEW d \in Drains, drain[d].pc # "off"
  PROVE  /\ drain[d].key \in Ids /\ drain[d].array \in DOMAIN heap
         /\ drain[d].item.n \in DOMAIN writes /\ drain[d].item.n \in 1..Len(writes)
         /\ drain[d].item.n \in Writes /\ drain[d].item.id \in Ids
         /\ drain[d].pc \in {"sending", "failed", "backoff", "ok", "cleared", "stored"}
         /\ drain[d].pc \in {"ok", "cleared", "stored"} => drain[d].to \in Ids
         /\ At(d) \in Ids /\ DataOf(d) \in Records /\ TypeOf(d) \in {"create", "update", "delete"}
<1>1. drain[d] \in DrainSet(ItemSet, DOMAIN heap)
  BY DEF TypeOK
<1>2. drain[d].item \in ItemSet
  BY <1>1, DrainFields
<1>3. drain[d].item.n \in DOMAIN writes /\ drain[d].item.id \in Ids
  BY <1>2 DEF ItemSet
<1>4. drain[d].item.n \in 1..Len(writes) /\ drain[d].item.n \in Writes
  <2>1. DOMAIN writes = 1..Len(writes) /\ Len(writes) \in Nat /\ Len(writes) <= MaxWrites
    BY LenProperties DEF TypeOK
  <2> QED
    BY <1>3, <2>1, BoundsAssumption DEF Writes
<1> QED
  BY <1>1, <1>3, <1>4, DrainFields, WriteFields DEF At, DataOf, TypeOf

\* The requests and their answers.
LEMMA AnswerTypes ==
  ASSUME TypeOK, NEW d \in Drains,
         \/ DeliverCreate(d) \/ DeliverChange(d) \/ DeliverMissing(d) \/ Lose(d)
         \/ StoreDelete(d) \/ StoreResult(d) \/ BackOff(d)
  PROVE  TypeOK'
<1>1. drain[d].pc # "off"
  BY DEF DeliverCreate, DeliverChange, DeliverMissing, Lose, StoreDelete, StoreResult, BackOff
<1>2. drain[d] \in DrainSet(ItemSet, DOMAIN heap)
  BY DEF TypeOK
<1>3. DataOf(d) \in Records /\ At(d) \in Ids /\ drain[d].item.n \in 1..Len(writes)
      /\ TypeOf(d) \in {"create", "update", "delete"}
      /\ (drain[d].pc \in {"ok", "cleared", "stored"} => drain[d].to \in Ids)
  BY <1>1, RunningFields, LenProperties DEF TypeOK
<1>4. LocalBeforeSend(d) => local' \in Copies
  BY <1>3 DEF LocalBeforeSend, TypeOK, Copies
<1>5. ASSUME NEW i \in Ids, NEW v \in {Absent} \cup Records, Apply(d, i, v)
      PROVE  /\ server' \in Copies /\ newest' \in [Ids -> 0..Len(writes)]
             /\ drain' \in [Drains -> DrainSet(ItemSet, DOMAIN heap)]
  <2>1. server' \in Copies
    BY <1>5 DEF Apply, TypeOK, Copies
  <2>2. newest' \in [Ids -> 0..Len(writes)]
    BY <1>3, <1>5 DEF Apply, TypeOK
  <2>3. PICK r : r = [drain[d] EXCEPT !.pc = "ok", !.to = i]
    OBVIOUS
  <2>4. r \in DrainSet(ItemSet, DOMAIN heap)
    BY <1>1, <1>2, <2>3, DrainFields
  <2>5. drain' = [drain EXCEPT ![d] = r]
    BY <1>5, <2>3 DEF Apply, TypeOK
  <2> QED
    BY <2>1, <2>2, <2>4, <2>5 DEF TypeOK
<1>6. ASSUME NEW x, NEW r \in DrainSet(ItemSet, DOMAIN heap), r = [drain[d] EXCEPT !.pc = x],
             drain' = [drain EXCEPT ![d].pc = x]
      PROVE  drain' \in [Drains -> DrainSet(ItemSet, DOMAIN heap)]
  BY <1>6 DEF TypeOK
<1>7. [drain[d] EXCEPT !.pc = "failed"] \in DrainSet(ItemSet, DOMAIN heap)
      /\ [drain[d] EXCEPT !.pc = "backoff"] \in DrainSet(ItemSet, DOMAIN heap)
      /\ (drain[d].pc = "ok" => [drain[d] EXCEPT !.pc = "cleared"] \in DrainSet(ItemSet, DOMAIN heap))
      /\ (drain[d].pc \in {"ok", "cleared"} =>
             [drain[d] EXCEPT !.pc = "stored"] \in DrainSet(ItemSet, DOMAIN heap))
  BY <1>1, <1>2, DrainFields
<1>8. UNCHANGED <<setting, writes, heap>> /\ ItemSet' = ItemSet
  BY DEF DeliverCreate, DeliverChange, DeliverMissing, Lose, StoreDelete, StoreResult, BackOff, ItemSet
<1>9. CASE DeliverCreate(d)
  <2>1. PICK i \in Ids : Apply(d, i, DataOf(d)) /\ used' = used \cup {i}
    BY <1>3, <1>9 DEF DeliverCreate, Ids
  <2>2. server' \in Copies /\ newest' \in [Ids -> 0..Len(writes)]
        /\ drain' \in [Drains -> DrainSet(ItemSet, DOMAIN heap)]
    BY <1>3, <1>5, <2>1
  <2> QED
    BY <1>8, <1>9, <2>1, <2>2 DEF DeliverCreate, TypeOK
<1>10. CASE DeliverChange(d)
  <2>1. server' \in Copies /\ newest' \in [Ids -> 0..Len(writes)]
        /\ drain' \in [Drains -> DrainSet(ItemSet, DOMAIN heap)]
    BY <1>3, <1>5, <1>10 DEF DeliverChange
  <2> QED
    BY <1>4, <1>8, <1>10, <2>1 DEF DeliverChange, TypeOK
<1>11. CASE DeliverMissing(d)
  <2>1. drain' \in [Drains -> DrainSet(ItemSet, DOMAIN heap)]
    BY <1>6, <1>7, <1>11 DEF DeliverMissing
  <2> QED
    BY <1>4, <1>8, <1>11, <2>1 DEF DeliverMissing, TypeOK, network
<1>12. CASE Lose(d)
  <2>1. drain' \in [Drains -> DrainSet(ItemSet, DOMAIN heap)]
    BY <1>6, <1>7, <1>12 DEF Lose
  <2>2. setting.losses \in Nat
    BY SettingsAssumption DEF TypeOK
  <2>3. losses' \in 0..setting.losses
    BY <1>12, <2>2 DEF Lose, TypeOK
  <2>4. local' \in Copies
    BY <1>4, <1>12 DEF Lose, TypeOK
  <2> QED
    BY <1>8, <1>12, <2>1, <2>3, <2>4 DEF Lose, TypeOK, network
<1>13. CASE StoreResult(d)
  <2>1. drain' \in [Drains -> DrainSet(ItemSet, DOMAIN heap)]
    BY <1>6, <1>7, <1>13 DEF StoreResult
  <2>2. drain[d].to \in Ids
    BY <1>3, <1>13 DEF StoreResult
  <2>3. local' = local \/ local' = [local EXCEPT ![drain[d].to] = DataOf(d)]
    BY <1>13 DEF StoreResult
  <2>4. local' \in Copies
    BY <1>3, <2>2, <2>3 DEF Copies, TypeOK
  <2> QED
    BY <1>8, <1>13, <2>1, <2>4 DEF StoreResult, TypeOK, network
<1>15. CASE StoreDelete(d)
  <2>1. drain' \in [Drains -> DrainSet(ItemSet, DOMAIN heap)]
    BY <1>6, <1>7, <1>15 DEF StoreDelete
  <2>2. local' \in Copies
    BY <1>3, <1>15 DEF StoreDelete, Copies, TypeOK
  <2> QED
    BY <1>8, <1>15, <2>1, <2>2 DEF StoreDelete, TypeOK, network
<1>14. CASE BackOff(d)
  <2>1. drain' \in [Drains -> DrainSet(ItemSet, DOMAIN heap)]
    BY <1>6, <1>7, <1>14 DEF BackOff
  <2>2. attempts \in [Writes -> 0..MaxAttempts] /\ drain[d].item.n \in Writes
    BY <1>1, RunningFields DEF TypeOK
  <2>3. attempts' \in [Writes -> 0..MaxAttempts]
    BY <1>14, <2>2, BoundsAssumption DEF BackOff, MoreAttempts
  <2> QED
    BY <1>8, <1>14, <2>1, <2>3 DEF BackOff, TypeOK, network
<1> QED
  BY <1>9, <1>10, <1>11, <1>12, <1>13, <1>14, <1>15

\* queue.shift() on an array of the heap.
LEMMA ShiftTypes ==
  ASSUME NEW I, NEW h \in Seq(Seq(I)), NEW a \in DOMAIN h
  PROVE  /\ Shift(h, a) \in Seq(Seq(I))
         /\ Len(Shift(h, a)) = Len(h) /\ DOMAIN Shift(h, a) = DOMAIN h
         /\ Shift(h, a)[a] = (IF h[a] = <<>> THEN <<>> ELSE Tail(h[a]))
         /\ Shift(h, a)[a] \in Seq(I)
         /\ \A b \in DOMAIN h : b # a => Shift(h, a)[b] = h[b]
<1>1. PICK s : s = IF h[a] = <<>> THEN <<>> ELSE Tail(h[a])
  OBVIOUS
<1>2. h \in [1..Len(h) -> Seq(I)] /\ Len(h) \in Nat /\ DOMAIN h = 1..Len(h) /\ h[a] \in Seq(I)
  BY LenProperties, ElementOfSeq
<1>3. s \in Seq(I)
  BY <1>1, <1>2, HeadTailProperties, EmptySeq
<1>4. Shift(h, a) = [h EXCEPT ![a] = s]
  BY <1>1 DEF Shift
<1>5. Shift(h, a) \in Seq(Seq(I)) /\ Len(Shift(h, a)) = Len(h)
      /\ \A b \in 1..Len(h) : Shift(h, a)[b] = IF b = a THEN s ELSE h[b]
  BY <1>2, <1>3, <1>4, ExceptSeq
<1>6. DOMAIN Shift(h, a) = DOMAIN h
  BY <1>2, <1>4
<1> QED
  BY <1>1, <1>2, <1>3, <1>5, <1>6

\* The heap, the filing and the draining set after a queue was moved.
Rest(s, to) == [j \in DOMAIN s |-> [s[j] EXCEPT !.id = to]]

LEMMA RestTypes ==
  ASSUME NEW N, NEW s \in Seq([n : N, id : Ids]), NEW to \in Ids
  PROVE  /\ Rest(s, to) \in Seq([n : N, id : Ids])
         /\ Len(Rest(s, to)) = Len(s) /\ DOMAIN Rest(s, to) = DOMAIN s
         /\ \A j \in DOMAIN s : Rest(s, to)[j].n = s[j].n /\ Rest(s, to)[j].id = to
         /\ (Rest(s, to) = <<>>) <=> (s = <<>>)
<1>1. s \in [1..Len(s) -> [n : N, id : Ids]] /\ Len(s) \in Nat /\ DOMAIN s = 1..Len(s)
  BY LenProperties
<1>2. \A j \in 1..Len(s) : [s[j] EXCEPT !.id = to] \in [n : N, id : Ids]
  BY <1>1
<1>3. Rest(s, to) \in Seq([n : N, id : Ids]) /\ DOMAIN Rest(s, to) = 1..Len(s)
  BY <1>1, <1>2 DEF Rest
<1>4. Len(Rest(s, to)) = Len(s)
  BY <1>1, <1>3, LenProperties
<1>5. \A j \in DOMAIN s : Rest(s, to)[j].n = s[j].n /\ Rest(s, to)[j].id = to
  BY <1>1 DEF Rest
<1>6. (Rest(s, to) = <<>>) <=> (s = <<>>)
  BY <1>1, <1>3, <1>4, EmptySeq
<1> QED
  BY <1>1, <1>3, <1>4, <1>5, <1>6

LEMMA AdvanceTypes ==
  ASSUME TypeOK, NEW d \in Drains, Advance(d)
  PROVE  TypeOK'
<1> DEFINE k == drain[d].key
           a == drain[d].array
           to == drain[d].to
           h == Shift(heap, a)
           g == Append([h EXCEPT ![a] = <<>>], Queue(to) \o Rest(h[a], to))
<1>1. k \in Ids /\ a \in DOMAIN heap /\ to \in Ids /\ drain[d].item.n \in DOMAIN writes
  BY RunningFields DEF Advance
<1>2. heap \in Seq(Seq(ItemSet)) /\ queueAt \in [Ids -> 0..Len(heap)] /\ draining \subseteq Ids
      /\ drain \in [Drains -> DrainSet(ItemSet, DOMAIN heap)]
      /\ Len(heap) \in Nat /\ DOMAIN heap = 1..Len(heap)
  BY LenProperties DEF TypeOK
<1>3. h \in Seq(Seq(ItemSet)) /\ Len(h) = Len(heap) /\ DOMAIN h = DOMAIN heap
      /\ h[a] \in Seq(ItemSet)
  BY <1>1, <1>2, ShiftTypes
<1>4. UNCHANGED <<setting, local, server, used, newest, writes, attempts, gaveUp, call, sync,
                  synced, losses, syncs>> /\ ItemSet' = ItemSet
      /\ confirmed' = confirmed \cup {drain[d].item.n}
  BY DEF Advance, network, ItemSet
<1>5. /\ heap' \in Seq(Seq(ItemSet))
      /\ queueAt' \in [Ids -> 0..Len(heap')]
      /\ draining' \subseteq Ids
      /\ drain' \in [Drains -> DrainSet(ItemSet, DOMAIN heap')]
  <2>1. CASE to # At(d)
    <3>1. LoopTop(d, to, g, [queueAt EXCEPT ![k] = 0, ![to] = Len(h) + 1],
                  (draining \ {k}) \cup {to})
      BY <2>1 DEF Advance, Rest
    <3> HIDE DEF h
    <3>2. [h EXCEPT ![a] = <<>>] \in Seq(Seq(ItemSet)) /\ Len([h EXCEPT ![a] = <<>>]) = Len(h)
      BY <1>1, <1>2, <1>3, ExceptSeq, EmptySeq
    <3>3. Queue(to) \in Seq(ItemSet)
      BY <1>1, <1>2, EmptySeq, ElementOfSeq DEF Queue
    <3>4. Rest(h[a], to) \in Seq(ItemSet)
      BY <1>1, <1>3, RestTypes DEF ItemSet
    <3>5. Queue(to) \o Rest(h[a], to) \in Seq(ItemSet)
      BY <3>3, <3>4, ConcatProperties
    <3>6. g \in Seq(Seq(ItemSet)) /\ Len(g) = Len(h) + 1
      BY <3>2, <3>5, AppendProperties
    <3> HIDE DEF g
    <3>10. DOMAIN g = 1..Len(g)
      BY <3>6, LenProperties
    <3> HIDE DEF k, to, a
    <3>7. [queueAt EXCEPT ![k] = 0, ![to] = Len(h) + 1] \in [Ids -> 0..Len(g)]
      <4>1. 0 \in 0..Len(g) /\ Len(h) + 1 \in 0..Len(g) /\ queueAt \in [Ids -> 0..Len(g)]
        BY <1>2, <1>3, <3>6
      <4> QED
        BY <1>1, <4>1
    <3>8. drain \in [Drains -> DrainSet(ItemSet, DOMAIN g)]
      <4>1. DOMAIN heap \subseteq DOMAIN g
        BY <1>2, <1>3, <3>6, <3>10
      <4> QED
        BY <1>2, <4>1, DrainSetGrows
    <3>9. (draining \ {k}) \cup {to} \in SUBSET Ids
      BY <1>1, <1>2
    <3> QED
      BY <1>1, <3>1, <3>6, <3>7, <3>8, <3>9, LoopTopTypes
  <2>2. CASE to = At(d)
    <3>1. PICK at : at = IF h[a] = <<>> THEN [queueAt EXCEPT ![k] = 0] ELSE queueAt
      OBVIOUS
    <3>2. LoopTop(d, k, h, at, draining)
      BY <2>2, <3>1 DEF Advance
    <3>3. at \in [Ids -> 0..Len(h)]
      BY <1>1, <1>2, <1>3, <3>1
    <3> HIDE DEF h, k
    <3> QED
      BY <1>1, <1>2, <1>3, <3>2, <3>3, LoopTopTypes
  <2> QED
    BY <2>1, <2>2
<1> QED
  BY <1>1, <1>4, <1>5 DEF TypeOK

LEMMA RetryTypes ==
  ASSUME TypeOK, NEW d \in Drains, Retry(d) \/ GiveUp(d)
  PROVE  TypeOK'
<1> DEFINE k == drain[d].key
           a == drain[d].array
           n == drain[d].item.n
           h == Shift(heap, a)
<1>1. k \in Ids /\ a \in DOMAIN heap /\ n \in 1..Len(writes) /\ n \in Writes
  BY RunningFields DEF Retry, GiveUp
<1>2. heap \in Seq(Seq(ItemSet)) /\ queueAt \in [Ids -> 0..Len(heap)] /\ draining \subseteq Ids
      /\ drain \in [Drains -> DrainSet(ItemSet, DOMAIN heap)]
      /\ Len(heap) \in Nat /\ DOMAIN heap = 1..Len(heap) /\ Len(writes) \in Nat
  BY LenProperties DEF TypeOK
<1>3. UNCHANGED <<setting, local, server, used, newest, writes, confirmed, call, sync,
                  synced, losses, syncs>> /\ ItemSet' = ItemSet
  BY DEF Retry, GiveUp, network, ItemSet
<1>4. CASE Retry(d)
  <2>1. LoopTop(d, k, heap, queueAt, draining) /\ UNCHANGED <<attempts, gaveUp>>
    BY <1>4 DEF Retry
  <2>2. /\ heap' \in Seq(Seq(ItemSet)) /\ queueAt' \in [Ids -> 0..Len(heap')]
        /\ draining' \subseteq Ids /\ drain' \in [Drains -> DrainSet(ItemSet, DOMAIN heap')]
    <3> HIDE DEF k
    <3> QED
      BY <1>1, <1>2, <2>1, LoopTopTypes
  <2> QED
    BY <1>3, <2>1, <2>2 DEF TypeOK
<1>5. CASE GiveUp(d)
  <2>1. h \in Seq(Seq(ItemSet)) /\ Len(h) = Len(heap) /\ DOMAIN h = DOMAIN heap
    BY <1>1, <1>2, ShiftTypes
  <2>2. PICK at : at = IF h[a] = <<>> THEN [queueAt EXCEPT ![k] = 0] ELSE queueAt
    OBVIOUS
  <2>3. LoopTop(d, k, h, at, draining) /\ gaveUp' = [gaveUp EXCEPT ![k] = n]
        /\ attempts' = [attempts EXCEPT ![n] = MoreAttempts(n)]
    BY <1>5, <2>2 DEF GiveUp
  <2>4. at \in [Ids -> 0..Len(h)]
    BY <1>1, <1>2, <2>1, <2>2
  <2>5. attempts' \in [Writes -> 0..MaxAttempts]
    <3>1. attempts \in [Writes -> 0..MaxAttempts]
      BY DEF TypeOK
    <3> QED
      BY <1>1, <2>3, <3>1, BoundsAssumption DEF MoreAttempts
  <2>6. gaveUp' \in [Ids -> 0..Len(writes)]
    BY <1>1, <1>2, <2>3 DEF TypeOK
  <2>7. /\ heap' \in Seq(Seq(ItemSet)) /\ queueAt' \in [Ids -> 0..Len(heap')]
        /\ draining' \subseteq Ids /\ drain' \in [Drains -> DrainSet(ItemSet, DOMAIN heap')]
    <3> HIDE DEF h, k
    <3> QED
      BY <1>1, <1>2, <2>1, <2>3, <2>4, LoopTopTypes
  <2> QED
    BY <1>3, <2>5, <2>6, <2>7 DEF TypeOK
<1> QED
  BY <1>4, <1>5

\* A write made by a user joins the others.
Made(t, i, v) ==
    /\ Len(writes) < MaxWrites
    /\ \E f \in Fields :
          writes' = Append(writes, [type |-> t, id |-> i, own |-> f, data |-> v])

LEMMA MadeTypes ==
  ASSUME TypeOK, NEW t \in {"create", "update", "delete"}, NEW i \in Ids, NEW v \in Records,
         Made(t, i, v)
  PROVE  /\ writes' \in Seq(WriteSet)
         /\ Len(writes) \in Nat /\ DOMAIN writes = 1..Len(writes)
         /\ Len(writes') = Len(writes) + 1 /\ Len(writes') <= MaxWrites
         /\ DOMAIN writes' = 1..(Len(writes) + 1)
         /\ Len(writes) + 1 \in Writes
         /\ \A n \in DOMAIN writes : n \in DOMAIN writes' /\ writes'[n] = writes[n]
         /\ writes'[Len(writes) + 1].type = t /\ writes'[Len(writes) + 1].id = i
         /\ writes'[Len(writes) + 1].data = v
         /\ ItemSet \subseteq ItemSet' /\ [n |-> Len(writes) + 1, id |-> i] \in ItemSet'
<1>1. PICK f \in Fields : writes' = Append(writes, [type |-> t, id |-> i, own |-> f, data |-> v])
  BY DEF Made
<1> DEFINE w == [type |-> t, id |-> i, own |-> f, data |-> v]
<1>2. w \in WriteSet /\ w.type = t /\ w.id = i /\ w.data = v
  BY <1>1 DEF WriteSet, Types
<1>3. writes \in Seq(WriteSet) /\ writes' = Append(writes, w) /\ Len(writes) < MaxWrites
  BY <1>1 DEF Made, TypeOK
<1> HIDE DEF w
<1>4. Len(writes) \in Nat /\ DOMAIN writes = 1..Len(writes)
  BY <1>3, LenProperties
<1>5. /\ writes' \in Seq(WriteSet) /\ Len(writes') = Len(writes) + 1
      /\ \A n \in 1..Len(writes) : writes'[n] = writes[n]
      /\ writes'[Len(writes) + 1] = w
  BY <1>2, <1>3, AppendProperties
<1>6. DOMAIN writes' = 1..(Len(writes) + 1)
  BY <1>5, LenProperties
<1>7. Len(writes) + 1 \in Writes /\ Len(writes') <= MaxWrites
  BY <1>3, <1>4, <1>5, BoundsAssumption DEF Writes
<1>8. ItemSet \subseteq ItemSet' /\ [n |-> Len(writes) + 1, id |-> i] \in ItemSet'
  BY <1>4, <1>6 DEF ItemSet
<1> QED
  BY <1>2, <1>4, <1>5, <1>6, <1>7, <1>8

LEMMA WriteTypes ==
  ASSUME TypeOK, NEW t \in {"create", "update", "delete"}, NEW i \in Ids, NEW v \in Records,
         Made(t, i, v), Enqueue(Len(writes) + 1, i), call' \in [Callers -> CallSet],
         UNCHANGED <<setting, local, network, confirmed, attempts, sync, synced, losses, syncs>>
  PROVE  TypeOK'
<1>1. /\ writes' \in Seq(WriteSet)
      /\ Len(writes) \in Nat /\ DOMAIN writes = 1..Len(writes)
      /\ Len(writes') = Len(writes) + 1 /\ Len(writes') <= MaxWrites
      /\ DOMAIN writes' = 1..(Len(writes) + 1)
      /\ ItemSet \subseteq ItemSet' /\ [n |-> Len(writes) + 1, id |-> i] \in ItemSet'
  BY MadeTypes
<1>2. PICK N : N = Len(writes) + 1
  OBVIOUS
<1>3. PICK I : I = ItemSet'
  OBVIOUS
<1>4. heap \in Seq(Seq(I))
  BY <1>1, <1>3, SeqGrows DEF TypeOK
<1>5. drain \in [Drains -> DrainSet(I, DOMAIN heap)]
  <2>1. DrainSet(ItemSet, DOMAIN heap) \subseteq DrainSet(I, DOMAIN heap)
    BY <1>1, <1>3, DrainSetGrows
  <2>2. drain \in [Drains -> DrainSet(ItemSet, DOMAIN heap)]
    BY DEF TypeOK
  <2> QED
    BY <2>1, <2>2
<1>6. gaveUp \in [Ids -> 0..N] /\ newest \in [Ids -> 0..N] /\ N \in Nat
  BY <1>1, <1>2 DEF TypeOK
<1>7. Enqueue(N, i) /\ [n |-> N, id |-> i] \in I
  BY <1>1, <1>2, <1>3
<1>8. queueAt \in [Ids -> 0..Len(heap)] /\ draining \subseteq Ids
  BY DEF TypeOK
<1>9. /\ heap' \in Seq(Seq(I)) /\ queueAt' \in [Ids -> 0..Len(heap')] /\ draining' \subseteq Ids
      /\ drain' \in [Drains -> DrainSet(I, DOMAIN heap')] /\ gaveUp' \in [Ids -> 0..N]
  BY <1>4, <1>5, <1>6, <1>7, <1>8, EnqueueTypes
<1>10. local' \in Copies
  BY DEF TypeOK
<1>11. confirmed' \subseteq DOMAIN writes'
  BY <1>1 DEF TypeOK
<1> QED
  BY <1>1, <1>2, <1>3, <1>6, <1>9, <1>10, <1>11 DEF TypeOK, network

LEMMA SyncTypes ==
  ASSUME TypeOK, SyncFetch \/ SyncStore
  PROVE  TypeOK'
<1>1. sync \in [on : BOOLEAN, items : Copies] /\ local \in Copies /\ server \in Copies
      /\ synced \in Seq(Copies)
  BY DEF TypeOK
<1>2. CASE SyncFetch
  <2>1. setting.syncs \in Nat
    BY SettingsAssumption DEF TypeOK
  <2>2. syncs' \in 0..setting.syncs
    BY <1>2, <2>1 DEF SyncFetch, TypeOK
  <2>3. sync' \in [on : BOOLEAN, items : Copies]
    BY <1>1, <1>2 DEF SyncFetch
  <2>4. UNCHANGED <<setting, local, server, used, newest, writes, confirmed, heap, queueAt,
                    draining, gaveUp, drain, attempts, call, synced, losses>>
    BY <1>2 DEF SyncFetch, network, queues
  <2> QED
    BY <2>2, <2>3, <2>4 DEF TypeOK, ItemSet
<1>3. CASE SyncStore
  <2>1. sync.items \in Copies /\ synced' = <<sync.items>> /\ sync' = NoSync
    BY <1>1, <1>3 DEF SyncStore
  <2>2. synced' \in Seq(Copies) /\ sync' \in [on : BOOLEAN, items : Copies]
    BY <2>1 DEF NoSync, Copies
  <2>3. local' \in Copies
    <3>1. PICK previous : local' = IF synced # <<>> /\ previous = sync.items THEN local
                    ELSE [i \in Ids |->
                             IF sync.items[i] # Absent THEN sync.items[i]
                             ELSE IF previous[i] # Absent THEN Absent ELSE local[i]]
      BY <1>3 DEF SyncStore
    <3> QED
      BY <1>1, <2>1, <3>1 DEF Copies
  <2>4. UNCHANGED <<setting, server, used, newest, writes, confirmed, heap, queueAt,
                    draining, gaveUp, drain, attempts, call, losses, syncs>>
    BY <1>3 DEF SyncStore, network, queues
  <2> QED
    BY <2>2, <2>3, <2>4 DEF TypeOK, ItemSet
<1> QED
  BY <1>2, <1>3

\* One poll: what it settles, what it rolls back next, what it leaves alone.
LEMMA SettledTypes ==
  ASSUME NEW ch \in Seq(ChangeSet), NEW done
  PROVE  /\ Settled(done, ch) \in Seq(ChangeSet)
         /\ Len(Settled(done, ch)) = Len(ch) /\ DOMAIN Settled(done, ch) = DOMAIN ch
         /\ \A n \in DOMAIN ch :
               /\ n \in done /\ ~InQueue(n) => /\ Settled(done, ch)[n].state = "synced"
                                               /\ Settled(done, ch)[n].kept = FALSE
                                               /\ Settled(done, ch)[n].before = ch[n].before
               /\ ~(n \in done /\ ~InQueue(n)) => Settled(done, ch)[n] = ch[n]
<1>1. ch \in [1..Len(ch) -> ChangeSet] /\ Len(ch) \in Nat /\ DOMAIN ch = 1..Len(ch)
  BY LenProperties
<1>2. PICK s : s = Settled(done, ch)
  OBVIOUS
<1>3. s = [n \in 1..Len(ch) |-> IF n \in done /\ ~InQueue(n)
                         THEN [ch[n] EXCEPT !.state = "synced", !.kept = FALSE] ELSE ch[n]]
  BY <1>1, <1>2 DEF Settled
<1>4. \A n \in 1..Len(ch) : /\ [ch[n] EXCEPT !.state = "synced", !.kept = FALSE] \in ChangeSet
                            /\ [ch[n] EXCEPT !.state = "synced", !.kept = FALSE].state = "synced"
                            /\ [ch[n] EXCEPT !.state = "synced", !.kept = FALSE].kept = FALSE
                            /\ [ch[n] EXCEPT !.state = "synced", !.kept = FALSE].before = ch[n].before
  BY <1>1 DEF ChangeSet
<1>5. s \in [1..Len(ch) -> ChangeSet]
  BY <1>1, <1>3, <1>4
<1>6. s \in Seq(ChangeSet) /\ DOMAIN s = 1..Len(ch)
  BY <1>1, <1>5
<1>7. Len(s) = Len(ch)
  BY <1>1, <1>6, LenProperties
<1>8. \A n \in 1..Len(ch) :
         /\ n \in done /\ ~InQueue(n) => /\ s[n].state = "synced"
                                         /\ s[n].kept = FALSE
                                         /\ s[n].before = ch[n].before
         /\ ~(n \in done /\ ~InQueue(n)) => s[n] = ch[n]
  BY <1>3, <1>4
<1> QED
  BY <1>1, <1>2, <1>6, <1>7, <1>8

LEMMA GoOverTypes ==
  ASSUME NEW p \in Polls, NEW ch \in Seq(ChangeSet), NEW todo \in SUBSET DOMAIN ch,
         poll \in [Polls -> PollSet], DOMAIN ch = DOMAIN changes, watcher \in BOOLEAN,
         GoOver(p, todo, ch)
  PROVE  /\ changes' \in Seq(ChangeSet) /\ Len(changes') = Len(ch) /\ DOMAIN changes' = DOMAIN ch
         /\ poll' \in [Polls -> PollSet'] /\ watcher' \in BOOLEAN
<1>1. PICK done : changes' = Settled(done, ch)
  BY DEF GoOver
<1>2. changes' \in Seq(ChangeSet) /\ Len(changes') = Len(ch) /\ DOMAIN changes' = DOMAIN ch
  BY <1>1, SettledTypes
<1>3. PollSet' = PollSet /\ NoPoll \in PollSet
  BY <1>2 DEF PollSet
<1>4. PICK lost : lost = {n \in todo : IsGivenUp(n)}
  OBVIOUS
<1>5. \/ poll' = [poll EXCEPT ![p] = NoPoll] /\ watcher' = WatcherStays(changes')
      \/ \E n \in todo : /\ poll' = [poll EXCEPT ![p] =
                                       [undo |-> n, todo |-> {m \in todo : m < n},
                                        value |-> RollbackValue(ch, n)]]
                         /\ watcher' = watcher
  BY DEF GoOver
<1>6. CASE poll' = [poll EXCEPT ![p] = NoPoll] /\ watcher' = WatcherStays(changes')
  BY <1>2, <1>3, <1>6 DEF WatcherStays
<1>7. ASSUME NEW n \in todo, watcher' = watcher,
             poll' = [poll EXCEPT ![p] = [undo |-> n, todo |-> {m \in todo : m < n},
                                          value |-> RollbackValue(ch, n)]]
      PROVE  poll' \in [Polls -> PollSet'] /\ watcher' \in BOOLEAN
  <2>1. ch[n] \in ChangeSet
    BY ElementOfSeq, LenProperties
  <2>2. RollbackValue(ch, n) \in {Absent} \cup Records
    BY <2>1 DEF RollbackValue, ChangeSet
  <2>3. PICK r : r = [undo |-> n, todo |-> {m \in todo : m < n}, value |-> RollbackValue(ch, n)]
    OBVIOUS
  <2>4. r \in PollSet
    BY <2>2, <2>3 DEF PollSet
  <2> QED
    BY <1>3, <1>7, <2>3, <2>4
<1> QED
  BY <1>2, <1>5, <1>6, <1>7

\* The changes at the moment a rollback is done.
FailedAt(n) == [changes EXCEPT ![n] = [changes[n] EXCEPT !.state = "failed", !.kept = FALSE]]

LEMMA FailedTypes ==
  ASSUME changes \in Seq(ChangeSet), NEW n \in DOMAIN changes
  PROVE  /\ FailedAt(n) \in Seq(ChangeSet)
         /\ Len(FailedAt(n)) = Len(changes) /\ DOMAIN FailedAt(n) = DOMAIN changes
         /\ FailedAt(n)[n].state = "failed" /\ FailedAt(n)[n].kept = FALSE
         /\ FailedAt(n)[n].before = changes[n].before
         /\ \A m \in DOMAIN changes : m # n => FailedAt(n)[m] = changes[m]
<1>1. PICK r : r = [changes[n] EXCEPT !.state = "failed", !.kept = FALSE]
  OBVIOUS
<1>2. DOMAIN changes = 1..Len(changes) /\ changes[n] \in ChangeSet
  BY LenProperties, ElementOfSeq
<1>3. r \in ChangeSet /\ r.state = "failed" /\ r.kept = FALSE /\ r.before = changes[n].before
  BY <1>1, <1>2 DEF ChangeSet
<1>4. FailedAt(n) = [changes EXCEPT ![n] = r]
  BY <1>1 DEF FailedAt
<1> QED
  BY <1>2, <1>3, <1>4, ExceptSeq, LenProperties

LEMMA PollFields ==
  ASSUME EngineTypeOK, NEW p \in Polls, poll[p] # NoPoll
  PROVE  /\ poll[p].undo \in DOMAIN changes /\ poll[p].undo \in DOMAIN writes
         /\ poll[p].todo \subseteq DOMAIN changes
         /\ poll[p].value \in {Absent} \cup Records
         /\ IdOf(poll[p].undo) \in Ids
<1>1. poll[p] \in PollSet
  BY DEF EngineTypeOK
<1>2. poll[p].undo \in DOMAIN changes /\ poll[p].todo \subseteq DOMAIN changes
      /\ poll[p].value \in {Absent} \cup Records
  BY <1>1 DEF PollSet
<1>3. DOMAIN changes = 1..Len(changes) /\ DOMAIN writes = 1..Len(writes) /\ Len(writes) \in Nat
  BY LenProperties DEF EngineTypeOK, TypeOK
<1>4. poll[p].undo \in DOMAIN writes
  BY <1>2, <1>3 DEF EngineTypeOK
<1> QED
  BY <1>2, <1>4, WriteFields DEF EngineTypeOK, IdOf

LEMMA PollTypes ==
  ASSUME EngineTypeOK, NEW p \in Polls, PollStart(p) \/ Rollback(p)
  PROVE  EngineTypeOK'
<1>1. /\ TypeOK /\ changes \in Seq(ChangeSet) /\ poll \in [Polls -> PollSet]
      /\ watcher \in BOOLEAN /\ overlapped \in BOOLEAN
      /\ Len(changes) = IF setting \in Tracked THEN Len(writes) ELSE 0
  BY DEF EngineTypeOK
<1>2. CASE PollStart(p)
  <2>1. GoOver(p, Syncing(changes), changes) /\ UNCHANGED <<setting, client>>
        /\ overlapped' = (overlapped \/ \E q \in Polls : poll[q] # NoPoll)
    BY <1>2 DEF PollStart
  <2>2. Syncing(changes) \in SUBSET DOMAIN changes
    BY DEF Syncing
  <2>3. changes' \in Seq(ChangeSet) /\ Len(changes') = Len(changes)
        /\ poll' \in [Polls -> PollSet'] /\ watcher' \in BOOLEAN
    BY <1>1, <2>1, <2>2, GoOverTypes
  <2>4. TypeOK'
    BY <1>1, <2>1 DEF TypeOK, client, network, queues, ItemSet
  <2> QED
    BY <1>1, <2>1, <2>3, <2>4 DEF EngineTypeOK, client
<1>3. CASE Rollback(p)
  <2>1. PICK n : n = poll[p].undo
    OBVIOUS
  <2>2. poll[p] # NoPoll /\ GoOver(p, poll[p].todo, FailedAt(n)) /\ overlapped' = overlapped
        /\ local' = [local EXCEPT ![IdOf(n)] = poll[p].value]
    BY <1>3, <2>1 DEF Rollback, FailedAt
  <2>3. n \in DOMAIN changes /\ poll[p].todo \subseteq DOMAIN changes
        /\ poll[p].value \in {Absent} \cup Records /\ IdOf(n) \in Ids
    BY <2>1, <2>2, PollFields
  <2>4. FailedAt(n) \in Seq(ChangeSet) /\ Len(FailedAt(n)) = Len(changes)
        /\ DOMAIN FailedAt(n) = DOMAIN changes
    BY <1>1, <2>3, FailedTypes
  <2>5. changes' \in Seq(ChangeSet) /\ Len(changes') = Len(changes)
        /\ poll' \in [Polls -> PollSet'] /\ watcher' \in BOOLEAN
    BY <1>1, <2>2, <2>3, <2>4, GoOverTypes
  <2>6. local' \in Copies
    BY <1>1, <2>2, <2>3 DEF TypeOK, Copies
  <2>7. UNCHANGED <<setting, server, used, newest, writes, confirmed, heap, queueAt,
                    draining, gaveUp, drain, attempts, call, sync, synced, losses, syncs>>
    BY <1>3 DEF Rollback, network, queues
  <2>8. TypeOK'
    BY <1>1, <2>6, <2>7 DEF TypeOK, ItemSet
  <2> QED
    BY <1>1, <2>2, <2>5, <2>7, <2>8 DEF EngineTypeOK
<1> QED
  BY <1>2, <1>3

\* A call addresses a record the user knows, or goes on with one.
Addressed(i) ==
    \/ i \in LocalIds \/ Visible(i)
    \/ \E c \in Callers : call[c] # NoCall /\ call[c].id = i

\* The steps of a call up to its write: one call of id i is read or stored as x,
\* and is to be queued if it stored anything.
Touched(i, x) ==
    /\ local' = [local EXCEPT ![i] = x]
    /\ Addressed(i)
    /\ \E c \in Callers : \E r \in CallSet :
          /\ call' = [call EXCEPT ![c] = r]
          /\ r # NoCall /\ r.id = i /\ call[c].pc # "queue"
          /\ x # local[i] => r.pc = "queue"
          /\ r.type = "create" =>
                r.before = Absent \/ (r.type = call[c].type /\ r.before = call[c].before)
    /\ UNCHANGED <<setting, network, writes, confirmed, queues, attempts, sync, synced, losses, syncs>>

\* Their last: the write is made and queued; b is what the engine read before.
Wrote(t, i, v, b) ==
    /\ Made(t, i, v) /\ Enqueue(Len(writes) + 1, i)
    /\ \E c \in Callers :
          /\ call[c].pc = "queue" /\ call[c].type = t /\ call[c].id = i /\ call[c].before = b
          /\ call' = [call EXCEPT ![c] = NoCall]
    /\ UNCHANGED <<setting, local, network, confirmed, attempts, sync, synced, losses, syncs>>

Kinds == {"create", "update", "delete"}
Values == {Absent} \cup Records

LEMMA CallFields ==
  ASSUME NEW r \in CallSet, r.pc # "none"
  PROVE  /\ r \in [pc : {"asked", "read", "queue"}, type : Types, id : Ids, own : Fields,
                   data : Records, before : {Absent} \cup Records]
         /\ r # NoCall
BY DEF CallSet, NoCall

\* A call begins.
LEMMA CallBegins ==
  ASSUME TypeOK, NEW c \in Callers, Calls(c), NEW pc \in {"asked", "read", "queue"},
         NEW t \in Types, NEW i \in Ids, NEW v \in Records, NEW b \in Values, NEW x \in Values,
         Called(c, pc, t, i, v, b), t = "create" => b = Absent, x # local[i] => pc = "queue",
         i \in LocalIds \/ Visible(i), local' = [local EXCEPT ![i] = x],
         UNCHANGED <<setting, network, writes, confirmed, queues, attempts, sync, synced, losses, syncs>>
  PROVE  Touched(i, x)
<1> DEFINE r == [pc |-> pc, type |-> t, id |-> i, data |-> v, own |-> <<Len(writes) + 1, c>>,
                 before |-> b]
<1>1. <<Len(writes) + 1, c>> \in Fields
  <2>1. Len(writes) \in Nat /\ Len(writes) < MaxWrites
    BY LenProperties DEF TypeOK, Calls
  <2>2. Len(writes) + 1 \in Writes
    BY <2>1, BoundsAssumption DEF Writes
  <2> QED
    BY <2>2 DEF Fields
<1>2. r \in CallSet /\ r # NoCall /\ r.id = i /\ r.pc = pc /\ r.type = t /\ r.before = b
  BY <1>1 DEF CallSet, NoCall, Values
<1>3. call' = [call EXCEPT ![c] = r] /\ call[c].pc # "queue"
  BY DEF Called, Calls, NoCall
<1> HIDE DEF r
<1> QED
  BY <1>2, <1>3 DEF Touched, Addressed

\* A call goes on.
LEMMA CallGoesOn ==
  ASSUME TypeOK, NEW c \in Callers, call[c].pc \in {"asked", "read"},
         NEW pc \in {"read", "queue"}, NEW v \in Records, NEW x \in Values,
         call' = [call EXCEPT ![c] = [call[c] EXCEPT !.pc = pc, !.data = v]],
         x # local[call[c].id] => pc = "queue", local' = [local EXCEPT ![call[c].id] = x],
         UNCHANGED <<setting, network, writes, confirmed, queues, attempts, sync, synced, losses, syncs>>
  PROVE  call[c].id \in Ids /\ Touched(call[c].id, x)
<1>1. call[c] \in CallSet
  BY DEF TypeOK
<1>2. /\ call[c] \in [pc : {"asked", "read", "queue"}, type : Types, id : Ids, own : Fields,
                      data : Records, before : {Absent} \cup Records]
      /\ call[c] # NoCall
  BY <1>1, CallFields
<1>3. PICK r : r = [call[c] EXCEPT !.pc = pc, !.data = v]
  OBVIOUS
<1>4. r \in CallSet /\ r.pc = pc /\ r # NoCall /\ r.id = call[c].id /\ r.type = call[c].type
      /\ r.before = call[c].before
  BY <1>2, <1>3 DEF CallSet, NoCall
<1>5. call' = [call EXCEPT ![c] = r]
  BY <1>3
<1> QED
  BY <1>2, <1>4, <1>5 DEF Touched, Addressed

LEMMA CreateForm ==
  ASSUME TypeOK, NEW c \in Callers, Create(c)
  PROVE  \E i \in Ids : \E x \in Values : Touched(i, x)
<1>1. PICK i \in LocalIds : /\ Called(c, "queue", "create", i, {<<Len(writes) + 1, c>>}, Absent)
                            /\ local' = [local EXCEPT ![i] = {<<Len(writes) + 1, c>>}]
  BY DEF Create
<1>2. {<<Len(writes) + 1, c>>} \in Records
  <2>1. Len(writes) \in Nat /\ Len(writes) < MaxWrites
    BY LenProperties DEF TypeOK, Create, Calls
  <2>2. Len(writes) + 1 \in Writes
    BY <2>1, BoundsAssumption DEF Writes
  <2> QED
    BY <2>2 DEF Records, Fields
<1>3. /\ Calls(c)
      /\ UNCHANGED <<setting, network, writes, confirmed, queues, attempts, sync, synced, losses, syncs>>
  BY DEF Create
<1>4. PICK v \in Records : v = {<<Len(writes) + 1, c>>}
  BY <1>2
<1>5. i \in Ids /\ "create" \in Types /\ Absent \in Values /\ v \in Values
  BY DEF Ids, Types, Values
<1>6. Called(c, "queue", "create", i, v, Absent) /\ local' = [local EXCEPT ![i] = v]
  BY <1>1, <1>4
<1>7. Touched(i, v)
  BY <1>3, <1>5, <1>6, CallBegins
<1> QED
  BY <1>5, <1>7

\* Calls that read a record.
LEMMA ReadForm ==
  ASSUME TypeOK, NEW c \in Callers, Calls(c), NEW i \in Ids, Visible(i),
         NEW pc \in {"asked", "read"}, NEW t \in {"update", "delete"}, NEW v \in Records,
         NEW b \in Values, Called(c, pc, t, i, v, b),
         UNCHANGED <<setting, local, network, writes, confirmed, queues, attempts, sync, synced,
                     losses, syncs>>
  PROVE  \E x \in Values : Touched(i, x)
<1>1. local \in [Ids -> Values]
  BY DEF TypeOK, Copies, Values
<1>2. PICK x \in Values : x = local[i]
  BY <1>1
<1>3. local' = [local EXCEPT ![i] = x]
  BY <1>1, <1>2
<1>4. t \in Types /\ t # "create" /\ pc \in {"asked", "read", "queue"}
  BY DEF Types
<1>5. UNCHANGED <<setting, network, writes, confirmed, queues, attempts, sync, synced, losses, syncs>>
  OBVIOUS
<1>6. Touched(i, x)
  <2>1. (t = "create" => b = Absent) /\ (x # local[i] => pc = "queue")
    BY <1>2, <1>4
  <2>2. i \in LocalIds \/ Visible(i)
    OBVIOUS
  <2> QED
    BY ONLY TypeOK, c \in Callers, Calls(c), <1>4, i \in Ids, v \in Records, b \in Values,
            x \in Values, Called(c, pc, t, i, v, b), <2>1, <2>2, <1>3, <1>5, CallBegins
<1> QED
  BY <1>6

LEMMA UpdateReadForm ==
  ASSUME TypeOK, NEW c \in Callers, UpdateRead(c)
  PROVE  \E i \in Ids : \E x \in Values : Touched(i, x)
<1>1. PICK i \in Ids : Visible(i) /\ Called(c, "read", "update", i, local[i], Absent)
  BY DEF UpdateRead
<1>2. local[i] \in Records /\ Absent \in Values
  BY <1>1 DEF Visible, TypeOK, Copies, Values
<1>3. PICK v \in Records : v = local[i]
  BY <1>2
<1>4. Called(c, "read", "update", i, v, Absent)
  BY <1>1, <1>3
<1> QED
  BY <1>1, <1>2, <1>4, ReadForm DEF UpdateRead

LEMMA AskForm ==
  ASSUME TypeOK, NEW c \in Callers, Ask(c)
  PROVE  \E i \in Ids : \E x \in Values : Touched(i, x)
<1>1. PICK i \in Ids, t \in {"update", "delete"} : Visible(i) /\ Called(c, "asked", t, i, {}, local[i])
  BY DEF Ask
<1>2. local[i] \in Values /\ {} \in Records
  BY DEF TypeOK, Copies, Values, Records
<1>3. PICK b \in Values, v \in Records : b = local[i] /\ v = {}
  BY <1>2
<1>4. Called(c, "asked", t, i, v, b)
  BY <1>1, <1>3
<1> QED
  BY <1>1, <1>4, ReadForm DEF Ask

LEMMA EngineUpdateReadForm ==
  ASSUME TypeOK, NEW c \in Callers, EngineUpdateRead(c)
  PROVE  \E i \in Ids : \E x \in Values : Touched(i, x)
<1>1. local \in [Ids -> Values]
  BY DEF TypeOK, Copies, Values
<1>2. call[c].id \in Ids
  BY CallFields DEF TypeOK, EngineUpdateRead
<1>3. PICK x \in Values : x = local[call[c].id]
  BY <1>1, <1>2
<1>4. local' = [local EXCEPT ![call[c].id] = x]
  BY <1>1, <1>3 DEF EngineUpdateRead
<1>5. (IF x = Absent THEN {} ELSE x) \in Records
  BY DEF Values, Records
<1>6. PICK v \in Records : v = IF x = Absent THEN {} ELSE x
  BY <1>5
<1>7. call' = [call EXCEPT ![c] = [call[c] EXCEPT !.pc = "read", !.data = v]]
  BY <1>3, <1>6 DEF EngineUpdateRead
<1>8. /\ call[c].pc \in {"asked", "read"}
      /\ UNCHANGED <<setting, network, writes, confirmed, queues, attempts, sync, synced, losses, syncs>>
  BY DEF EngineUpdateRead
<1>9. Touched(call[c].id, x)
  BY <1>3, <1>4, <1>7, <1>8, CallGoesOn
<1> QED
  BY <1>2, <1>9

LEMMA UpdateStoreForm ==
  ASSUME TypeOK, NEW c \in Callers, UpdateStore(c)
  PROVE  \E i \in Ids : \E x \in Values : Touched(i, x)
<1>1. call[c].id \in Ids /\ call[c].data \in Records /\ call[c].own \in Fields
  BY CallFields DEF TypeOK, UpdateStore
<1>2. PICK v \in Records : v = call[c].data \cup {call[c].own}
  BY <1>1 DEF Records
<1>3. v \in Values /\ "queue" \in {"read", "queue"} /\ call[c].pc \in {"asked", "read"}
  BY DEF Values, UpdateStore
<1>4. /\ local' = [local EXCEPT ![call[c].id] = v]
      /\ call' = [call EXCEPT ![c] = [call[c] EXCEPT !.pc = "queue", !.data = v]]
      /\ UNCHANGED <<setting, network, writes, confirmed, queues, attempts, sync, synced, losses, syncs>>
  BY <1>2 DEF UpdateStore
<1>5. Touched(call[c].id, v)
  BY <1>3, <1>4, CallGoesOn
<1> QED
  BY <1>1, <1>3, <1>5

LEMMA RemoveForm ==
  ASSUME TypeOK, NEW c \in Callers, Remove(c)
  PROVE  \E i \in Ids : \E x \in Values : Touched(i, x)
<1>1. PICK i \in Ids : /\ Visible(i) /\ Called(c, "queue", "delete", i, {}, Absent)
                       /\ local' = [local EXCEPT ![i] = Absent]
  BY DEF Remove
<1>2. {} \in Records /\ Absent \in Values /\ "delete" \in Types /\ "delete" # "create"
  BY DEF Records, Values, Types
<1>3. Touched(i, Absent)
  BY <1>1, <1>2, CallBegins DEF Remove
<1> QED
  BY <1>2, <1>3

LEMMA EngineRemoveForm ==
  ASSUME TypeOK, NEW c \in Callers, EngineRemove(c)
  PROVE  \E i \in Ids : \E x \in Values : Touched(i, x)
<1>1. /\ call[c] \in [pc : {"asked", "read", "queue"}, type : Types, id : Ids, own : Fields,
                      data : Records, before : {Absent} \cup Records]
      /\ call[c].pc \in {"asked", "read"}
  BY CallFields DEF TypeOK, EngineRemove
<1>2. PICK v \in Records : v = call[c].data
  BY <1>1
<1>3. [call[c] EXCEPT !.pc = "queue"] = [call[c] EXCEPT !.pc = "queue", !.data = v]
  BY <1>1, <1>2
<1>4. /\ local' = [local EXCEPT ![call[c].id] = Absent]
      /\ call' = [call EXCEPT ![c] = [call[c] EXCEPT !.pc = "queue", !.data = v]]
      /\ UNCHANGED <<setting, network, writes, confirmed, queues, attempts, sync, synced, losses, syncs>>
  BY <1>3 DEF EngineRemove
<1>5. Absent \in Values /\ "queue" \in {"read", "queue"}
  BY DEF Values
<1>6. call[c].id \in Ids /\ Touched(call[c].id, Absent)
  BY <1>1, <1>4, <1>5, CallGoesOn
<1> QED
  BY <1>5, <1>6

LEMMA QueueForm ==
  ASSUME TypeOK, NEW c \in Callers, QueueWrite(c)
  PROVE  \E t \in Kinds, i \in Ids, v \in Records : Wrote(t, i, v, call[c].before)
<1>1. /\ call[c].type \in Types /\ call[c].id \in Ids /\ call[c].own \in Fields
      /\ call[c].data \in Records
  BY CallFields DEF TypeOK, QueueWrite
<1>2. PICK t \in Kinds, i \in Ids, f \in Fields, v \in Records :
          t = call[c].type /\ i = call[c].id /\ f = call[c].own /\ v = call[c].data
  BY <1>1 DEF Kinds, Types
<1>3. /\ Len(writes) < MaxWrites /\ call[c].pc = "queue"
      /\ writes' = Append(writes, [type |-> t, id |-> i, own |-> f, data |-> v])
      /\ Enqueue(Len(writes) + 1, i) /\ call' = [call EXCEPT ![c] = NoCall]
      /\ UNCHANGED <<setting, local, network, confirmed, attempts, sync, synced, losses, syncs>>
  BY <1>2 DEF QueueWrite
<1>4. Made(t, i, v)
  BY <1>3 DEF Made
<1>5. Wrote(t, i, v, call[c].before)
  BY <1>2, <1>3, <1>4 DEF Wrote
<1> QED
  BY <1>5

\* The steps of the client and its engine.
LEMMA StepForms ==
  ASSUME EngineTypeOK, [EngineNext]_trackedVars
  PROVE  \/ \E d \in Drains : (DrainStep(d) \/ Lose(d)) /\ UNCHANGED engine
         \/ (SyncFetch \/ SyncStore) /\ UNCHANGED engine
         \/ \E i \in Ids, x \in Values : Touched(i, x) /\ UNCHANGED engine
         \/ \E t \in Kinds, i \in Ids, v \in Records, b \in Values :
               Wrote(t, i, v, b) /\ setting \notin Tracked /\ UNCHANGED engine
         \/ \E t \in Kinds, i \in Ids, v \in Records, b \in Values :
               Wrote(t, i, v, b) /\ setting \in Tracked /\ Track(b)
         \/ \E p \in Polls : PollStart(p) \/ Rollback(p)
         \/ UNCHANGED trackedVars
<1>1. TypeOK /\ setting.users \subseteq Callers
  BY SettingsAssumption DEF EngineTypeOK, TypeOK
<1>2. ASSUME NEW c \in Callers, QueueWrite(c) PROVE call[c].before \in Values
  BY <1>1, <1>2, CallFields DEF TypeOK, QueueWrite, Values
<1>3. CASE ClientStep
  BY <1>3 DEF ClientStep
<1>4. ASSUME NEW c \in setting.users, setting \in Tracked, Edit(c)
      PROVE  \/ \E i \in Ids, x \in Values : Touched(i, x) /\ UNCHANGED engine
             \/ \E t \in Kinds, i \in Ids, v \in Records, b \in Values :
                   Wrote(t, i, v, b) /\ setting \in Tracked /\ Track(b)
  <2>0. c \in Callers
    BY <1>1
  <2>1. CASE EngineCreate(c)
    BY <1>1, <2>0, <2>1, CreateForm DEF EngineCreate
  <2>2. CASE Ask(c)
    <3>1. UNCHANGED engine
      BY <2>2 DEF Ask
    <3> QED
      BY <1>1, <2>0, <2>2, <3>1, AskForm
  <2>3. CASE EngineUpdateRead(c)
    <3>1. UNCHANGED engine
      BY <2>3 DEF EngineUpdateRead
    <3> QED
      BY <1>1, <2>0, <2>3, <3>1, EngineUpdateReadForm
  <2>4. CASE EngineUpdateStore(c)
    BY <1>1, <2>0, <2>4, UpdateStoreForm DEF EngineUpdateStore
  <2>5. CASE EngineRemove(c)
    <3>1. UNCHANGED engine
      BY <2>5 DEF EngineRemove
    <3> QED
      BY <1>1, <2>0, <2>5, <3>1, EngineRemoveForm
  <2>6. CASE EngineQueue(c)
    <3>1. QueueWrite(c) /\ Track(call[c].before)
      BY <2>6 DEF EngineQueue
    <3>2. PICK t \in Kinds, i \in Ids, v \in Records : Wrote(t, i, v, call[c].before)
      BY <1>1, <2>0, <3>1, QueueForm
    <3> QED
      BY <1>2, <1>4, <2>0, <3>1, <3>2
  <2> QED
    BY <1>4, <2>1, <2>2, <2>3, <2>4, <2>5, <2>6 DEF Edit
<1>5. ASSUME NEW c \in setting.users, setting \notin Tracked, DirectCall(c)
      PROVE  \/ \E i \in Ids, x \in Values : Touched(i, x) /\ UNCHANGED engine
             \/ \E t \in Kinds, i \in Ids, v \in Records, b \in Values :
                   Wrote(t, i, v, b) /\ setting \notin Tracked /\ UNCHANGED engine
  <2>0. c \in Callers /\ UNCHANGED engine
    BY <1>1, <1>5 DEF DirectCall
  <2>1. CASE Create(c) \/ UpdateRead(c) \/ UpdateStore(c) \/ Remove(c)
    BY <1>1, <2>0, <2>1, CreateForm, UpdateReadForm, UpdateStoreForm, RemoveForm
  <2>2. CASE QueueWrite(c)
    <3>1. PICK t \in Kinds, i \in Ids, v \in Records : Wrote(t, i, v, call[c].before)
      BY <1>1, <2>0, <2>2, QueueForm
    <3> QED
      BY <1>2, <1>5, <2>0, <2>2, <3>1
  <2> QED
    BY <1>5, <2>1, <2>2 DEF DirectCall
<1>6. CASE \E p \in Polls : PollStart(p) \/ Rollback(p)
  BY <1>6
<1>7. CASE UNCHANGED trackedVars
  BY <1>7
<1> QED
  BY <1>3, <1>4, <1>5, <1>6, <1>7 DEF EngineNext

\* Such a step of a call keeps its types.
LEMMA TouchTypes ==
  ASSUME TypeOK, NEW i \in Ids, NEW x \in Values, Touched(i, x)
  PROVE  TypeOK' /\ UNCHANGED <<setting, writes>>
<1>1. /\ local' = [local EXCEPT ![i] = x]
      /\ UNCHANGED <<setting, server, used, newest, writes, confirmed, heap, queueAt, draining,
                     gaveUp, drain, attempts, sync, synced, losses, syncs>>
  BY DEF Touched, network, queues
<1>2. local' \in Copies
  BY <1>1 DEF TypeOK, Copies, Values
<1>3. call' \in [Callers -> CallSet]
  BY DEF Touched, TypeOK
<1> QED
  BY <1>1, <1>2, <1>3 DEF TypeOK, ItemSet

LEMMA TypesKept ==
  ASSUME EngineTypeOK, [EngineNext]_trackedVars
  PROVE  EngineTypeOK'
<1>1. /\ TypeOK /\ changes \in Seq(ChangeSet) /\ poll \in [Polls -> PollSet]
      /\ watcher \in BOOLEAN /\ overlapped \in BOOLEAN
      /\ Len(changes) = IF setting \in Tracked THEN Len(writes) ELSE 0
  BY DEF EngineTypeOK
<1>2. ASSUME TypeOK', UNCHANGED engine, UNCHANGED <<setting, writes>>
      PROVE  EngineTypeOK'
  BY <1>1, <1>2 DEF EngineTypeOK, engine, PollSet
<1>3. ASSUME NEW d \in Drains, DrainStep(d) \/ Lose(d), UNCHANGED engine
      PROVE  EngineTypeOK'
  <2>1. UNCHANGED <<setting, writes>>
    BY <1>3 DEF DrainStep, DeliverCreate, DeliverChange, DeliverMissing, Lose, StoreDelete, StoreResult,
                Advance, BackOff, Retry, GiveUp
  <2>2. TypeOK'
    BY <1>1, <1>3, AnswerTypes, AdvanceTypes, RetryTypes DEF DrainStep
  <2> QED
    BY <1>2, <1>3, <2>1, <2>2
<1>4. ASSUME SyncFetch \/ SyncStore, UNCHANGED engine
      PROVE  EngineTypeOK'
  <2>1. UNCHANGED <<setting, writes>>
    BY <1>4 DEF SyncFetch, SyncStore
  <2> QED
    BY <1>1, <1>2, <1>4, <2>1, SyncTypes
<1>5. ASSUME NEW i \in Ids, NEW x \in Values, Touched(i, x), UNCHANGED engine
      PROVE  EngineTypeOK'
  BY <1>1, <1>2, <1>5, TouchTypes
<1>6. ASSUME NEW t \in Kinds, NEW i \in Ids, NEW v \in Records, NEW b \in Values,
             Wrote(t, i, v, b)
      PROVE  /\ TypeOK' /\ Len(writes') = Len(writes) + 1 /\ setting' = setting
  <2>1. t \in {"create", "update", "delete"}
    BY DEF Kinds
  <2>2. Made(t, i, v) /\ Enqueue(Len(writes) + 1, i)
        /\ UNCHANGED <<setting, local, network, confirmed, attempts, sync, synced, losses, syncs>>
    BY <1>6 DEF Wrote
  <2>3. call' \in [Callers -> CallSet]
    BY <1>1, <1>6 DEF Wrote, TypeOK, CallSet
  <2>4. TypeOK'
    BY <1>1, <2>1, <2>2, <2>3, WriteTypes
  <2>5. Len(writes') = Len(writes) + 1
    BY <1>1, <2>1, <2>2, MadeTypes
  <2> QED
    BY <2>2, <2>4, <2>5
<1>7. ASSUME NEW t \in Kinds, NEW i \in Ids, NEW v \in Records, NEW b \in Values,
             Wrote(t, i, v, b), setting \notin Tracked, UNCHANGED engine
      PROVE  EngineTypeOK'
  BY <1>1, <1>6, <1>7 DEF EngineTypeOK, engine, PollSet
<1>8. ASSUME NEW t \in Kinds, NEW i \in Ids, NEW v \in Records, NEW b \in Values,
             Wrote(t, i, v, b), setting \in Tracked, Track(b)
      PROVE  EngineTypeOK'
  <2>1. PICK r : r = [state |-> "syncing", before |-> b, kept |-> TRUE]
    OBVIOUS
  <2>2. r \in ChangeSet
    BY <2>1 DEF ChangeSet, Values
  <2>3. changes' = Append(changes, r) /\ watcher' = TRUE /\ poll' = poll /\ overlapped' = overlapped
    BY <1>8, <2>1 DEF Track
  <2>4. changes' \in Seq(ChangeSet) /\ Len(changes') = Len(changes) + 1
    BY <1>1, <2>2, <2>3, AppendProperties
  <2>5. DOMAIN changes \subseteq DOMAIN changes'
    BY <1>1, <2>4, LenProperties
  <2>6. PollSet \subseteq PollSet'
    BY <2>5 DEF PollSet
  <2>7. poll' \in [Polls -> PollSet']
    BY <1>1, <2>3, <2>6
  <2>8. TypeOK' /\ Len(writes') = Len(writes) + 1 /\ setting' = setting
    BY <1>6, <1>8
  <2> QED
    BY <1>1, <1>8, <2>3, <2>4, <2>7, <2>8 DEF EngineTypeOK
<1>9. CASE UNCHANGED trackedVars
  <2>1. TypeOK'
    BY <1>1, <1>9 DEF trackedVars, vars, TypeOK, ItemSet
  <2> QED
    BY <1>2, <1>9, <2>1 DEF trackedVars, vars
<1> QED
  BY <1>3, <1>4, <1>5, <1>7, <1>8, <1>9, StepForms, PollTypes

\* The state of the client and the engine has its types: an id's queue is a
\* queue of writes that were made, every drain works on an array of the heap,
\* and every poll on changes that are tracked.
THEOREM TypeCorrect == EngineSpec => []EngineTypeOK
<1>1. EngineInit => EngineTypeOK
  <2> SUFFICES ASSUME EngineInit PROVE EngineTypeOK
    OBVIOUS
  <2>1. /\ setting \in Settings /\ writes = <<>> /\ heap = <<>> /\ synced = <<>> /\ changes = <<>>
        /\ used = Existing /\ confirmed = {} /\ draining = {} /\ losses = 0 /\ syncs = 0
        /\ watcher = FALSE /\ overlapped = FALSE
    BY DEF EngineInit, Init
  <2>2. Len(writes) = 0 /\ Len(heap) = 0 /\ Len(changes) = 0
    BY <2>1
  <2>3. {} \in Records
    BY DEF Records
  <2>4. local \in Copies /\ server \in Copies /\ sync \in [on : BOOLEAN, items : Copies]
    BY <2>3 DEF EngineInit, Init, Copies, NoSync
  <2>5. /\ newest \in [Ids -> 0..Len(writes)] /\ queueAt \in [Ids -> 0..Len(heap)]
        /\ gaveUp \in [Ids -> 0..Len(writes)] /\ attempts \in [Writes -> 0..MaxAttempts]
    BY <2>2, BoundsAssumption DEF EngineInit, Init
  <2>6. drain \in [Drains -> DrainSet(ItemSet, DOMAIN heap)]
    BY DEF EngineInit, Init, DrainSet
  <2>7. call \in [Callers -> CallSet]
    BY DEF EngineInit, Init, CallSet
  <2>8. writes \in Seq(WriteSet) /\ heap \in Seq(Seq(ItemSet)) /\ synced \in Seq(Copies)
        /\ changes \in Seq(ChangeSet)
    BY <2>1, EmptySeq
  <2>9. poll \in [Polls -> PollSet]
    BY DEF EngineInit, PollSet
  <2>10. losses \in 0..setting.losses /\ syncs \in 0..setting.syncs
    BY <2>1, SettingsAssumption
  <2>11. used \subseteq Ids
    BY <2>1, ExistingAssumption DEF Ids
  <2>12. Len(writes) <= MaxWrites
    BY <2>2, BoundsAssumption
  <2>13. confirmed \subseteq DOMAIN writes /\ draining \subseteq Ids
    BY <2>1
  <2>14. TypeOK
    BY <2>1, <2>4, <2>5, <2>6, <2>7, <2>8, <2>10, <2>11, <2>12, <2>13 DEF TypeOK
  <2> QED
    BY <2>1, <2>2, <2>8, <2>9, <2>14 DEF EngineTypeOK
<1> QED
  BY <1>1, TypesKept, PTL DEF EngineSpec

-----------------------------------------------------------------------------
(* What the steps do to the queues. *)

QueueOf(h, at, i) == IF at[i] = 0 THEN <<>> ELSE h[at[i]]

\* Drain d, working on k, took the head of its queue or stopped; no other moved.
Takes(d, k) ==
    /\ \A e \in Drains : e # d => drain'[e] = drain[e]
    /\ \/ drain'[d] = Off
       \/ drain'[d].pc = "sending" /\ drain'[d].key = k

\* The queues h, filed by at, suit the other drains when d turns to key k.
Fits(I, d, k, h, at, busy) ==
    /\ d \in Drains /\ k \in busy /\ busy \in SUBSET Ids
    /\ h \in Seq(Seq(I)) /\ at \in [Ids -> 0..Len(h)]
    /\ drain \in [Drains -> DrainSet(I, DOMAIN h)]
    /\ \A i \in Ids : i # k => (at[i] # 0 <=> i \in busy)
    /\ \A i \in Ids : i # k /\ at[i] # 0 => h[at[i]] # <<>>
    /\ \A i, j \in Ids : at[i] # 0 /\ at[i] = at[j] => i = j
    /\ \A e \in Drains : e # d /\ Running(e) =>
          /\ drain[e].key \in busy \ {k} /\ drain[e].array = at[drain[e].key]
          /\ drain[e].item = Head(h[drain[e].array])
    /\ \A e, f \in Drains : e # d /\ f # d /\ Running(e) /\ Running(f)
                           /\ drain[e].key = drain[f].key => e = f

Refiled(h, at) == \A i \in Ids : Queue(i)' = QueueOf(h, at, i)

LEMMA LoopTopFiled ==
  ASSUME NEW I, NEW d, NEW k, NEW h, NEW at, NEW busy,
         Fits(I, d, k, h, at, busy), LoopTop(d, k, h, at, busy)
  PROVE  Filed' /\ Refiled(h, at) /\ Takes(d, k)
<1> USE DEF Fits
<1>1. heap' = h /\ Len(h) \in Nat /\ DOMAIN h = 1..Len(h)
  BY LenProperties DEF LoopTop
<1>2. CASE at[k] = 0 \/ h[at[k]] = <<>>
  <2>1. /\ drain' = [drain EXCEPT ![d] = Off]
        /\ queueAt' = [at EXCEPT ![k] = 0]
        /\ draining' = busy \ {k}
    BY <1>2 DEF LoopTop
  <2>2. drain'[d] = Off /\ drain'[d].pc = "off" /\ \A e \in Drains : e # d => drain'[e] = drain[e]
    BY <2>1 DEF Off
  <2>3. queueAt'[k] = 0 /\ \A i \in Ids : i # k => queueAt'[i] = at[i]
    BY <2>1
  <2>4. \A i \in Ids : Queue(i)' = QueueOf(h, at, i)
    BY <1>1, <1>2, <2>3 DEF Queue, QueueOf
  <2>5. (\A i \in Ids : queueAt[i] # 0 <=> i \in draining)'
    BY <2>1, <2>3
  <2>6. (\A i \in Ids : queueAt[i] # 0 => heap[queueAt[i]] # <<>>)'
    BY <1>1, <2>3
  <2>7. (\A i, j \in Ids : queueAt[i] # 0 /\ queueAt[i] = queueAt[j] => i = j)'
    BY <2>3
  <2>8. (\A e \in Drains : Running(e) =>
           /\ drain[e].key \in draining
           /\ drain[e].array = queueAt[drain[e].key]
           /\ drain[e].item = Head(heap[drain[e].array]))'
    BY <1>1, <2>1, <2>2, <2>3 DEF Running
  <2>9. (\A e, f \in Drains : Running(e) /\ Running(f) /\ drain[e].key = drain[f].key => e = f)'
    <3> SUFFICES ASSUME NEW e \in Drains, NEW f \in Drains, drain'[e].pc # "off",
                        drain'[f].pc # "off", drain'[e].key = drain'[f].key
                 PROVE  e = f
      BY DEF Running
    <3>1. e # d /\ f # d
      BY <2>2
    <3>2. drain'[e] = drain[e] /\ drain'[f] = drain[f]
      BY <2>2, <3>1
    <3> QED
      BY <3>1, <3>2 DEF Running
  <2> QED
    BY <2>2, <2>4, <2>5, <2>6, <2>7, <2>8, <2>9 DEF Filed, Takes, Refiled
<1>3. CASE ~(at[k] = 0 \/ h[at[k]] = <<>>)
  <2>1. PICK r : r = [pc |-> "sending", key |-> k, array |-> at[k],
                      item |-> Head(h[at[k]]), to |-> Absent]
    OBVIOUS
  <2>2. drain' = [drain EXCEPT ![d] = r] /\ queueAt' = at /\ draining' = busy
    BY <1>3, <2>1 DEF LoopTop
  <2>3. drain'[d] = r /\ \A e \in Drains : e # d => drain'[e] = drain[e]
    BY <2>2
  <2>4. r.pc = "sending" /\ r.key = k /\ r.array = at[k] /\ r.item = Head(h[at[k]])
    BY <2>1
  <2>5. \A i \in Ids : Queue(i)' = QueueOf(h, at, i)
    BY <1>1, <2>2 DEF Queue, QueueOf
  <2>6. (\A i \in Ids : queueAt[i] # 0 <=> i \in draining)'
    BY <1>3, <2>2
  <2>7. (\A i \in Ids : queueAt[i] # 0 => heap[queueAt[i]] # <<>>)'
    BY <1>1, <1>3, <2>2
  <2>8. (\A i, j \in Ids : queueAt[i] # 0 /\ queueAt[i] = queueAt[j] => i = j)'
    BY <2>2
  <2>9. (\A e \in Drains : Running(e) =>
           /\ drain[e].key \in draining
           /\ drain[e].array = queueAt[drain[e].key]
           /\ drain[e].item = Head(heap[drain[e].array]))'
    BY <1>1, <2>2, <2>3, <2>4 DEF Running
  <2>10. (\A e, f \in Drains : Running(e) /\ Running(f) /\ drain[e].key = drain[f].key => e = f)'
    <3> SUFFICES ASSUME NEW e \in Drains, NEW f \in Drains, drain'[e].pc # "off",
                        drain'[f].pc # "off", drain'[e].key = drain'[f].key
                 PROVE  e = f
      BY DEF Running
    <3>1. CASE e = d \/ f = d
      BY <2>3, <2>4, <3>1 DEF Running
    <3>2. CASE e # d /\ f # d
      <4>1. drain'[e] = drain[e] /\ drain'[f] = drain[f]
        BY <2>3, <3>2
      <4> QED
        BY <3>2, <4>1 DEF Running
    <3> QED
      BY <3>1, <3>2
  <2> QED
    BY <2>3, <2>4, <2>5, <2>6, <2>7, <2>8, <2>9, <2>10 DEF Filed, Takes, Refiled
<1> QED
  BY <1>2, <1>3

LEMMA QueueTypes ==
  ASSUME TypeOK, NEW i \in Ids
  PROVE  /\ Queue(i) \in Seq(ItemSet) /\ Len(Queue(i)) \in Nat
         /\ DOMAIN Queue(i) = 1..Len(Queue(i))
         /\ Queue(i) \in [1..Len(Queue(i)) -> ItemSet]
<1>1. heap \in Seq(Seq(ItemSet)) /\ queueAt \in [Ids -> 0..Len(heap)] /\ Len(heap) \in Nat
  BY LenProperties DEF TypeOK
<1>2. Queue(i) \in Seq(ItemSet)
  <2>1. CASE queueAt[i] = 0
    BY <2>1, EmptySeq DEF Queue
  <2>2. CASE queueAt[i] # 0
    <3>1. queueAt[i] \in 1..Len(heap)
      BY <1>1, <2>2
    <3> QED
      BY <1>1, <2>2, <3>1, ElementOfSeq DEF Queue
  <2> QED
    BY <2>1, <2>2
<1> QED
  BY <1>2, LenProperties

\* A running drain sends the head of the queue of its key.
LEMMA HeadOfQueue ==
  ASSUME TypeOK, Filed, NEW d \in Drains, Running(d)
  PROVE  /\ drain[d].key \in Ids /\ drain[d].key \in draining
         /\ queueAt[drain[d].key] # 0 /\ drain[d].array = queueAt[drain[d].key]
         /\ drain[d].array \in DOMAIN heap /\ heap[drain[d].array] = Queue(drain[d].key)
         /\ Queue(drain[d].key) # <<>> /\ Len(Queue(drain[d].key)) > 0
         /\ 1 \in DOMAIN Queue(drain[d].key)
         /\ drain[d].item = Queue(drain[d].key)[1]
<1>1. drain[d].key \in Ids /\ drain[d].array \in DOMAIN heap
  BY RunningFields DEF Running
<1>2. /\ drain[d].key \in draining /\ drain[d].array = queueAt[drain[d].key]
      /\ drain[d].item = Head(heap[drain[d].array]) /\ queueAt[drain[d].key] # 0
      /\ heap[queueAt[drain[d].key]] # <<>>
  BY <1>1 DEF Filed
<1>3. heap[drain[d].array] = Queue(drain[d].key)
  BY <1>2 DEF Queue
<1>4. PICK s : s = Queue(drain[d].key)
  OBVIOUS
<1>5. s \in Seq(ItemSet) /\ Len(s) \in Nat /\ DOMAIN s = 1..Len(s)
  BY <1>1, <1>4, QueueTypes
<1>6. s # <<>>
  BY <1>2, <1>3, <1>4
<1>7. Len(s) > 0 /\ 1 \in DOMAIN s /\ Head(s) = s[1]
  BY <1>5, <1>6, EmptySeq
<1> QED
  BY <1>1, <1>2, <1>3, <1>4, <1>6, <1>7

\* Write n joins the queue of id i, and a drain may start on it.
Joined(n, i) ==
    /\ Queue(i)' = Append(Queue(i), [n |-> n, id |-> i])
    /\ \A j \in Ids : j # i => Queue(j)' = Queue(j)
Started(i) ==
    \A e \in Drains : \/ drain'[e] = drain[e]
                      \/ /\ drain[e].pc = "off" /\ i \notin draining
                         /\ drain'[e] = Off \/ (drain'[e].pc = "sending" /\ drain'[e].key = i)

\* enqueueWrite puts the write behind the others of its id.
LEMMA EnqueueEffect ==
  ASSUME NEW I, NEW n \in Nat, NEW i \in Ids, [n |-> n, id |-> i] \in I,
         heap \in Seq(Seq(I)), queueAt \in [Ids -> 0..Len(heap)], draining \subseteq Ids,
         drain \in [Drains -> DrainSet(I, DOMAIN heap)], Filed, Enqueue(n, i)
  PROVE  Filed' /\ Joined(n, i) /\ Started(i)
<1> SUFFICES /\ Filed'
             /\ Queue(i)' = Append(Queue(i), [n |-> n, id |-> i])
             /\ \A j \in Ids : j # i => Queue(j)' = Queue(j)
             /\ \A e \in Drains : \/ drain'[e] = drain[e]
                                  \/ /\ drain[e].pc = "off" /\ i \notin draining
                                     /\ \/ drain'[e] = Off
                                        \/ drain'[e].pc = "sending" /\ drain'[e].key = i
  BY DEF Joined, Started
<1>1. PICK item : item = [n |-> n, id |-> i]
  OBVIOUS
<1>2. PICK h : h = IF queueAt[i] = 0 THEN Append(heap, <<item>>)
                ELSE [heap EXCEPT ![queueAt[i]] = Append(@, item)]
  OBVIOUS
<1>3. PICK at : at = IF queueAt[i] = 0 THEN [queueAt EXCEPT ![i] = Len(h)] ELSE queueAt
  OBVIOUS
<1>4. IF i \in draining
      THEN heap' = h /\ queueAt' = at /\ UNCHANGED <<draining, drain>>
      ELSE /\ FreeDrains # {}
           /\ LoopTop(CHOOSE e \in FreeDrains : TRUE, i, h, at, draining \cup {i})
  BY <1>1, <1>2, <1>3 DEF Enqueue
<1>5. Len(heap) \in Nat /\ DOMAIN heap = 1..Len(heap)
  BY LenProperties
<1>6. /\ \A e \in Drains : Running(e) =>
            /\ drain[e].key \in Ids /\ drain[e].key \in draining
            /\ drain[e].array = queueAt[drain[e].key] /\ drain[e].array # 0
            /\ drain[e].array \in 1..Len(heap)
            /\ drain[e].item = Head(heap[drain[e].array])
  <2> SUFFICES ASSUME NEW e \in Drains, Running(e)
               PROVE  /\ drain[e].key \in Ids /\ drain[e].key \in draining
                      /\ drain[e].array = queueAt[drain[e].key] /\ drain[e].array # 0
                      /\ drain[e].array \in 1..Len(heap)
                      /\ drain[e].item = Head(heap[drain[e].array])
    OBVIOUS
  <2>1. drain[e].key \in Ids /\ drain[e].array \in DOMAIN heap
    BY DrainFields DEF Running
  <2> QED
    BY <1>5, <2>1 DEF Filed
<1>7. CASE i \in draining
  <2>1. PICK q : q = queueAt[i]
    OBVIOUS
  <2>2. q \in 1..Len(heap) /\ q # 0 /\ heap[q] # <<>>
    BY <1>5, <1>7, <2>1 DEF Filed
  <2>3. heap[q] \in Seq(I) /\ Queue(i) = heap[q]
    BY <2>1, <2>2, ElementOfSeq DEF Queue
  <2>4. PICK s : s = Append(heap[q], item)
    OBVIOUS
  <2>5. s \in Seq(I) /\ s # <<>> /\ Head(s) = Head(heap[q])
    BY <1>1, <2>2, <2>3, <2>4, AppendProperties, HeadTailAppend
  <2>6. heap' = [heap EXCEPT ![q] = s] /\ queueAt' = queueAt /\ draining' = draining /\ drain' = drain
    BY <1>4, <1>7, <1>2, <1>3, <2>1, <2>2, <2>4
  <2>7. heap'[q] = s /\ \A b \in 1..Len(heap) : b # q => heap'[b] = heap[b]
    BY <1>5, <2>2, <2>5, <2>6, ExceptSeq
  <2>8. \A j \in Ids : j # i => Queue(j)' = Queue(j)
    <3> SUFFICES ASSUME NEW j \in Ids, j # i PROVE Queue(j)' = Queue(j)
      OBVIOUS
    <3>1. queueAt[j] # 0 => queueAt[j] # q /\ queueAt[j] \in 1..Len(heap)
      BY <1>5, <2>1, <2>2 DEF Filed
    <3> QED
      BY <2>6, <2>7, <3>1 DEF Queue
  <2>9. Queue(i)' = s
    BY <2>1, <2>2, <2>6, <2>7 DEF Queue
  <2>10. (\A e \in Drains : Running(e) =>
           /\ drain[e].key \in draining
           /\ drain[e].array = queueAt[drain[e].key]
           /\ drain[e].item = Head(heap[drain[e].array]))'
    <3> SUFFICES ASSUME NEW e \in Drains, Running(e)
                 PROVE  /\ drain[e].key \in draining /\ drain[e].array = queueAt[drain[e].key]
                        /\ drain[e].item = Head(heap'[drain[e].array])
      BY <2>6 DEF Running
    <3>1. CASE drain[e].array = q
      BY <1>6, <2>5, <2>7, <3>1
    <3>2. CASE drain[e].array # q
      BY <1>6, <2>7, <3>2
    <3> QED
      BY <3>1, <3>2
  <2>11. (\A j \in Ids : queueAt[j] # 0 => heap[queueAt[j]] # <<>>)'
    <3> SUFFICES ASSUME NEW j \in Ids, queueAt[j] # 0 PROVE heap'[queueAt[j]] # <<>>
      BY <2>6
    <3>1. queueAt[j] \in 1..Len(heap) /\ heap[queueAt[j]] # <<>>
      BY <1>5 DEF Filed
    <3> QED
      BY <2>5, <2>7, <3>1
  <2>12. Filed'
    <3>1. (\A j \in Ids : queueAt[j] # 0 <=> j \in draining)'
      BY <2>6 DEF Filed
    <3>2. (\A j, l \in Ids : queueAt[j] # 0 /\ queueAt[j] = queueAt[l] => j = l)'
      BY <2>6 DEF Filed
    <3>3. (\A d, e \in Drains : Running(d) /\ Running(e) /\ drain[d].key = drain[e].key => d = e)'
      BY <2>6 DEF Filed, Running
    <3> QED
      BY <2>10, <2>11, <3>1, <3>2, <3>3 DEF Filed
  <2> QED
    BY <1>1, <2>3, <2>4, <2>6, <2>8, <2>9, <2>12
<1>8. CASE i \notin draining
  <2>1. queueAt[i] = 0 /\ Queue(i) = <<>>
    BY <1>8 DEF Filed, Queue
  <2>2. h = Append(heap, <<item>>)
    BY <1>2, <2>1
  <2>3. <<item>> \in Seq(I) /\ <<item>> # <<>> /\ <<item>> = Append(<<>>, item)
    BY <1>1
  <2>4. /\ h \in Seq(Seq(I)) /\ Len(h) = Len(heap) + 1 /\ h[Len(heap) + 1] = <<item>>
        /\ \A b \in 1..Len(heap) : h[b] = heap[b]
    BY <2>2, <2>3, AppendProperties
  <2>5. at = [queueAt EXCEPT ![i] = Len(heap) + 1]
    BY <1>3, <2>1, <2>4
  <2>6. DOMAIN h = 1..Len(h) /\ DOMAIN heap \subseteq DOMAIN h
    BY <1>5, <2>4, LenProperties
  <2>7. at \in [Ids -> 0..Len(h)] /\ at[i] = Len(heap) + 1 /\ \A j \in Ids : j # i => at[j] = queueAt[j]
    BY <1>5, <2>4, <2>5
  <2>8. drain \in [Drains -> DrainSet(I, DOMAIN h)]
    BY <2>6, DrainSetGrows
  <2>9. PICK d : d = CHOOSE e \in FreeDrains : TRUE
    OBVIOUS
  <2>10. d \in Drains /\ drain[d].pc = "off" /\ LoopTop(d, i, h, at, draining \cup {i})
    BY <1>4, <1>8, <2>9 DEF FreeDrains
  <2>11. PICK busy : busy = draining \cup {i}
    OBVIOUS
  <2>20. busy \in SUBSET Ids /\ i \in busy /\ LoopTop(d, i, h, at, busy)
    BY <2>10, <2>11
  <2>12. \A j \in Ids : j # i => (at[j] # 0 <=> j \in busy)
    BY <2>7, <2>11 DEF Filed
  <2>13. \A j \in Ids : j # i /\ at[j] # 0 => h[at[j]] # <<>>
    <3> SUFFICES ASSUME NEW j \in Ids, j # i, at[j] # 0 PROVE h[at[j]] # <<>>
      OBVIOUS
    <3>1. at[j] = queueAt[j] /\ queueAt[j] \in 1..Len(heap) /\ heap[queueAt[j]] # <<>>
      BY <1>5, <2>7 DEF Filed
    <3> QED
      BY <2>4, <3>1
  <2>14. \A j, l \in Ids : at[j] # 0 /\ at[j] = at[l] => j = l
    <3> SUFFICES ASSUME NEW j \in Ids, NEW l \in Ids, at[j] # 0, at[j] = at[l] PROVE j = l
      OBVIOUS
    <3>1. queueAt[j] <= Len(heap) /\ queueAt[l] <= Len(heap)
      BY <1>5
    <3> QED
      BY <1>5, <2>7, <3>1 DEF Filed
  <2>15. \A e \in Drains : e # d /\ Running(e) =>
             /\ drain[e].key \in busy \ {i} /\ drain[e].array = at[drain[e].key]
             /\ drain[e].item = Head(h[drain[e].array])
    BY <1>6, <1>8, <2>4, <2>7, <2>11
  <2>16. \A e, f \in Drains : e # d /\ f # d /\ Running(e) /\ Running(f)
                              /\ drain[e].key = drain[f].key => e = f
    BY DEF Filed
  <2>21. Fits(I, d, i, h, at, busy)
    BY <2>4, <2>7, <2>8, <2>10, <2>20, <2>12, <2>13, <2>14, <2>15, <2>16 DEF Fits
  <2>17. Filed' /\ Refiled(h, at) /\ Takes(d, i)
    BY <2>20, <2>21, LoopTopFiled
  <2>18. Queue(i)' = <<item>>
    <3>1. PICK s : s = <<item>>
      OBVIOUS
    <3>2. Queue(i)' = QueueOf(h, at, i)
      BY <2>17 DEF Refiled
    <3>3. QueueOf(h, at, i) = h[at[i]]
      BY <1>5, <2>7 DEF QueueOf
    <3>4. h[at[i]] = s
      BY <2>4, <2>7, <3>1
    <3> QED
      BY <3>1, <3>2, <3>3, <3>4
  <2>19. \A j \in Ids : j # i => Queue(j)' = Queue(j)
    <3> SUFFICES ASSUME NEW j \in Ids, j # i PROVE Queue(j)' = Queue(j)
      OBVIOUS
    <3>1. at[j] = queueAt[j] /\ (queueAt[j] # 0 => queueAt[j] \in 1..Len(heap))
      BY <1>5, <2>7
    <3> QED
      BY <2>4, <2>17, <3>1 DEF Queue, QueueOf, Refiled
  <2> QED
    BY <1>1, <1>8, <2>1, <2>3, <2>10, <2>17, <2>18, <2>19 DEF Takes
<1> QED
  BY <1>7, <1>8

SameQueues == \A i \in Ids : Queue(i)' = Queue(i)
Popped(k) == Queue(k)' = Tail(Queue(k)) /\ \A i \in Ids : i # k => Queue(i)' = Queue(i)
Moved(k, to) ==
    /\ Queue(k)' = <<>> /\ Queue(to)' = Rest(Tail(Queue(k)), to)
    /\ \A i \in Ids : i # k /\ i # to => Queue(i)' = Queue(i)

\* The other drains work on other keys and arrays than drain d.
LEMMA OtherDrains ==
  ASSUME TypeOK, Filed, NEW d \in Drains, Running(d), NEW e \in Drains, e # d, Running(e)
  PROVE  /\ drain[e].key \in draining \ {drain[d].key} /\ drain[e].key \in Ids
         /\ drain[e].array = queueAt[drain[e].key] /\ drain[e].array # drain[d].array
         /\ drain[e].array \in 1..Len(heap)
         /\ drain[e].item = Head(heap[drain[e].array])
<1>1. /\ drain[e].key \in Ids /\ drain[e].key \in draining /\ queueAt[drain[e].key] # 0
      /\ drain[e].array = queueAt[drain[e].key] /\ drain[e].array \in DOMAIN heap
  BY HeadOfQueue
<1>2. drain[d].key \in Ids /\ drain[d].array = queueAt[drain[d].key]
  BY HeadOfQueue
<1>3. drain[e].key # drain[d].key
  BY DEF Filed
<1>4. drain[e].array # drain[d].array
  BY <1>1, <1>2, <1>3 DEF Filed
<1>5. DOMAIN heap = 1..Len(heap)
  BY LenProperties DEF TypeOK
<1> QED
  BY <1>1, <1>3, <1>4, <1>5 DEF Filed

LEMMA RetryEffect ==
  ASSUME TypeOK, Filed, NEW d \in Drains, Retry(d)
  PROVE  Filed' /\ SameQueues /\ Takes(d, drain[d].key)
<1>1. PICK k : k = drain[d].key
  OBVIOUS
<1>2. Running(d)
  BY DEF Retry, Running
<1>3. k \in Ids /\ k \in draining
  BY <1>1, <1>2, HeadOfQueue
<1>4. heap \in Seq(Seq(ItemSet)) /\ queueAt \in [Ids -> 0..Len(heap)] /\ draining \in SUBSET Ids
      /\ drain \in [Drains -> DrainSet(ItemSet, DOMAIN heap)]
  BY DEF TypeOK
<1>5. \A e \in Drains : e # d /\ Running(e) =>
          /\ drain[e].key \in draining \ {k} /\ drain[e].array = queueAt[drain[e].key]
          /\ drain[e].item = Head(heap[drain[e].array])
  BY <1>1, <1>2, OtherDrains
<1>6. Fits(ItemSet, d, k, heap, queueAt, draining)
  BY <1>3, <1>4, <1>5 DEF Fits, Filed
<1>7. LoopTop(d, k, heap, queueAt, draining)
  BY <1>1 DEF Retry
<1>8. Filed' /\ Refiled(heap, queueAt) /\ Takes(d, k)
  BY <1>6, <1>7, LoopTopFiled
<1>9. \A i \in Ids : QueueOf(heap, queueAt, i) = Queue(i)
  BY DEF QueueOf, Queue
<1> QED
  BY <1>1, <1>8, <1>9 DEF Refiled, SameQueues

LEMMA PopEffect ==
  ASSUME TypeOK, Filed, NEW d \in Drains, Running(d), NEW k, NEW h, NEW at,
         k = drain[d].key, h = Shift(heap, drain[d].array),
         at = IF h[drain[d].array] = <<>> THEN [queueAt EXCEPT ![k] = 0] ELSE queueAt,
         LoopTop(d, k, h, at, draining)
  PROVE  Filed' /\ Popped(k) /\ Takes(d, k)
<1>1. PICK a : a = drain[d].array
  OBVIOUS
<1>2. k \in Ids /\ k \in draining /\ queueAt[k] # 0 /\ a = queueAt[k] /\ a \in DOMAIN heap
      /\ heap[a] = Queue(k) /\ Queue(k) # <<>>
  BY <1>1, HeadOfQueue
<1>3. heap \in Seq(Seq(ItemSet)) /\ queueAt \in [Ids -> 0..Len(heap)] /\ draining \in SUBSET Ids
      /\ drain \in [Drains -> DrainSet(ItemSet, DOMAIN heap)]
      /\ Len(heap) \in Nat /\ DOMAIN heap = 1..Len(heap)
  BY LenProperties DEF TypeOK
<1>4. /\ h \in Seq(Seq(ItemSet)) /\ Len(h) = Len(heap) /\ DOMAIN h = DOMAIN heap
      /\ h[a] = Tail(Queue(k))
      /\ \A b \in DOMAIN heap : b # a => h[b] = heap[b]
  <2>1. h = Shift(heap, a)
    BY <1>1
  <2>2. /\ Shift(heap, a) \in Seq(Seq(ItemSet))
        /\ Len(Shift(heap, a)) = Len(heap) /\ DOMAIN Shift(heap, a) = DOMAIN heap
        /\ Shift(heap, a)[a] = (IF heap[a] = <<>> THEN <<>> ELSE Tail(heap[a]))
        /\ Shift(heap, a)[a] \in Seq(ItemSet)
        /\ \A b \in DOMAIN heap : b # a => Shift(heap, a)[b] = heap[b]
    <3>1. heap \in Seq(Seq(ItemSet)) /\ a \in DOMAIN heap
      BY <1>2, <1>3
    <3> QED
      BY <3>1, ShiftTypes
  <2>3. Shift(heap, a)[a] = Tail(Queue(k))
    BY <1>2, <2>2
  <2> QED
    BY <2>1, <2>2, <2>3
<1>5. at = IF h[a] = <<>> THEN [queueAt EXCEPT ![k] = 0] ELSE queueAt
  BY <1>1
<1>6. /\ at \in [Ids -> 0..Len(h)] /\ \A i \in Ids : i # k => at[i] = queueAt[i]
      /\ at[k] = IF h[a] = <<>> THEN 0 ELSE a
  BY <1>2, <1>3, <1>4, <1>5
<1>7. \A i \in Ids : i # k /\ queueAt[i] # 0 => queueAt[i] \in DOMAIN heap /\ queueAt[i] # a
  BY <1>2, <1>3 DEF Filed
<1>8. \A e \in Drains : e # d /\ Running(e) =>
          /\ drain[e].key \in draining \ {k} /\ drain[e].array = at[drain[e].key]
          /\ drain[e].item = Head(h[drain[e].array])
  <2> SUFFICES ASSUME NEW e \in Drains, e # d, Running(e)
               PROVE  /\ drain[e].key \in draining \ {k} /\ drain[e].array = at[drain[e].key]
                      /\ drain[e].item = Head(h[drain[e].array])
    OBVIOUS
  <2>1. /\ drain[e].key \in draining \ {k} /\ drain[e].key \in Ids
        /\ drain[e].array = queueAt[drain[e].key] /\ drain[e].array # a
        /\ drain[e].array \in 1..Len(heap)
        /\ drain[e].item = Head(heap[drain[e].array])
    BY <1>1, OtherDrains
  <2> QED
    BY <1>3, <1>4, <1>6, <2>1
<1>9. Fits(ItemSet, d, k, h, at, draining)
  <2>1. \A i \in Ids : i # k => (at[i] # 0 <=> i \in draining)
    BY <1>6 DEF Filed
  <2>2. \A i \in Ids : i # k /\ at[i] # 0 => h[at[i]] # <<>>
    <3> SUFFICES ASSUME NEW i \in Ids, i # k, at[i] # 0 PROVE h[at[i]] # <<>>
      OBVIOUS
    <3>1. at[i] = queueAt[i] /\ heap[queueAt[i]] # <<>>
      BY <1>6 DEF Filed
    <3> QED
      BY <1>4, <1>7, <3>1
  <2>3. \A i, j \in Ids : at[i] # 0 /\ at[i] = at[j] => i = j
    <3> SUFFICES ASSUME NEW i \in Ids, NEW j \in Ids, at[i] # 0, at[i] = at[j] PROVE i = j
      OBVIOUS
    <3>1. at[i] = queueAt[i] /\ at[j] = queueAt[j]
      BY <1>2, <1>6, <1>7
    <3> QED
      BY <3>1 DEF Filed
  <2>4. \A e, f \in Drains : e # d /\ f # d /\ Running(e) /\ Running(f)
                             /\ drain[e].key = drain[f].key => e = f
    BY DEF Filed
  <2> QED
    BY <1>2, <1>3, <1>4, <1>6, <1>8, <2>1, <2>2, <2>3, <2>4 DEF Fits
<1>10. Filed' /\ Refiled(h, at) /\ Takes(d, k)
  BY <1>9, LoopTopFiled
<1>11. QueueOf(h, at, k) = Tail(Queue(k))
  <2>1. PICK s : s = Tail(Queue(k))
    OBVIOUS
  <2>2. h[a] = s /\ (at[k] = IF s = <<>> THEN 0 ELSE a) /\ a # 0
    BY <1>2, <1>4, <1>6, <2>1
  <2>3. QueueOf(h, at, k) = s
    BY <2>2 DEF QueueOf
  <2> QED
    BY <2>1, <2>3
<1>12. \A i \in Ids : i # k => QueueOf(h, at, i) = Queue(i)
  BY <1>4, <1>6, <1>7 DEF QueueOf, Queue
<1> QED
  BY <1>2, <1>10, <1>11, <1>12 DEF Refiled, Popped

LEMMA MoveEffect ==
  ASSUME TypeOK, Filed, NEW d \in Drains, Advance(d), NEW k, NEW to \in Ids,
         k = drain[d].key, to = drain[d].to, to # At(d), to # k, Queue(to) = <<>>
  PROVE  Filed' /\ Moved(k, to) /\ Takes(d, to)
<1>1. PICK a : a = drain[d].array
  OBVIOUS
<1>2. Running(d)
  BY DEF Advance, Running
<1>3. k \in Ids /\ k \in draining /\ queueAt[k] # 0 /\ a = queueAt[k] /\ a \in DOMAIN heap
      /\ heap[a] = Queue(k) /\ Queue(k) # <<>>
  BY <1>1, <1>2, HeadOfQueue
<1>4. heap \in Seq(Seq(ItemSet)) /\ queueAt \in [Ids -> 0..Len(heap)] /\ draining \in SUBSET Ids
      /\ drain \in [Drains -> DrainSet(ItemSet, DOMAIN heap)]
      /\ Len(heap) \in Nat /\ DOMAIN heap = 1..Len(heap)
  BY LenProperties DEF TypeOK
<1>5. PICK h : h = Shift(heap, a)
  OBVIOUS
<1>6. /\ h \in Seq(Seq(ItemSet)) /\ Len(h) = Len(heap) /\ DOMAIN h = DOMAIN heap
      /\ h[a] = Tail(Queue(k)) /\ h[a] \in Seq(ItemSet)
      /\ \A b \in DOMAIN heap : b # a => h[b] = heap[b]
  <2>1. /\ Shift(heap, a) \in Seq(Seq(ItemSet))
        /\ Len(Shift(heap, a)) = Len(heap) /\ DOMAIN Shift(heap, a) = DOMAIN heap
        /\ Shift(heap, a)[a] = (IF heap[a] = <<>> THEN <<>> ELSE Tail(heap[a]))
        /\ Shift(heap, a)[a] \in Seq(ItemSet)
        /\ \A b \in DOMAIN heap : b # a => Shift(heap, a)[b] = heap[b]
    BY <1>3, <1>4, ShiftTypes
  <2>2. Shift(heap, a)[a] = Tail(Queue(k))
    BY <1>3, <2>1
  <2> QED
    BY <1>5, <2>1, <2>2
<1>7. PICK rest : rest = Rest(h[a], to)
  OBVIOUS
<1>8. rest \in Seq(ItemSet)
  BY <1>6, <1>7, RestTypes DEF ItemSet
<1>9. PICK f : f = [h EXCEPT ![a] = <<>>]
  OBVIOUS
<1>10. f \in Seq(Seq(ItemSet)) /\ Len(f) = Len(heap)
       /\ \A b \in DOMAIN heap : b # a => f[b] = heap[b]
  <2>1. a \in 1..Len(h) /\ <<>> \in Seq(ItemSet)
    BY <1>3, <1>4, <1>6, EmptySeq
  <2>2. f \in Seq(Seq(ItemSet)) /\ Len(f) = Len(h)
        /\ \A b \in 1..Len(h) : f[b] = IF b = a THEN <<>> ELSE h[b]
    BY <1>6, <1>9, <2>1, ExceptSeq
  <2> QED
    BY <1>4, <1>6, <2>2
<1>11. PICK g : g = Append(f, rest)
  OBVIOUS
<1>12. /\ g \in Seq(Seq(ItemSet)) /\ Len(g) = Len(heap) + 1 /\ g[Len(heap) + 1] = rest
       /\ \A b \in 1..Len(heap) : b # a => g[b] = heap[b]
  <2>1. /\ g \in Seq(Seq(ItemSet)) /\ Len(g) = Len(f) + 1 /\ g[Len(f) + 1] = rest
        /\ \A b \in 1..Len(f) : g[b] = f[b]
    BY <1>8, <1>10, <1>11, AppendProperties
  <2> QED
    BY <1>4, <1>10, <2>1
<1>13. PICK at : at = [queueAt EXCEPT ![k] = 0, ![to] = Len(h) + 1]
  OBVIOUS
<1>14. /\ at \in [Ids -> 0..Len(g)] /\ at[k] = 0 /\ at[to] = Len(heap) + 1
       /\ \A i \in Ids : i # k /\ i # to => at[i] = queueAt[i]
  <2>1. 0 \in 0..Len(g) /\ Len(h) + 1 \in 0..Len(g) /\ queueAt \in [Ids -> 0..Len(g)]
    BY <1>4, <1>6, <1>12
  <2> QED
    BY <1>3, <1>6, <1>13, <2>1
<1>15. PICK busy : busy = (draining \ {k}) \cup {to}
  OBVIOUS
<1>16. LoopTop(d, to, g, at, busy)
  <2>1. Queue(to) \o rest = rest
    BY <1>8, ConcatEmptySeq
  <2>2. LoopTop(d, to, Append([h EXCEPT ![a] = <<>>], Queue(to) \o Rest(h[a], to)),
                [queueAt EXCEPT ![k] = 0, ![to] = Len(h) + 1], (draining \ {k}) \cup {to})
    BY <1>1, <1>5 DEF Advance, Rest
  <2>3. Append([h EXCEPT ![a] = <<>>], Queue(to) \o Rest(h[a], to)) = g
    BY <1>7, <1>9, <1>11, <2>1
  <2> QED
    BY <1>13, <1>15, <2>2, <2>3
<1>17. queueAt[to] = 0 /\ to \notin draining
  BY DEF Queue, Filed
<1>18. \A i \in Ids : i # k /\ queueAt[i] # 0 => queueAt[i] \in 1..Len(heap) /\ queueAt[i] # a
  BY <1>3, <1>4 DEF Filed
<1>19. \A e \in Drains : e # d /\ Running(e) =>
          /\ drain[e].key \in busy \ {to} /\ drain[e].array = at[drain[e].key]
          /\ drain[e].item = Head(g[drain[e].array])
  <2> SUFFICES ASSUME NEW e \in Drains, e # d, Running(e)
               PROVE  /\ drain[e].key \in busy \ {to} /\ drain[e].array = at[drain[e].key]
                      /\ drain[e].item = Head(g[drain[e].array])
    OBVIOUS
  <2>1. /\ drain[e].key \in draining \ {k} /\ drain[e].key \in Ids
        /\ drain[e].array = queueAt[drain[e].key] /\ drain[e].array # a
        /\ drain[e].array \in 1..Len(heap)
        /\ drain[e].item = Head(heap[drain[e].array])
    BY <1>1, <1>2, OtherDrains
  <2>2. drain[e].key # to /\ drain[e].key # k
    BY <1>17, <2>1
  <2> QED
    BY <1>12, <1>14, <1>15, <2>1, <2>2
<1>20. Fits(ItemSet, d, to, g, at, busy)
  <2>1. \A i \in Ids : i # to => (at[i] # 0 <=> i \in busy)
    BY <1>14, <1>15 DEF Filed
  <2>2. \A i \in Ids : i # to /\ at[i] # 0 => g[at[i]] # <<>>
    <3> SUFFICES ASSUME NEW i \in Ids, i # to, at[i] # 0 PROVE g[at[i]] # <<>>
      OBVIOUS
    <3>1. i # k /\ at[i] = queueAt[i] /\ heap[queueAt[i]] # <<>>
      BY <1>14 DEF Filed
    <3> QED
      BY <1>12, <1>18, <3>1
  <2>3. \A i, j \in Ids : at[i] # 0 /\ at[i] = at[j] => i = j
    <3> SUFFICES ASSUME NEW i \in Ids, NEW j \in Ids, at[i] # 0, at[i] = at[j] PROVE i = j
      OBVIOUS
    <3>1. i # k /\ j # k
      BY <1>14
    <3>2. CASE i = to \/ j = to
      BY <1>4, <1>14, <1>18, <3>1, <3>2
    <3>3. CASE i # to /\ j # to
      BY <1>14, <3>1, <3>3 DEF Filed
    <3> QED
      BY <3>2, <3>3
  <2>4. \A e, f_1 \in Drains : e # d /\ f_1 # d /\ Running(e) /\ Running(f_1)
                             /\ drain[e].key = drain[f_1].key => e = f_1
    BY DEF Filed
  <2>5. to \in busy /\ busy \in SUBSET Ids
    BY <1>4, <1>15
  <2>6. drain \in [Drains -> DrainSet(ItemSet, DOMAIN g)]
    <3>1. DOMAIN heap \subseteq DOMAIN g
      BY <1>4, <1>12, LenProperties
    <3> QED
      BY <1>4, <3>1, DrainSetGrows
  <2> QED
    BY <1>12, <1>14, <1>19, <2>1, <2>2, <2>3, <2>4, <2>5, <2>6 DEF Fits
<1>21. Filed' /\ Refiled(g, at) /\ Takes(d, to)
  BY <1>16, <1>20, LoopTopFiled
<1>22. QueueOf(g, at, k) = <<>> /\ QueueOf(g, at, to) = rest
  BY <1>4, <1>12, <1>14 DEF QueueOf
<1>23. \A i \in Ids : i # k /\ i # to => QueueOf(g, at, i) = Queue(i)
  BY <1>12, <1>14, <1>18 DEF QueueOf, Queue
<1>24. rest = Rest(Tail(Queue(k)), to)
  BY <1>6, <1>7
<1> QED
  BY <1>3, <1>21, <1>22, <1>23, <1>24 DEF Refiled, Moved

Stays(d) ==
    /\ \A e \in Drains : e # d => drain'[e] = drain[e]
    /\ drain'[d].key = drain[d].key /\ drain'[d].array = drain[d].array
    /\ drain'[d].item = drain[d].item /\ drain'[d].pc # "off"

LEMMA AnswerEffect ==
  ASSUME TypeOK, Filed, NEW d \in Drains,
         \/ DeliverCreate(d) \/ DeliverChange(d) \/ DeliverMissing(d) \/ Lose(d)
         \/ StoreDelete(d) \/ StoreResult(d) \/ BackOff(d)
  PROVE  Running(d) /\ Filed' /\ SameQueues /\ Stays(d)
<1>1. Running(d)
  BY DEF DeliverCreate, DeliverChange, DeliverMissing, Lose, StoreDelete, StoreResult, BackOff, Running
<1>2. UNCHANGED <<heap, queueAt, draining>>
  BY DEF DeliverCreate, DeliverChange, DeliverMissing, Lose, StoreDelete, StoreResult, BackOff
<1>3. drain[d] \in DrainSet(ItemSet, DOMAIN heap) /\ drain \in [Drains -> DrainSet(ItemSet, DOMAIN heap)]
  BY DEF TypeOK
<1>4. \/ drain[d] \in [pc : {"sending", "failed", "backoff"}, key : Ids, array : DOMAIN heap,
                       item : ItemSet, to : {Absent} \cup Ids]
      \/ drain[d] \in [pc : {"ok", "cleared", "stored"}, key : Ids, array : DOMAIN heap, item : ItemSet, to : Ids]
  BY <1>1, <1>3 DEF DrainSet, Running, Off
<1>5. \/ \E i : drain' = [drain EXCEPT ![d].pc = "ok", ![d].to = i]
      \/ \E x \in {"failed", "cleared", "stored", "backoff"} : drain' = [drain EXCEPT ![d].pc = x]
  BY DEF DeliverCreate, DeliverChange, DeliverMissing, Lose, StoreDelete, StoreResult, BackOff, Apply
<1>6. Stays(d)
  BY <1>3, <1>4, <1>5 DEF Stays
<1>7. SameQueues
  BY <1>2 DEF SameQueues, Queue
<1>8. \A e \in Drains : /\ Running(e)' <=> Running(e)
                        /\ drain'[e].key = drain[e].key /\ drain'[e].array = drain[e].array
                        /\ drain'[e].item = drain[e].item
  BY <1>1, <1>6 DEF Stays, Running
<1>9. Filed'
  <2>1. (\A i \in Ids : queueAt[i] # 0 <=> i \in draining)'
    BY <1>2 DEF Filed
  <2>2. (\A i \in Ids : queueAt[i] # 0 => heap[queueAt[i]] # <<>>)'
    BY <1>2 DEF Filed
  <2>3. (\A i, j \in Ids : queueAt[i] # 0 /\ queueAt[i] = queueAt[j] => i = j)'
    BY <1>2 DEF Filed
  <2>4. (\A e \in Drains : Running(e) =>
           /\ drain[e].key \in draining
           /\ drain[e].array = queueAt[drain[e].key]
           /\ drain[e].item = Head(heap[drain[e].array]))'
    BY <1>2, <1>8 DEF Filed
  <2>5. (\A e, f \in Drains : Running(e) /\ Running(f) /\ drain[e].key = drain[f].key => e = f)'
    BY <1>8 DEF Filed
  <2> QED
    BY <2>1, <2>2, <2>3, <2>4, <2>5 DEF Filed
<1> QED
  BY <1>1, <1>6, <1>7, <1>9

-----------------------------------------------------------------------------
(* Queues as sequences: what appending, shifting and moving keep. *)

LEMMA EmptyQueue ==
  ASSUME NEW i, NEW least, NEW above
  PROVE  InOrder(<<>>, i, least, above) /\ Numbers(<<>>) = {}
BY DEF InOrder, Numbers

LEMMA AppendQueue ==
  ASSUME NEW S, NEW s \in Seq(S), NEW n \in Nat, NEW i, [n |-> n, id |-> i] \in S,
         NEW least \in Nat, NEW above \in Nat, NEW high \in Nat,
         InOrder(s, i, least, high), least <= n, above < n, above <= high,
         \A m \in Numbers(s) : m \in Nat /\ m < n
  PROVE  /\ InOrder(Append(s, [n |-> n, id |-> i]), i, least, above)
         /\ Numbers(Append(s, [n |-> n, id |-> i])) = Numbers(s) \cup {n}
<1>1. PICK x : x = [n |-> n, id |-> i]
  OBVIOUS
<1>2. x \in S /\ x.n = n /\ x.id = i
  BY <1>1
<1>3. PICK t : t = Append(s, x)
  OBVIOUS
<1>4. /\ t \in Seq(S) /\ Len(t) = Len(s) + 1 /\ t[Len(s) + 1] = x
      /\ \A j \in 1..Len(s) : t[j] = s[j]
  BY <1>2, <1>3, AppendProperties
<1>5. Len(s) \in Nat /\ DOMAIN s = 1..Len(s) /\ DOMAIN t = 1..(Len(s) + 1)
  BY <1>4, LenProperties
<1>6. \A j \in 1..Len(s) : s[j].n \in Nat /\ s[j].n < n /\ s[j].id = i /\ least <= s[j].n
                           /\ high < s[j].n
  BY <1>5 DEF InOrder, Numbers
<1>7. \A j \in 1..(Len(s) + 1) : j \in 1..Len(s) \/ j = Len(s) + 1
  BY <1>5
<1>8. InOrder(t, i, least, above)
  <2>1. \A j \in DOMAIN t : t[j].id = i /\ least <= t[j].n /\ above < t[j].n
    BY <1>2, <1>4, <1>5, <1>6, <1>7
  <2>2. \A j, l \in DOMAIN t : l < j => t[l].n < t[j].n
    <3> SUFFICES ASSUME NEW j \in 1..(Len(s) + 1), NEW l \in 1..(Len(s) + 1), l < j
                 PROVE  t[l].n < t[j].n
      BY <1>5
    <3>1. l \in 1..Len(s) /\ t[l] = s[l]
      BY <1>4, <1>5
    <3>2. CASE j \in 1..Len(s)
      BY <1>4, <1>5, <3>1, <3>2 DEF InOrder
    <3>3. CASE j = Len(s) + 1
      BY <1>2, <1>4, <1>6, <3>1, <3>3
    <3> QED
      BY <1>7, <3>2, <3>3
  <2> QED
    BY <2>1, <2>2 DEF InOrder
<1>9. Numbers(t) = Numbers(s) \cup {n}
  <2>1. \A m : m \in Numbers(t) <=> \E j \in 1..(Len(s) + 1) : t[j].n = m
    BY <1>5 DEF Numbers
  <2>2. \A m : m \in Numbers(s) <=> \E j \in 1..Len(s) : t[j].n = m
    BY <1>4, <1>5 DEF Numbers
  <2>3. Len(s) + 1 \in 1..(Len(s) + 1) /\ t[Len(s) + 1].n = n /\ \A j \in 1..Len(s) : j \in 1..(Len(s) + 1)
    BY <1>2, <1>4, <1>5
  <2> QED
    BY <1>7, <2>1, <2>2, <2>3
<1> QED
  BY <1>1, <1>3, <1>8, <1>9

\* The head h of a queue: the rest is newer than it.
LEMMA TailQueue ==
  ASSUME NEW N \in SUBSET Nat, NEW s \in Seq([n : N, id : Ids]), s # <<>>, NEW i,
         NEW least \in Nat, NEW above \in Nat, InOrder(s, i, least, above)
  PROVE  /\ s[1].n \in Nat /\ s[1].id = i /\ least <= s[1].n /\ above < s[1].n
         /\ InOrder(s, i, s[1].n, above)
         /\ InOrder(Tail(s), i, least, above) /\ InOrder(Tail(s), i, least, s[1].n)
         /\ Tail(s) \in Seq([n : N, id : Ids])
         /\ Numbers(s) = {s[1].n} \cup Numbers(Tail(s))
         /\ \A m \in Numbers(s) : m \in N /\ m >= s[1].n
         /\ \A m \in Numbers(Tail(s)) : m \in N /\ m > s[1].n
<1>1. s \in [1..Len(s) -> [n : N, id : Ids]] /\ Len(s) \in Nat /\ DOMAIN s = 1..Len(s)
  BY LenProperties
<1>2. PICK t : t = Tail(s)
  OBVIOUS
<1>3. /\ t \in Seq([n : N, id : Ids]) /\ Len(t) = Len(s) - 1
      /\ \A j \in 1..Len(t) : t[j] = s[j + 1]
  BY <1>2, HeadTailProperties
<1>4. DOMAIN t = 1..Len(t) /\ Len(t) \in Nat
  BY <1>3, LenProperties
<1>5. Len(s) >= 1 /\ 1 \in DOMAIN s
  BY <1>1, <1>3, <1>4
<1>6. \A j \in DOMAIN s : s[j].n \in N /\ s[j].n \in Nat /\ s[j].id = i /\ least <= s[j].n /\ above < s[j].n
  BY <1>1 DEF InOrder
<1>7. \A j \in DOMAIN s : j = 1 \/ s[1].n < s[j].n
  BY <1>1, <1>5 DEF InOrder
<1>8. \A j \in DOMAIN t : j + 1 \in DOMAIN s /\ j + 1 # 1 /\ t[j] = s[j + 1]
  BY <1>1, <1>3, <1>4
<1>9. InOrder(s, i, s[1].n, above)
  BY <1>5, <1>6, <1>7 DEF InOrder
<1>10. \A j, l \in DOMAIN t : l < j => t[l].n < t[j].n
  <2> SUFFICES ASSUME NEW j \in DOMAIN t, NEW l \in DOMAIN t, l < j PROVE t[l].n < t[j].n
    OBVIOUS
  <2>1. l + 1 < j + 1
    BY <1>4
  <2> QED
    BY <1>8, <2>1 DEF InOrder
<1>11. \A j \in DOMAIN t : /\ t[j].id = i /\ least <= t[j].n /\ above < t[j].n /\ s[1].n < t[j].n
                           /\ t[j].n \in N
  BY <1>6, <1>7, <1>8
<1>12. InOrder(t, i, least, above) /\ InOrder(t, i, least, s[1].n)
  BY <1>10, <1>11 DEF InOrder
<1>13. Numbers(s) = {s[1].n} \cup Numbers(t)
  <2>1. \A j \in DOMAIN s : j = 1 \/ (j - 1 \in DOMAIN t /\ t[j - 1] = s[j])
    BY <1>1, <1>3, <1>4
  <2>2. \A m \in Numbers(s) : m = s[1].n \/ m \in Numbers(t)
    BY <2>1 DEF Numbers
  <2>3. \A m \in Numbers(t) : m \in Numbers(s)
    BY <1>8 DEF Numbers
  <2>4. s[1].n \in Numbers(s)
    BY <1>5 DEF Numbers
  <2> QED
    BY <2>2, <2>3, <2>4
<1>14. \A m \in Numbers(t) : m \in N /\ m > s[1].n
  BY <1>5, <1>6, <1>11 DEF Numbers
<1>15. \A m \in Numbers(s) : m \in N /\ m >= s[1].n
  <2> SUFFICES ASSUME NEW m \in Numbers(s) PROVE m \in N /\ m >= s[1].n
    OBVIOUS
  <2>1. s[1].n \in N /\ s[1].n \in Nat
    BY <1>5, <1>6
  <2>2. CASE m = s[1].n
    BY <2>1, <2>2
  <2>3. CASE m \in Numbers(t)
    <3>1. m \in N /\ m > s[1].n
      BY <1>14, <2>3
    <3>2. m \in Nat
      BY <3>1
    <3> QED
      BY <2>1, <3>1, <3>2
  <2> QED
    BY <1>13, <2>2, <2>3
<1> QED
  BY <1>2, <1>3, <1>5, <1>6, <1>9, <1>12, <1>13, <1>14, <1>15

LEMMA RestQueue ==
  ASSUME NEW N \in SUBSET Nat, NEW s \in Seq([n : N, id : Ids]), NEW i, NEW to \in Ids,
         NEW least, NEW above \in Nat, InOrder(s, i, least, above), NEW low \in Nat, low <= above
  PROVE  InOrder(Rest(s, to), to, low, 0) /\ Numbers(Rest(s, to)) = Numbers(s)
<1>1. PICK t : t = Rest(s, to)
  OBVIOUS
<1>2. /\ t \in Seq([n : N, id : Ids]) /\ DOMAIN t = DOMAIN s
      /\ \A j \in DOMAIN s : t[j].n = s[j].n /\ t[j].id = to
  BY <1>1, RestTypes
<1>3. s \in [1..Len(s) -> [n : N, id : Ids]] /\ DOMAIN s = 1..Len(s)
  BY LenProperties
<1>4. \A j \in DOMAIN s : s[j].n \in Nat /\ low <= s[j].n /\ 0 < s[j].n
  <2> SUFFICES ASSUME NEW j \in DOMAIN s PROVE s[j].n \in Nat /\ low <= s[j].n /\ 0 < s[j].n
    OBVIOUS
  <2>1. s[j].n \in N /\ above < s[j].n
    BY <1>3 DEF InOrder
  <2>2. s[j].n \in Nat
    BY <2>1
  <2> QED
    BY <2>1, <2>2
<1>5. InOrder(t, to, low, 0)
  BY <1>2, <1>4 DEF InOrder
<1>6. Numbers(t) = Numbers(s)
  BY <1>2 DEF Numbers
<1> QED
  BY <1>1, <1>5, <1>6

-----------------------------------------------------------------------------
(* The core of the invariant, step by step. *)

LEMMA QueueFacts ==
  ASSUME TypeOK, NEW i \in Ids
  PROVE  /\ Queue(i) \in Seq([n : DOMAIN writes, id : Ids])
         /\ Numbers(Queue(i)) \subseteq DOMAIN writes
         /\ DOMAIN writes = 1..Len(writes) /\ Len(writes) \in Nat /\ DOMAIN writes \in SUBSET Nat
         /\ newest[i] \in Nat /\ gaveUp[i] \in Nat /\ newest[i] <= Len(writes)
         /\ gaveUp[i] <= Len(writes)
<1>1. Queue(i) \in Seq(ItemSet) /\ Queue(i) \in [1..Len(Queue(i)) -> ItemSet]
      /\ DOMAIN Queue(i) = 1..Len(Queue(i))
  BY QueueTypes
<1>2. Numbers(Queue(i)) \subseteq DOMAIN writes
  BY <1>1 DEF Numbers, ItemSet
<1>3. DOMAIN writes = 1..Len(writes) /\ Len(writes) \in Nat
  BY LenProperties DEF TypeOK
<1> QED
  BY <1>1, <1>2, <1>3 DEF TypeOK, ItemSet

\* The write a drain is working on, and those behind it.
LEMMA HeadFacts ==
  ASSUME TypeOK, Filed, Sorted, NEW d \in Drains, Running(d), NEW k, k = drain[d].key
  PROVE  /\ k \in Ids /\ At(d) = k /\ Queue(k) # <<>>
         /\ drain[d].item.n \in DOMAIN writes /\ drain[d].item.n \in Nat
         /\ newest[k] <= drain[d].item.n /\ gaveUp[k] < drain[d].item.n
         /\ drain[d].item.n \in Numbers(Queue(k))
         /\ InOrder(Queue(k), k, drain[d].item.n, gaveUp[k])
         /\ InOrder(Tail(Queue(k)), k, newest[k], gaveUp[k])
         /\ InOrder(Tail(Queue(k)), k, newest[k], drain[d].item.n)
         /\ Tail(Queue(k)) \in Seq([n : DOMAIN writes, id : Ids])
         /\ Numbers(Queue(k)) = {drain[d].item.n} \cup Numbers(Tail(Queue(k)))
         /\ \A m \in Numbers(Tail(Queue(k))) : m \in DOMAIN writes /\ m > drain[d].item.n
<1>1. k \in Ids /\ Queue(k) # <<>> /\ drain[d].item = Queue(k)[1]
  BY HeadOfQueue
<1>2. /\ Queue(k) \in Seq([n : DOMAIN writes, id : Ids]) /\ DOMAIN writes \in SUBSET Nat
      /\ newest[k] \in Nat /\ gaveUp[k] \in Nat
  BY <1>1, QueueFacts
<1>3. InOrder(Queue(k), k, newest[k], gaveUp[k])
  BY <1>1 DEF Sorted, Ordered
<1>4. PICK s : s = Queue(k)
  OBVIOUS
<1>5. /\ s[1].n \in Nat /\ s[1].id = k /\ newest[k] <= s[1].n /\ gaveUp[k] < s[1].n
      /\ InOrder(s, k, s[1].n, gaveUp[k])
      /\ InOrder(Tail(s), k, newest[k], gaveUp[k]) /\ InOrder(Tail(s), k, newest[k], s[1].n)
      /\ Tail(s) \in Seq([n : DOMAIN writes, id : Ids])
      /\ Numbers(s) = {s[1].n} \cup Numbers(Tail(s))
      /\ \A m \in Numbers(s) : m \in DOMAIN writes /\ m >= s[1].n
      /\ \A m \in Numbers(Tail(s)) : m \in DOMAIN writes /\ m > s[1].n
  <2>1. PICK N, least, above : N = DOMAIN writes /\ least = newest[k] /\ above = gaveUp[k]
    OBVIOUS
  <2>2. N \in SUBSET Nat /\ s \in Seq([n : N, id : Ids]) /\ s # <<>>
    BY <1>1, <1>2, <1>4, <2>1
  <2>3. least \in Nat /\ above \in Nat /\ InOrder(s, k, least, above)
    BY <1>2, <1>3, <1>4, <2>1
  <2>4. /\ s[1].n \in Nat /\ s[1].id = k /\ least <= s[1].n /\ above < s[1].n
        /\ InOrder(s, k, s[1].n, above)
        /\ InOrder(Tail(s), k, least, above) /\ InOrder(Tail(s), k, least, s[1].n)
        /\ Tail(s) \in Seq([n : N, id : Ids])
        /\ Numbers(s) = {s[1].n} \cup Numbers(Tail(s))
        /\ \A m \in Numbers(s) : m \in N /\ m >= s[1].n
        /\ \A m \in Numbers(Tail(s)) : m \in N /\ m > s[1].n
    BY <2>2, <2>3, TailQueue
  <2> QED
    BY <2>1, <2>4
<1>6. drain[d].item.n = s[1].n /\ drain[d].item.id = s[1].id
  BY <1>1, <1>4
<1> QED
  BY <1>1, <1>4, <1>5, <1>6 DEF At

\* A server that keeps ids works on known ones only.
LEMMA KeyKnown ==
  ASSUME TypeOK, Filed, Fresh, NEW d \in Drains, Running(d)
  PROVE  drain[d].key \in KnownIds \/ drain[d].key \in used
<1>1. drain[d].key \in Ids /\ Queue(drain[d].key) # <<>>
  BY HeadOfQueue
<1> QED
  BY <1>1 DEF Fresh

LEMMA SameHeld ==
  ASSUME SameQueues, gaveUp' = gaveUp, NEW i \in Ids, NEW n
  PROVE  Held(i, n)' <=> Held(i, n)
<1>1. Queue(i)' = Queue(i)
  BY DEF SameQueues
<1>2. Numbers(Queue(i))' = Numbers(Queue(i))
  BY <1>1 DEF Numbers
<1> QED
  BY <1>2 DEF Held

\* Origins, Unlimited and Pending depend on what is held only.
LEMMA HeldShrinks ==
  ASSUME TypeOK, Core, UNCHANGED <<setting, writes>>,
         \A i \in Ids : \A n \in DOMAIN writes : Held(i, n)' => Held(i, n)
  PROVE  Origins'
<1>1. KnownIds \subseteq Ids
  BY ExistingAssumption DEF KnownIds, Ids
<1>2. Origins
  BY DEF Core
<1> QED
  BY <1>1, <1>2 DEF Origins

LEMMA PendingKept ==
  ASSUME TypeOK, Core, UNCHANGED <<setting, writes>>, confirmed \subseteq confirmed',
         \A i \in Ids : \A n \in DOMAIN writes :
             Held(i, n) => \/ n \in confirmed' \/ \E j \in Ids : Held(j, n)'
                           \/ /\ setting.givesUp
                              /\ \E m \in DOMAIN writes : m > n /\ writes[m].id = writes[n].id
  PROVE  Pending'
<1> SUFFICES ASSUME NEW n \in DOMAIN writes
             PROVE  \/ n \in confirmed' \/ \E i \in Ids : Held(i, n)'
                    \/ /\ setting.givesUp
                       /\ \E m \in DOMAIN writes : m > n /\ writes[m].id = writes[n].id
  BY DEF Pending
<1>1. \/ n \in confirmed \/ \E i \in Ids : Held(i, n)
      \/ /\ setting.givesUp
         /\ \E m \in DOMAIN writes : m > n /\ writes[m].id = writes[n].id
  BY DEF Core, Pending
<1> QED
  BY <1>1

LEMMA ApplyFields ==
  ASSUME TypeOK, NEW d \in Drains, Running(d), NEW i \in Ids, NEW v, Apply(d, i, v)
  PROVE  /\ drain'[d].pc = "ok" /\ drain'[d].to = i
         /\ newest'[i] = drain[d].item.n /\ \A j \in Ids : j # i => newest'[j] = newest[j]
         /\ server'[i] = v /\ \A j \in Ids : j # i => server'[j] = server[j]
<1>1. drain[d] \in DrainSet(ItemSet, DOMAIN heap) /\ drain \in [Drains -> DrainSet(ItemSet, DOMAIN heap)]
  BY DEF TypeOK
<1>2. \/ drain[d] \in [pc : {"sending", "failed", "backoff"}, key : Ids, array : DOMAIN heap,
                       item : ItemSet, to : {Absent} \cup Ids]
      \/ drain[d] \in [pc : {"ok", "cleared", "stored"}, key : Ids, array : DOMAIN heap, item : ItemSet, to : Ids]
  BY <1>1 DEF DrainSet, Running, Off
<1>3. drain'[d].pc = "ok" /\ drain'[d].to = i
  BY <1>1, <1>2 DEF Apply
<1>4. newest \in [Ids -> 0..Len(writes)] /\ server \in [Ids -> {Absent} \cup Records]
  BY DEF TypeOK, Copies
<1> QED
  BY <1>3, <1>4 DEF Apply

LEMMA PcFields ==
  ASSUME TypeOK, NEW d \in Drains, Running(d), NEW x, drain' = [drain EXCEPT ![d].pc = x]
  PROVE  drain'[d].pc = x /\ drain'[d].to = drain[d].to
<1>1. drain[d] \in DrainSet(ItemSet, DOMAIN heap) /\ drain \in [Drains -> DrainSet(ItemSet, DOMAIN heap)]
  BY DEF TypeOK
<1>2. \/ drain[d] \in [pc : {"sending", "failed", "backoff"}, key : Ids, array : DOMAIN heap,
                       item : ItemSet, to : {Absent} \cup Ids]
      \/ drain[d] \in [pc : {"ok", "cleared", "stored"}, key : Ids, array : DOMAIN heap, item : ItemSet, to : Ids]
  BY <1>1 DEF DrainSet, Running, Off
<1> QED
  BY <1>1, <1>2

\* Where a request lands: on the id of its queue, or a create on a new one.
LEMMA LandsOn ==
  ASSUME TypeOK, Core, NEW d \in Drains, DeliverCreate(d) \/ DeliverChange(d), NEW k, k = drain[d].key
  PROVE  \E i \in Ids : \E v \in Values :
            /\ Apply(d, i, v)
            /\ v = IF TypeOf(d) = "delete" THEN Absent ELSE DataOf(d)
            /\ \/ i = k
               \/ i \notin used /\ i \notin KnownIds /\ ~setting.keepsIds /\ used' = used \cup {i}
            /\ used' = used \cup {i} \/ used' = used
<1>1. Running(d)
  BY DEF DeliverCreate, DeliverChange, Running
<1>2. k \in Ids /\ At(d) = k
  BY <1>1, HeadFacts DEF Core
<1>5. DataOf(d) \in Values /\ Absent \in Values
  BY <1>1, RunningFields DEF Running, Values
<1>3. CASE DeliverCreate(d)
  <2>1. PICK i \in IF setting.keepsIds THEN {At(d)} ELSE ServerIds \ used :
            Apply(d, i, DataOf(d)) /\ used' = used \cup {i}
    BY <1>3 DEF DeliverCreate
  <2>2. TypeOf(d) # "delete"
    BY <1>3 DEF DeliverCreate
  <2>3. CASE setting.keepsIds
    BY <1>2, <1>5, <2>1, <2>2, <2>3
  <2>4. CASE ~setting.keepsIds
    <3>1. i \in ServerIds /\ i \notin used /\ i \in Ids
      BY <2>1, <2>4 DEF Ids
    <3>2. i \notin KnownIds
      BY <3>1, IdsAssumption DEF KnownIds, Core, Fresh
    <3> QED
      BY <1>5, <2>1, <2>2, <2>4, <3>1, <3>2
  <2> QED
    BY <2>3, <2>4
<1>4. CASE DeliverChange(d)
  <2>1. Apply(d, k, IF TypeOf(d) = "update" THEN DataOf(d) ELSE Absent) /\ used' = used
        /\ TypeOf(d) \in {"update", "delete"}
    BY <1>2, <1>4 DEF DeliverChange
  <2> QED
    BY <1>2, <1>5, <2>1
<1> QED
  BY <1>3, <1>4

LEMMA DeliverCore ==
  ASSUME TypeOK, Core, NEW d \in Drains, DeliverCreate(d) \/ DeliverChange(d)
  PROVE  Core'
<1>1. PICK k : k = drain[d].key
  OBVIOUS
<1>2. Running(d) /\ Filed' /\ SameQueues /\ Stays(d)
  BY AnswerEffect DEF Core
<1>3. PICK i \in Ids, v \in Values :
            /\ Apply(d, i, v)
            /\ \/ i = k
               \/ i \notin used /\ i \notin KnownIds /\ ~setting.keepsIds /\ used' = used \cup {i}
            /\ used' = used \cup {i} \/ used' = used
  BY <1>1, LandsOn
<1>4. /\ drain'[d].pc = "ok" /\ drain'[d].to = i
      /\ newest'[i] = drain[d].item.n /\ \A j \in Ids : j # i => newest'[j] = newest[j]
      /\ server'[i] = v /\ \A j \in Ids : j # i => server'[j] = server[j]
  BY <1>2, <1>3, ApplyFields
<1>5. /\ k \in Ids /\ At(d) = k /\ Queue(k) # <<>>
      /\ InOrder(Queue(k), k, drain[d].item.n, gaveUp[k]) /\ drain[d].item.n \in Nat
  BY <1>1, <1>2, HeadFacts DEF Core
<1>6. UNCHANGED <<setting, writes, confirmed, gaveUp, call, sync>>
  BY DEF DeliverCreate, DeliverChange
<1>7. i # k => Queue(i) = <<>> /\ gaveUp[i] = 0 /\ i \notin used
  BY <1>3 DEF Core, Fresh
<1>8. \A j \in Ids : Queue(j)' = Queue(j)
  BY <1>2 DEF SameQueues
<1>9. Sorted'
  <2> SUFFICES ASSUME NEW j \in Ids PROVE InOrder(Queue(j), j, newest'[j], gaveUp[j])
    BY <1>6, <1>8 DEF Sorted, Ordered
  <2>1. CASE j # i
    BY <1>4, <2>1 DEF Core, Sorted, Ordered
  <2>2. CASE j = i /\ i = k
    BY <1>4, <1>5, <2>2
  <2>3. CASE j = i /\ i # k
    BY <1>7, <2>3, EmptyQueue
  <2> QED
    BY <2>1, <2>2, <2>3
<1>10. \A j \in Ids : \A n : Held(j, n)' <=> Held(j, n)
  BY <1>2, <1>6, SameHeld
<1>11. Origins'
  BY <1>6, <1>10, HeldShrinks
<1>12. Pending'
  BY <1>6, <1>10, PendingKept
<1>13. Unlimited'
  BY <1>6 DEF Core, Unlimited
<1>14. k \in KnownIds \/ k \in used
  BY <1>1, <1>2, KeyKnown DEF Core
<1>15. Fresh'
  <2>1. (Existing \subseteq used)'
    BY <1>3 DEF Core, Fresh
  <2>2. (\A j \in Ids \ KnownIds :
            j \notin used => newest[j] = 0 /\ gaveUp[j] = 0 /\ Queue(j) = <<>>)'
    <3> SUFFICES ASSUME NEW j \in Ids \ KnownIds, j \notin used'
                 PROVE  newest'[j] = 0 /\ gaveUp[j] = 0 /\ Queue(j) = <<>>
      BY <1>6, <1>8
    <3>1. j \notin used /\ j # i
      BY <1>3, <1>14
    <3> QED
      BY <1>4, <3>1 DEF Core, Fresh
  <2>3. (setting.keepsIds =>
            /\ used \subseteq KnownIds
            /\ \A j \in Ids \ KnownIds :
                  local[j] = Absent /\ server[j] = Absent /\ sync.items[j] = Absent)'
    <3> SUFFICES ASSUME setting.keepsIds
                 PROVE  /\ used' \subseteq KnownIds
                        /\ \A j \in Ids \ KnownIds :
                              local'[j] = Absent /\ server'[j] = Absent /\ sync.items[j] = Absent
      BY <1>6
    <3>1. /\ used \subseteq KnownIds
          /\ \A j \in Ids \ KnownIds :
                local[j] = Absent /\ server[j] = Absent /\ sync.items[j] = Absent
      BY DEF Core, Fresh
    <3>2. i = k /\ k \in KnownIds
      BY <1>3, <1>14, <3>1
    <3>3. \A j \in Ids \ KnownIds : local'[j] = local[j]
      <4>1. local' = local \/ local' = [local EXCEPT ![k] = Absent]
        BY <1>5 DEF DeliverCreate, DeliverChange, LocalBeforeSend
      <4> QED
        BY <3>2, <4>1 DEF TypeOK, Copies
    <3> QED
      BY <1>3, <1>4, <3>1, <3>2, <3>3
  <2>4. (\A c \in Callers : call[c] # NoCall => call[c].id \in KnownIds)'
    BY <1>6 DEF Core, Fresh
  <2> QED
    BY <2>1, <2>2, <2>3, <2>4 DEF Fresh
<1>16. Targets'
  <2>1. \A e \in Drains : e # d => drain'[e] = drain[e]
    BY <1>2 DEF Stays
  <2>2. \A e \in Drains : e # d /\ Moving(e)' => Moving(e)
    BY <2>1 DEF Moving, Sent
  <2>3. ASSUME NEW e \in Drains, e # d, Moving(e)
        PROVE  /\ drain[e].to \in used \ KnownIds /\ drain[e].to # i
               /\ Queue(drain[e].to) = <<>> /\ gaveUp[drain[e].to] = 0
               /\ newest[drain[e].to] <= drain[e].item.n
               /\ drain[e].to \in Ids
    <3>1. /\ drain[e].to \in used \ KnownIds
          /\ Queue(drain[e].to) = <<>> /\ gaveUp[drain[e].to] = 0
          /\ newest[drain[e].to] <= drain[e].item.n
      BY <2>3 DEF Core, Targets
    <3>2. drain[e].to \in Ids
      BY <3>1 DEF TypeOK
    <3> QED
      BY <1>3, <1>5, <3>1, <3>2
  <2>4. \A e \in Drains : Moving(e)' =>
          /\ drain'[e].to \in used' \ KnownIds
          /\ Queue(drain[e].to)' = <<>> /\ gaveUp'[drain'[e].to] = 0
          /\ newest'[drain'[e].to] <= drain'[e].item.n
    <3> SUFFICES ASSUME NEW e \in Drains, Moving(e)'
                 PROVE  /\ drain'[e].to \in used' \ KnownIds
                        /\ Queue(drain[e].to)' = <<>> /\ gaveUp'[drain'[e].to] = 0
                        /\ newest'[drain'[e].to] <= drain'[e].item.n
      OBVIOUS
    <3>1. CASE e # d
      <4>1. drain'[e] = drain[e] /\ Moving(e)
        BY <2>1, <2>2, <3>1
      <4>2. PICK to : to = drain[e].to
        OBVIOUS
      <4>3. /\ to \in used \ KnownIds /\ to # i /\ Queue(to) = <<>> /\ gaveUp[to] = 0
            /\ newest[to] <= drain[e].item.n /\ to \in Ids
        BY <2>3, <3>1, <4>1, <4>2
      <4>4. newest'[to] = newest[to] /\ Queue(to)' = Queue(to) /\ to \in used' /\ gaveUp'[to] = 0
        BY <1>3, <1>4, <1>6, <1>8, <4>3
      <4>5. drain'[e].to = to /\ Queue(drain[e].to)' = Queue(to)'
        BY <4>1, <4>2 DEF Queue
      <4> QED
        BY <4>1, <4>3, <4>4, <4>5
    <3>2. CASE e = d
      <4>1. i # k
        BY <1>1, <1>2, <1>4, <3>2 DEF Moving, Stays
      <4>2. i \in used' /\ i \notin KnownIds /\ Queue(i)' = <<>> /\ gaveUp'[i] = 0
        BY <1>3, <1>6, <1>7, <1>8, <4>1
      <4>3. newest'[i] = drain'[d].item.n /\ drain'[d].item.n \in Nat
        BY <1>2, <1>4, <1>5 DEF Stays
      <4>4. Queue(drain[d].to)' = Queue(i)'
        BY <1>4 DEF Queue
      <4> QED
        BY <1>4, <3>2, <4>2, <4>3, <4>4
    <3> QED
      BY <3>1, <3>2
  <2>5. \A e, f \in Drains : Moving(e)' /\ Moving(f)' /\ drain'[e].to = drain'[f].to => e = f
    <3> SUFFICES ASSUME NEW e \in Drains, NEW f \in Drains, Moving(e)', Moving(f)',
                        drain'[e].to = drain'[f].to
                 PROVE  e = f
      OBVIOUS
    <3>1. CASE e # d /\ f # d
      BY <2>1, <2>2, <3>1 DEF Core, Targets
    <3>2. CASE e = d /\ f # d
      BY <1>4, <2>1, <2>2, <2>3, <3>2
    <3>3. CASE e # d /\ f = d
      BY <1>4, <2>1, <2>2, <2>3, <3>3
    <3> QED
      BY <3>1, <3>2, <3>3
  <2> QED
    BY <2>4, <2>5 DEF Targets
<1> QED
  BY <1>2, <1>9, <1>11, <1>12, <1>13, <1>15, <1>16 DEF Core

\* The parts of the invariant about the ids outside K, whose queues a step
\* leaves alone.
Aside(K) == \A j \in Ids \ K : Queue(j)' = Queue(j) /\ gaveUp'[j] = gaveUp[j]

LEMMA SortedAside ==
  ASSUME Sorted, NEW K \in SUBSET Ids, Aside(K), newest' = newest, \A j \in K : Ordered(j)'
  PROVE  Sorted'
<1> SUFFICES ASSUME NEW j \in Ids, j \notin K PROVE Ordered(j)'
  BY DEF Sorted
<1>1. Queue(j)' = Queue(j) /\ gaveUp'[j] = gaveUp[j]
  BY DEF Aside
<1>2. InOrder(Queue(j), j, newest[j], gaveUp[j])
  BY DEF Sorted, Ordered
<1>3. InOrder(Queue(j)', j, newest'[j], gaveUp'[j])
  BY <1>1, <1>2
<1> QED
  BY <1>3 DEF Ordered

LEMMA HeldAside ==
  ASSUME NEW K \in SUBSET Ids, Aside(K), NEW j \in Ids \ K, NEW n
  PROVE  Held(j, n)' <=> Held(j, n)
<1>1. Queue(j)' = Queue(j) /\ gaveUp'[j] = gaveUp[j]
  BY DEF Aside
<1>2. Numbers(Queue(j))' = Numbers(Queue(j))
  BY <1>1 DEF Numbers
<1> QED
  BY <1>1, <1>2 DEF Held

LEMMA TargetsAside ==
  ASSUME TypeOK, Targets, NEW K \in SUBSET Ids, Aside(K), UNCHANGED <<used, newest>>,
         \A e \in Drains : Moving(e)' => /\ Moving(e) /\ drain'[e].to = drain[e].to
                                         /\ drain'[e].item = drain[e].item
                                         /\ drain[e].to \notin K
  PROVE  Targets'
<1>1. ASSUME NEW e \in Drains, Moving(e)'
      PROVE  /\ (drain[e].to \in used \ KnownIds)'
             /\ Queue(drain[e].to)' = <<>> /\ (gaveUp[drain[e].to] = 0)'
             /\ (newest[drain[e].to] <= drain[e].item.n)'
  <2>1. PICK to : to = drain[e].to
    OBVIOUS
  <2>2. drain'[e].to = to /\ drain'[e].item = drain[e].item /\ to \notin K /\ Moving(e)
    BY <1>1, <2>1
  <2>3. to \in used \ KnownIds /\ Queue(to) = <<>> /\ gaveUp[to] = 0 /\ newest[to] <= drain[e].item.n
    BY <2>1, <2>2 DEF Targets
  <2>4. to \in Ids
    BY <2>3 DEF TypeOK
  <2>5. Queue(to)' = <<>> /\ gaveUp'[to] = 0
    BY <2>2, <2>3, <2>4 DEF Aside
  <2>6. Queue(drain[e].to)' = Queue(to)'
    BY <2>2 DEF Queue
  <2> QED
    BY <2>2, <2>3, <2>5, <2>6
<1>2. ASSUME NEW e \in Drains, NEW f \in Drains, Moving(e)', Moving(f)', drain'[e].to = drain'[f].to
      PROVE  e = f
  BY <1>2 DEF Targets
<1> QED
  BY <1>1, <1>2 DEF Targets

LEMMA FreshAside ==
  ASSUME Fresh, NEW K \in SUBSET Ids, Aside(K), K \subseteq KnownIds \cup used,
         UNCHANGED <<setting, used, newest, server>>,
         setting.keepsIds => \A j \in Ids \ KnownIds : local'[j] = Absent /\ sync'.items[j] = Absent,
         \A c \in Callers : call'[c] # NoCall => call'[c].id \in KnownIds
  PROVE  Fresh'
<1>1. (\A j \in Ids \ KnownIds :
          j \notin used => newest[j] = 0 /\ gaveUp[j] = 0 /\ Queue(j) = <<>>)'
  <2> SUFFICES ASSUME NEW j \in Ids \ KnownIds, j \notin used
               PROVE  newest[j] = 0 /\ gaveUp'[j] = 0 /\ Queue(j)' = <<>>
    OBVIOUS
  <2>1. j \in Ids \ K
    OBVIOUS
  <2> QED
    BY <2>1 DEF Fresh, Aside
<1> QED
  BY <1>1 DEF Fresh

\* A drain that turns to its next write moves no queue.
LEMMA TakesMoving ==
  ASSUME NEW d \in Drains, NEW k, Takes(d, k), NEW e \in Drains, Moving(e)'
  PROVE  e # d /\ drain'[e] = drain[e] /\ Moving(e)
<1>1. e # d
  BY DEF Takes, Moving, Sent, Off
<1>2. drain'[e] = drain[e]
  BY <1>1 DEF Takes
<1> QED
  BY <1>1, <1>2 DEF Moving, Sent

\* The id a queue moves to is no queue's.
LEMMA TargetFree ==
  ASSUME TypeOK, Core, NEW e \in Drains, Moving(e)
  PROVE  /\ drain[e].to \in Ids /\ drain[e].to \in used /\ drain[e].to \notin KnownIds
         /\ Queue(drain[e].to) = <<>> /\ gaveUp[drain[e].to] = 0
         /\ newest[drain[e].to] <= drain[e].item.n
BY DEF Core, Targets, TypeOK

LEMMA KnownAbsent ==
  ASSUME Core, setting.keepsIds, NEW j \in Ids \ KnownIds
  PROVE  local[j] = Absent /\ server[j] = Absent /\ sync.items[j] = Absent
BY DEF Core, Fresh

LEMMA CallsKnown ==
  ASSUME Core
  PROVE  \A c \in Callers : call[c] # NoCall => call[c].id \in KnownIds
BY DEF Core, Fresh

\* Answers that change nothing at the server.
LEMMA PlainCore ==
  ASSUME TypeOK, Core, NEW d \in Drains,
         DeliverMissing(d) \/ Lose(d) \/ StoreDelete(d) \/ StoreResult(d) \/ BackOff(d)
  PROVE  Core'
<1>1. PICK k : k = drain[d].key
  OBVIOUS
<1>2. Running(d) /\ Filed' /\ SameQueues /\ Stays(d)
  BY AnswerEffect DEF Core
<1>3. UNCHANGED <<setting, server, used, newest, writes, confirmed, gaveUp, call, sync>>
  BY DEF DeliverMissing, Lose, StoreDelete, StoreResult, BackOff, network
<1>4. Aside({})
  BY <1>2, <1>3 DEF Aside, SameQueues
<1>5. \A j \in Ids : \A n : Held(j, n)' <=> Held(j, n)
  BY <1>2, <1>3, SameHeld
<1>6. Origins'
  BY <1>3, <1>5, HeldShrinks
<1>7. Pending'
  BY <1>3, <1>5, PendingKept
<1>8. Unlimited'
  BY <1>3 DEF Core, Unlimited
<1>9. Sorted'
  BY <1>3, <1>4, SortedAside DEF Core
<1>10. k \in Ids /\ At(d) = k
  BY <1>1, <1>2, HeadFacts DEF Core
<1>11. \/ local' = local \/ local' = [local EXCEPT ![k] = Absent]
       \/ Sent(d) /\ local' = [local EXCEPT ![drain[d].to] = DataOf(d)]
  BY <1>10 DEF DeliverMissing, Lose, StoreDelete, StoreResult, BackOff, LocalBeforeSend, Sent
<1>12. setting.keepsIds => \A j \in Ids \ KnownIds : local'[j] = Absent /\ sync'.items[j] = Absent
  <2> SUFFICES ASSUME setting.keepsIds, NEW j \in Ids \ KnownIds
               PROVE  local'[j] = Absent /\ sync'.items[j] = Absent
    OBVIOUS
  <2>1. used \subseteq KnownIds
    BY DEF Core, Fresh
  <2>2. k \in KnownIds
    BY <1>1, <1>2, <2>1, KeyKnown DEF Core
  <2>3. Sent(d) => drain[d].to = k
    BY <1>1, <2>1, TargetFree DEF Moving
  <2>4. local \in [Ids -> {Absent} \cup Records]
    BY DEF TypeOK, Copies
  <2>5. local'[j] = local[j]
    BY <1>10, <1>11, <2>2, <2>3, <2>4
  <2> QED
    BY <1>3, <2>5, KnownAbsent
<1>13. Fresh'
  BY <1>3, <1>4, <1>12, CallsKnown, FreshAside DEF Core
<1>14. ASSUME NEW e \in Drains, Moving(e)'
       PROVE  Moving(e) /\ drain'[e].to = drain[e].to /\ drain'[e].item = drain[e].item
  <2>1. CASE e # d
    BY <1>2, <1>14, <2>1 DEF Stays, Moving, Sent
  <2>2. CASE e = d
    <3>1. PICK x \in {"failed", "cleared", "stored", "backoff"} :
              /\ drain' = [drain EXCEPT ![d].pc = x]
              /\ x \in {"cleared", "stored"} => Sent(d)
      BY DEF DeliverMissing, Lose, StoreDelete, StoreResult, BackOff, Sent
    <3>2. /\ drain'[d].pc = x /\ drain'[d].to = drain[d].to
          /\ drain'[d].key = drain[d].key /\ drain'[d].item = drain[d].item
      BY <1>2, <3>1, PcFields DEF Stays
    <3> QED
      BY <1>14, <2>2, <3>1, <3>2 DEF Moving, Sent
  <2> QED
    BY <2>1, <2>2
<1>15. Targets'
  BY <1>3, <1>4, <1>14, TargetsAside DEF Core
<1> QED
  BY <1>2, <1>6, <1>7, <1>8, <1>9, <1>13, <1>15 DEF Core

\* A drain is done with the head of its queue, or tries it again.
LEMMA HeadDone ==
  ASSUME TypeOK, Core, NEW d \in Drains, Running(d), NEW k, k = drain[d].key,
         Filed', Takes(d, k), Aside({k}), Ordered(k)',
         UNCHANGED <<setting, local, server, used, newest, writes, call, sync>>,
         confirmed \subseteq confirmed', gaveUp' = gaveUp \/ setting.givesUp,
         \A n \in DOMAIN writes : Held(k, n)' => Held(k, n),
         \A n \in DOMAIN writes :
             Held(k, n) => \/ n \in confirmed' \/ Held(k, n)'
                           \/ /\ setting.givesUp
                              /\ \E m \in DOMAIN writes : m > n /\ writes[m].id = writes[n].id
  PROVE  Core'
<1>1. k \in Ids /\ Queue(k) # <<>>
  BY HeadFacts DEF Core
<1>2. \A j \in Ids : j # k => \A n : Held(j, n)' <=> Held(j, n)
  BY <1>1, HeldAside
<1>3. Origins'
  <2>1. \A i \in Ids : \A n \in DOMAIN writes : Held(i, n)' => Held(i, n)
    BY <1>2
  <2> QED
    BY <2>1, HeldShrinks
<1>4. Pending'
  <2>1. \A i \in Ids : \A n \in DOMAIN writes :
            Held(i, n) => \/ n \in confirmed' \/ \E j \in Ids : Held(j, n)'
                          \/ /\ setting.givesUp
                             /\ \E m \in DOMAIN writes : m > n /\ writes[m].id = writes[n].id
    BY <1>1, <1>2
  <2> QED
    BY <2>1, PendingKept
<1>5. Unlimited'
  BY DEF Core, Unlimited
<1>6. Sorted'
  BY <1>1, SortedAside DEF Core
<1>7. k \in KnownIds \cup used
  BY KeyKnown DEF Core
<1>8. setting.keepsIds => \A j \in Ids \ KnownIds : local'[j] = Absent /\ sync'.items[j] = Absent
  BY KnownAbsent
<1>9. \A c \in Callers : call'[c] # NoCall => call'[c].id \in KnownIds
  BY CallsKnown
<1>10. Fresh'
  BY <1>1, <1>7, <1>8, <1>9, FreshAside DEF Core
<1>11. \A e \in Drains : Moving(e)' => /\ Moving(e) /\ drain'[e].to = drain[e].to
                                       /\ drain'[e].item = drain[e].item
                                       /\ drain[e].to \notin {k}
  <2> SUFFICES ASSUME NEW e \in Drains, Moving(e)'
               PROVE  Moving(e) /\ drain'[e] = drain[e] /\ drain[e].to # k
    OBVIOUS
  <2>1. Moving(e) /\ drain'[e] = drain[e]
    BY TakesMoving
  <2>2. Queue(drain[e].to) = <<>>
    BY <2>1, TargetFree
  <2> QED
    BY <1>1, <2>1, <2>2
<1>12. Targets'
  BY <1>1, <1>11, TargetsAside DEF Core
<1> QED
  BY <1>3, <1>4, <1>5, <1>6, <1>10, <1>12 DEF Core

LEMMA RetryCore ==
  ASSUME TypeOK, Core, NEW d \in Drains, Retry(d)
  PROVE  Core'
<1>1. PICK k : k = drain[d].key
  OBVIOUS
<1>2. Running(d) /\ Filed /\ Sorted
  BY DEF Core, Running, Retry
<1>3. Filed' /\ SameQueues /\ Takes(d, k)
  BY <1>1, <1>2, RetryEffect
<1>4. UNCHANGED <<setting, local, server, used, newest, writes, call, sync, confirmed, gaveUp>>
  BY DEF Retry, network
<1>5. Aside({k}) /\ k \in Ids
  BY <1>1, <1>2, <1>3, <1>4, HeadFacts DEF Aside, SameQueues
<1>6. \A n : Held(k, n)' <=> Held(k, n)
  BY <1>3, <1>4, <1>5, SameHeld
<1>7. Ordered(k)'
  <2>1. InOrder(Queue(k), k, newest[k], gaveUp[k])
    BY <1>2, <1>5 DEF Sorted, Ordered
  <2>2. InOrder(Queue(k)', k, newest'[k], gaveUp'[k])
    BY <1>3, <1>4, <1>5, <2>1 DEF SameQueues
  <2> QED
    BY <2>2 DEF Ordered
<1>8. confirmed \subseteq confirmed'
  BY <1>4
<1> QED
  BY <1>1, <1>2, <1>3, <1>4, <1>5, <1>6, <1>7, <1>8, HeadDone

LEMMA ConfirmCore ==
  ASSUME TypeOK, Core, NEW d \in Drains, Advance(d), drain[d].to = At(d)
  PROVE  Core'
<1>1. PICK k : k = drain[d].key
  OBVIOUS
<1>2. Running(d) /\ Filed /\ Sorted
  BY DEF Core, Running, Advance
<1>3. Filed' /\ Popped(k) /\ Takes(d, k)
  <2>1. PICK h : h = Shift(heap, drain[d].array)
    OBVIOUS
  <2>2. PICK at : at = IF h[drain[d].array] = <<>> THEN [queueAt EXCEPT ![k] = 0] ELSE queueAt
    OBVIOUS
  <2>3. LoopTop(d, k, h, at, draining)
    BY <1>1, <2>1, <2>2 DEF Advance
  <2> QED
    BY <1>1, <1>2, <2>1, <2>2, <2>3, PopEffect
<1>4. /\ UNCHANGED <<setting, local, server, used, newest, writes, call, sync, gaveUp>>
      /\ confirmed' = confirmed \cup {drain[d].item.n}
  BY DEF Advance, network
<1>5. /\ k \in Ids /\ InOrder(Tail(Queue(k)), k, newest[k], gaveUp[k])
      /\ Numbers(Queue(k)) = {drain[d].item.n} \cup Numbers(Tail(Queue(k)))
  BY <1>1, <1>2, HeadFacts
<1>6. Aside({k})
  BY <1>3, <1>4 DEF Aside, Popped
<1>7. Queue(k)' = Tail(Queue(k))
  BY <1>3 DEF Popped
<1>8. Ordered(k)'
  <2>1. InOrder(Queue(k)', k, newest'[k], gaveUp'[k])
    BY <1>4, <1>5, <1>7
  <2> QED
    BY <2>1 DEF Ordered
<1>9. Numbers(Queue(k))' = Numbers(Tail(Queue(k)))
  BY <1>7 DEF Numbers
<1>10. \A n \in DOMAIN writes : /\ Held(k, n)' => Held(k, n)
                                /\ Held(k, n) => n \in confirmed' \/ Held(k, n)'
  BY <1>4, <1>5, <1>9 DEF Held
<1>11. confirmed \subseteq confirmed'
  BY <1>4
<1> QED
  BY <1>1, <1>2, <1>3, <1>4, <1>6, <1>8, <1>10, <1>11, HeadDone

LEMMA GiveUpCore ==
  ASSUME TypeOK, Core, NEW d \in Drains, GiveUp(d)
  PROVE  Core'
<1>1. PICK k : k = drain[d].key
  OBVIOUS
<1>2. PICK n : n = drain[d].item.n
  OBVIOUS
<1>3. Running(d) /\ Filed /\ Sorted /\ Origins
  BY DEF Core, Running, GiveUp
<1>4. Filed' /\ Popped(k) /\ Takes(d, k)
  <2>1. PICK h : h = Shift(heap, drain[d].array)
    OBVIOUS
  <2>2. PICK at : at = IF h[drain[d].array] = <<>> THEN [queueAt EXCEPT ![k] = 0] ELSE queueAt
    OBVIOUS
  <2>3. LoopTop(d, k, h, at, draining)
    BY <1>1, <2>1, <2>2 DEF GiveUp
  <2> QED
    BY <1>1, <1>3, <2>1, <2>2, <2>3, PopEffect
<1>5. /\ UNCHANGED <<setting, local, server, used, newest, writes, call, sync, confirmed>>
      /\ setting.givesUp /\ gaveUp' = [gaveUp EXCEPT ![k] = n]
  BY <1>1, <1>2 DEF GiveUp, network
<1>6. /\ k \in Ids /\ InOrder(Tail(Queue(k)), k, newest[k], n)
      /\ Numbers(Queue(k)) = {n} \cup Numbers(Tail(Queue(k)))
      /\ n \in DOMAIN writes /\ n \in Nat /\ gaveUp[k] < n
  BY <1>1, <1>2, <1>3, HeadFacts
<1>7. gaveUp'[k] = n /\ \A j \in Ids : j # k => gaveUp'[j] = gaveUp[j]
  BY <1>5, <1>6 DEF TypeOK
<1>8. Aside({k})
  BY <1>4, <1>7 DEF Aside, Popped
<1>9. Queue(k)' = Tail(Queue(k))
  BY <1>4 DEF Popped
<1>10. Ordered(k)'
  <2>1. InOrder(Queue(k)', k, newest'[k], gaveUp'[k])
    BY <1>5, <1>6, <1>7, <1>9
  <2> QED
    BY <2>1 DEF Ordered
<1>11. Numbers(Queue(k))' = Numbers(Tail(Queue(k)))
  BY <1>9 DEF Numbers
<1>12. \A m \in DOMAIN writes : Held(k, m)' => Held(k, m)
  BY <1>6, <1>7, <1>11 DEF Held
<1>13. Held(k, n)
  BY <1>6 DEF Held
<1>14. ASSUME NEW m \in DOMAIN writes, Held(k, m)
       PROVE  \/ Held(k, m)'
              \/ /\ setting.givesUp
                 /\ \E l \in DOMAIN writes : l > m /\ writes[l].id = writes[m].id
  <2>1. CASE gaveUp[k] = m
    <3>1. writes[n].id = writes[m].id
      BY <1>3, <1>6, <1>13, <1>14 DEF Origins
    <3>2. n > m
      <4>1. m \in Nat
        BY <1>6, QueueFacts
      <4> QED
        BY <1>6, <2>1, <4>1
    <3> QED
      BY <1>5, <1>6, <3>1, <3>2
  <2>2. CASE m \in Numbers(Queue(k))
    BY <1>6, <1>7, <1>11, <2>2 DEF Held
  <2> QED
    BY <1>14, <2>1, <2>2 DEF Held
<1>15. confirmed \subseteq confirmed'
  BY <1>5
<1> QED
  BY <1>1, <1>3, <1>4, <1>5, <1>8, <1>10, <1>12, <1>14, <1>15, HeadDone

\* After a create that got another id, the rest of its queue is filed there.
LEMMA MoveCore ==
  ASSUME TypeOK, Core, NEW d \in Drains, Advance(d), drain[d].to # At(d)
  PROVE  Core'
<1>1. PICK k : k = drain[d].key
  OBVIOUS
<1>2. PICK n : n = drain[d].item.n
  OBVIOUS
<1>3. PICK to : to = drain[d].to
  OBVIOUS
<1>4. Running(d) /\ Filed /\ Sorted /\ Origins /\ Targets /\ Sent(d)
  BY DEF Core, Running, Advance, Sent
<1>5. /\ k \in Ids /\ At(d) = k /\ Queue(k) # <<>>
      /\ InOrder(Tail(Queue(k)), k, newest[k], n)
      /\ Tail(Queue(k)) \in Seq([n : DOMAIN writes, id : Ids])
      /\ Numbers(Queue(k)) = {n} \cup Numbers(Tail(Queue(k)))
      /\ n \in DOMAIN writes /\ n \in Nat
  BY <1>1, <1>2, <1>4, HeadFacts
<1>6. Moving(d) /\ to # k
  BY <1>1, <1>3, <1>4, <1>5 DEF Moving
<1>7. to \in Ids /\ to \in used /\ to \notin KnownIds /\ Queue(to) = <<>> /\ gaveUp[to] = 0 /\ newest[to] <= n
  BY <1>2, <1>3, <1>6, TargetFree
<1>8. Filed' /\ Moved(k, to) /\ Takes(d, to)
  BY <1>1, <1>3, <1>4, <1>6, <1>7, MoveEffect
<1>9. /\ UNCHANGED <<setting, local, server, used, newest, writes, call, sync, gaveUp>>
      /\ confirmed' = confirmed \cup {n}
  BY <1>2 DEF Advance, network
<1>10. Aside({k, to})
  BY <1>8, <1>9 DEF Aside, Moved
<1>11. Queue(k)' = <<>> /\ Queue(to)' = Rest(Tail(Queue(k)), to)
  BY <1>8 DEF Moved
<1>12. /\ InOrder(Rest(Tail(Queue(k)), to), to, newest[to], 0)
       /\ Numbers(Rest(Tail(Queue(k)), to)) = Numbers(Tail(Queue(k)))
  <2>1. newest[to] \in Nat /\ DOMAIN writes \in SUBSET Nat
    BY <1>7, QueueFacts
  <2> QED
    BY <1>5, <1>7, <2>1, RestQueue
<1>13. Ordered(k)' /\ Ordered(to)'
  <2>1. InOrder(Queue(k)', k, newest'[k], gaveUp'[k])
    BY <1>11, EmptyQueue
  <2>2. InOrder(Queue(to)', to, newest'[to], gaveUp'[to])
    BY <1>7, <1>9, <1>11, <1>12
  <2> QED
    BY <2>1, <2>2 DEF Ordered
<1>14. Sorted'
  BY <1>4, <1>5, <1>7, <1>9, <1>10, <1>13, SortedAside
<1>15. \A m \in DOMAIN writes : m # 0
  BY <1>5, QueueFacts
<1>16. Numbers(Queue(k))' = {} /\ Numbers(Queue(to))' = Numbers(Tail(Queue(k))) /\ Numbers(Queue(to)) = {}
  <2>1. Numbers(Queue(k)') = {} /\ Numbers(Queue(to)') = Numbers(Tail(Queue(k))) /\ Numbers(Queue(to)) = {}
    BY <1>7, <1>11, <1>12, EmptyQueue
  <2> QED
    BY <2>1 DEF Numbers
<1>17. \A m \in DOMAIN writes :
          /\ Held(k, m)' => Held(k, m)
          /\ Held(to, m)' => Held(k, m)
          /\ ~Held(to, m)
          /\ Held(k, m) => m \in confirmed' \/ Held(k, m)' \/ Held(to, m)'
  BY <1>5, <1>7, <1>9, <1>15, <1>16 DEF Held
<1>18. \A j \in Ids : j # k /\ j # to => \A m : Held(j, m)' <=> Held(j, m)
  <2>1. {k, to} \in SUBSET Ids
    BY <1>5, <1>7
  <2> QED
    BY <1>10, <2>1, HeldAside
<1>19. Origins'
  <2>1. ASSUME NEW i \in KnownIds, NEW m \in DOMAIN writes, Held(i, m)'
        PROVE  writes[m].id = i
    <3>1. i \in Ids
      BY ExistingAssumption DEF KnownIds, Ids
    <3>2. Held(i, m)
      BY <1>7, <1>17, <1>18, <2>1, <3>1
    <3> QED
      BY <1>4, <3>2 DEF Origins
  <2>2. ASSUME NEW i \in Ids, NEW m \in DOMAIN writes, NEW l \in DOMAIN writes, Held(i, m)', Held(i, l)'
        PROVE  writes[m].id = writes[l].id
    <3>1. PICK j \in Ids : Held(j, m) /\ Held(j, l)
      BY <1>5, <1>17, <1>18, <2>2
    <3> QED
      BY <1>4, <3>1 DEF Origins
  <2>3. \A m \in DOMAIN writes : writes[m].id \in KnownIds
    BY <1>4 DEF Origins
  <2> QED
    BY <1>9, <2>1, <2>2, <2>3 DEF Origins
<1>20. Pending'
  <2>1. \A i \in Ids : \A m \in DOMAIN writes :
            Held(i, m) => m \in confirmed' \/ \E j \in Ids : Held(j, m)'
    BY <1>5, <1>7, <1>17, <1>18
  <2>2. confirmed \subseteq confirmed'
    BY <1>9
  <2> QED
    BY <1>9, <2>1, <2>2, PendingKept
<1>21. Unlimited'
  BY <1>9 DEF Core, Unlimited
<1>22. Fresh'
  <2>1. {k, to} \subseteq KnownIds \cup used
    BY <1>1, <1>4, <1>7, KeyKnown DEF Core
  <2>2. setting.keepsIds => \A j \in Ids \ KnownIds : local'[j] = Absent /\ sync'.items[j] = Absent
    BY <1>9, KnownAbsent
  <2>3. \A c \in Callers : call'[c] # NoCall => call'[c].id \in KnownIds
    BY <1>9, CallsKnown
  <2> QED
    BY <1>5, <1>7, <1>9, <1>10, <2>1, <2>2, <2>3, FreshAside DEF Core
<1>23. \A e \in Drains : Moving(e)' => /\ Moving(e) /\ drain'[e].to = drain[e].to
                                       /\ drain'[e].item = drain[e].item
                                       /\ drain[e].to \notin {k, to}
  <2> SUFFICES ASSUME NEW e \in Drains, Moving(e)'
               PROVE  Moving(e) /\ drain'[e] = drain[e] /\ drain[e].to # k /\ drain[e].to # to
    OBVIOUS
  <2>1. Moving(e) /\ drain'[e] = drain[e] /\ e # d
    BY <1>8, TakesMoving
  <2>2. Queue(drain[e].to) = <<>>
    BY <2>1, TargetFree
  <2>3. drain[e].to # to
    BY <1>3, <1>4, <1>6, <2>1 DEF Targets
  <2> QED
    BY <1>5, <2>1, <2>2, <2>3
<1>24. Targets'
  BY <1>4, <1>5, <1>7, <1>9, <1>10, <1>23, TargetsAside
<1> QED
  BY <1>8, <1>14, <1>19, <1>20, <1>21, <1>22, <1>24 DEF Core

\* The ids of the records a user addresses.
LEMMA AddressedKnown ==
  ASSUME TypeOK, Core, StableIds, NEW i \in Ids, Addressed(i)
  PROVE  i \in KnownIds
<1>1. CASE i \in LocalIds
  BY <1>1 DEF KnownIds
<1>2. CASE Visible(i)
  BY <1>2, KnownAbsent DEF Visible, StableIds
<1>3. CASE \E c \in Callers : call[c] # NoCall /\ call[c].id = i
  BY <1>3, CallsKnown
<1> QED
  BY <1>1, <1>2, <1>3 DEF Addressed

\* The writes are one more, by n, and nothing is given up under its id.
Grown(n, t, i, v) ==
    /\ n \in Nat /\ DOMAIN writes' = DOMAIN writes \cup {n}
    /\ \A m \in DOMAIN writes : m \in Nat /\ m # 0 /\ m < n /\ writes'[m] = writes[m]
    /\ n \in DOMAIN writes' /\ writes'[n].type = t /\ writes'[n].id = i /\ writes'[n].data = v
    /\ gaveUp'[i] = 0 /\ \A j \in Ids : j # i => gaveUp'[j] = gaveUp[j]

\* A write of a user is queued behind the others of its id.
LEMMA WroteEffect ==
  ASSUME TypeOK, Filed, NEW t \in Kinds, NEW i \in Ids, NEW v \in Records, NEW x,
         Wrote(t, i, v, x), NEW n, n = Len(writes) + 1
  PROVE  Filed' /\ Joined(n, i) /\ Started(i) /\ Grown(n, t, i, v)
<1>1. /\ Len(writes) \in Nat /\ DOMAIN writes = 1..Len(writes)
      /\ DOMAIN writes' = 1..(Len(writes) + 1)
      /\ \A m \in DOMAIN writes : writes'[m] = writes[m]
      /\ writes'[Len(writes) + 1].type = t /\ writes'[Len(writes) + 1].id = i
      /\ writes'[Len(writes) + 1].data = v
      /\ ItemSet \subseteq ItemSet' /\ [n |-> Len(writes) + 1, id |-> i] \in ItemSet'
  BY MadeTypes DEF Wrote, Kinds
<1>2. PICK I : I = ItemSet'
  OBVIOUS
<1>3. heap \in Seq(Seq(I))
  BY <1>1, <1>2, SeqGrows DEF TypeOK
<1>4. drain \in [Drains -> DrainSet(I, DOMAIN heap)]
  <2>1. DrainSet(ItemSet, DOMAIN heap) \subseteq DrainSet(I, DOMAIN heap)
    BY <1>1, <1>2, DrainSetGrows
  <2>2. drain \in [Drains -> DrainSet(ItemSet, DOMAIN heap)]
    BY DEF TypeOK
  <2> QED
    BY <2>1, <2>2
<1>5. Enqueue(n, i) /\ [n |-> n, id |-> i] \in I /\ n \in Nat
  BY <1>1, <1>2 DEF Wrote
<1>6. queueAt \in [Ids -> 0..Len(heap)] /\ draining \subseteq Ids /\ gaveUp \in [Ids -> 0..Len(writes)]
  BY DEF TypeOK
<1>7. Filed' /\ Joined(n, i) /\ Started(i)
  BY <1>3, <1>4, <1>5, <1>6, EnqueueEffect
<1>8. gaveUp' = [gaveUp EXCEPT ![i] = 0]
  BY <1>5 DEF Enqueue
<1>9. gaveUp'[i] = 0 /\ \A j \in Ids : j # i => gaveUp'[j] = gaveUp[j]
  BY <1>6, <1>8
<1>10. DOMAIN writes' = DOMAIN writes \cup {n}
  BY <1>1
<1>11. \A m \in DOMAIN writes : m \in Nat /\ m # 0 /\ m < n
  BY <1>1
<1> QED
  BY <1>1, <1>5, <1>7, <1>9, <1>10, <1>11 DEF Grown

LEMMA WroteCore ==
  ASSUME TypeOK, Core, StableIds, NEW t \in Kinds, NEW i \in Ids, NEW v \in Records, NEW x \in Values,
         Wrote(t, i, v, x)
  PROVE  Core'
<1>1. PICK n : n = Len(writes) + 1
  OBVIOUS
<1>2. Filed /\ Sorted /\ Origins /\ Fresh /\ Targets /\ Unlimited /\ Pending
  BY DEF Core
<1>3. /\ Filed'
      /\ n \in Nat /\ DOMAIN writes' = DOMAIN writes \cup {n}
      /\ \A m \in DOMAIN writes : m \in Nat /\ m # 0 /\ m < n /\ writes'[m] = writes[m]
      /\ n \in DOMAIN writes' /\ writes'[n].id = i
      /\ Queue(i)' = Append(Queue(i), [n |-> n, id |-> i])
      /\ \A j \in Ids : j # i => Queue(j)' = Queue(j)
      /\ gaveUp'[i] = 0 /\ \A j \in Ids : j # i => gaveUp'[j] = gaveUp[j]
      /\ \A e \in Drains : \/ drain'[e] = drain[e]
                           \/ drain'[e] = Off
                           \/ drain'[e].pc = "sending"
  <2>1. Filed' /\ Joined(n, i) /\ Started(i) /\ Grown(n, t, i, v)
    BY <1>1, <1>2, WroteEffect
  <2> QED
    BY <2>1 DEF Joined, Started, Grown
<1>4. UNCHANGED <<setting, local, server, used, newest, confirmed, sync>>
  BY DEF Wrote, network
<1>5. i \in KnownIds
  <2>1. Addressed(i)
    BY DEF Wrote, Addressed, NoCall
  <2> QED
    BY <2>1, AddressedKnown
<1>6. Aside({i})
  BY <1>3 DEF Aside
<1>7. /\ InOrder(Append(Queue(i), [n |-> n, id |-> i]), i, newest[i], 0)
      /\ Numbers(Append(Queue(i), [n |-> n, id |-> i])) = Numbers(Queue(i)) \cup {n}
  <2>1. PICK S : S = [n : DOMAIN writes \cup {n}, id : Ids]
    OBVIOUS
  <2>2. Queue(i) \in Seq([n : DOMAIN writes, id : Ids])
    BY QueueFacts
  <2>3. Queue(i) \in Seq(S)
    <3>1. [n : DOMAIN writes, id : Ids] \subseteq S
      BY <2>1
    <3> QED
      BY <2>2, <3>1, SeqGrows
  <2>4. [n |-> n, id |-> i] \in S
    BY <2>1
  <2>5. newest[i] \in Nat /\ gaveUp[i] \in Nat /\ newest[i] <= Len(writes) /\ Len(writes) \in Nat
        /\ Numbers(Queue(i)) \subseteq DOMAIN writes
    BY QueueFacts
  <2>6. newest[i] <= n /\ 0 < n /\ 0 <= gaveUp[i]
    BY <1>1, <2>5
  <2>7. InOrder(Queue(i), i, newest[i], gaveUp[i])
    BY <1>2 DEF Sorted, Ordered
  <2>8. \A m \in Numbers(Queue(i)) : m \in Nat /\ m < n
    BY <1>3, <2>5
  <2> QED
    BY <1>3, <2>3, <2>4, <2>5, <2>6, <2>7, <2>8, AppendQueue
<1>8. Ordered(i)'
  <2>1. InOrder(Queue(i)', i, newest'[i], gaveUp'[i])
    BY <1>3, <1>4, <1>7
  <2> QED
    BY <2>1 DEF Ordered
<1>9. Sorted'
  BY <1>2, <1>4, <1>6, <1>8, SortedAside
<1>10. Numbers(Queue(i))' = Numbers(Queue(i)) \cup {n}
  BY <1>3, <1>7 DEF Numbers
<1>11. \A j \in Ids : j # i => \A m : Held(j, m)' <=> Held(j, m)
  BY <1>6, HeldAside
<1>12. \A j \in Ids : ~Held(j, n)
  <2> SUFFICES ASSUME NEW j \in Ids PROVE ~Held(j, n)
    OBVIOUS
  <2>1. Numbers(Queue(j)) \subseteq DOMAIN writes /\ gaveUp[j] \in Nat /\ gaveUp[j] <= Len(writes)
        /\ Len(writes) \in Nat
    BY QueueFacts
  <2>2. n \notin DOMAIN writes
    BY <1>3
  <2>3. gaveUp[j] # n
    BY <1>1, <2>1
  <2> QED
    BY <2>1, <2>2, <2>3 DEF Held
<1>13. Held(i, n)' /\ \A m \in DOMAIN writes : Held(i, m)' <=> m \in Numbers(Queue(i))
  BY <1>3, <1>10 DEF Held
<1>14. \A j \in Ids : \A m \in DOMAIN writes' : Held(j, m)' => (m \in DOMAIN writes /\ Held(j, m)) \/ (m = n /\ j = i)
  BY <1>3, <1>11, <1>12, <1>13 DEF Held
<1>15. Origins'
  <2>1. \A m \in DOMAIN writes' : writes'[m].id \in KnownIds
    BY <1>2, <1>3, <1>5 DEF Origins
  <2>2. KnownIds \subseteq Ids
    BY ExistingAssumption DEF KnownIds, Ids
  <2>3. \A j \in KnownIds : \A m \in DOMAIN writes' : Held(j, m)' => writes'[m].id = j
    BY <1>2, <1>3, <1>14, <2>2 DEF Origins
  <2>4. ASSUME NEW j \in Ids, NEW m \in DOMAIN writes', NEW l \in DOMAIN writes', Held(j, m)', Held(j, l)'
        PROVE  writes'[m].id = writes'[l].id
    <3>1. CASE j \in KnownIds
      BY <2>3, <2>4, <3>1
    <3>2. CASE j \notin KnownIds
      <4>1. m \in DOMAIN writes /\ l \in DOMAIN writes /\ Held(j, m) /\ Held(j, l)
        BY <1>5, <1>14, <2>4, <3>2
      <4> QED
        BY <1>2, <1>3, <4>1 DEF Origins
    <3> QED
      BY <3>1, <3>2
  <2> QED
    BY <2>1, <2>3, <2>4 DEF Origins
<1>16. Unlimited'
  BY <1>2, <1>3, <1>4 DEF Unlimited
<1>17. Pending'
  <2> SUFFICES ASSUME NEW m \in DOMAIN writes'
               PROVE  \/ m \in confirmed' \/ \E j \in Ids : Held(j, m)'
                      \/ /\ setting'.givesUp
                         /\ \E l \in DOMAIN writes' : l > m /\ writes'[l].id = writes'[m].id
    BY DEF Pending
  <2>1. CASE m = n
    BY <1>13, <2>1
  <2>2. CASE m \in DOMAIN writes /\ m \in confirmed
    BY <1>4, <2>2
  <2>3. CASE m \in DOMAIN writes /\ setting.givesUp
             /\ \E l \in DOMAIN writes : l > m /\ writes[l].id = writes[m].id
    BY <1>3, <1>4, <2>3
  <2>4. ASSUME m \in DOMAIN writes, NEW j \in Ids, Held(j, m)
        PROVE  \/ \E k \in Ids : Held(k, m)'
               \/ /\ setting'.givesUp
                  /\ \E l \in DOMAIN writes' : l > m /\ writes'[l].id = writes'[m].id
    <3>1. CASE j # i
      BY <1>11, <2>4, <3>1
    <3>2. CASE j = i /\ m \in Numbers(Queue(i))
      BY <1>13, <2>4, <3>2
    <3>3. CASE j = i /\ gaveUp[i] = m
      <4>1. setting.givesUp
        BY <1>2, <1>3, <2>4, <3>3 DEF Unlimited
      <4>2. writes[m].id = i
        BY <1>2, <1>5, <2>4, <3>3 DEF Origins
      <4>3. n > m /\ writes'[n].id = writes'[m].id
        BY <1>3, <2>4, <4>2
      <4> QED
        BY <1>3, <1>4, <4>1, <4>3
    <3> QED
      BY <2>4, <3>1, <3>2, <3>3 DEF Held
  <2> QED
    BY <1>2, <1>3, <2>1, <2>2, <2>3, <2>4 DEF Pending
<1>18. Fresh'
  <2>1. setting.keepsIds => \A j \in Ids \ KnownIds : local'[j] = Absent /\ sync'.items[j] = Absent
    BY <1>4, KnownAbsent
  <2>2. \A c \in Callers : call'[c] # NoCall => call'[c].id \in KnownIds
    <3>1. \A c \in Callers : call'[c] = call[c] \/ call'[c] = NoCall
      BY DEF Wrote, TypeOK
    <3> QED
      BY <3>1, CallsKnown
  <2> QED
    BY <1>2, <1>4, <1>5, <1>6, <2>1, <2>2, FreshAside
<1>19. \A e \in Drains : Moving(e)' => /\ Moving(e) /\ drain'[e].to = drain[e].to
                                       /\ drain'[e].item = drain[e].item
                                       /\ drain[e].to \notin {i}
  <2> SUFFICES ASSUME NEW e \in Drains, Moving(e)'
               PROVE  Moving(e) /\ drain'[e] = drain[e] /\ drain[e].to # i
    OBVIOUS
  <2>1. drain'[e] = drain[e]
    BY <1>3 DEF Moving, Sent, Off
  <2>2. Moving(e)
    BY <2>1 DEF Moving, Sent
  <2> QED
    BY <1>5, <2>1, <2>2, TargetFree
<1>20. Targets'
  BY <1>2, <1>4, <1>6, <1>19, TargetsAside
<1> QED
  BY <1>3, <1>9, <1>15, <1>16, <1>17, <1>18, <1>20 DEF Core

\* Steps that leave the queues and the server alone.
LEMMA IdleCore ==
  ASSUME TypeOK, Core,
         UNCHANGED <<setting, server, used, newest, writes, confirmed,
                     heap, queueAt, draining, gaveUp, drain>>,
         setting.keepsIds => \A j \in Ids \ KnownIds : local'[j] = Absent /\ sync'.items[j] = Absent,
         \A c \in Callers : call'[c] # NoCall => call'[c].id \in KnownIds
  PROVE  Core'
<1>1. SameQueues
  BY DEF SameQueues, Queue
<1>2. Aside({})
  BY <1>1 DEF Aside, SameQueues
<1>3. \A j \in Ids : \A n : Held(j, n)' <=> Held(j, n)
  BY <1>1, SameHeld
<1>4. Origins'
  BY <1>3, HeldShrinks
<1>5. Pending'
  BY <1>3, PendingKept
<1>6. Unlimited'
  BY DEF Core, Unlimited
<1>7. Sorted'
  BY <1>2, SortedAside DEF Core
<1>8. Fresh'
  BY <1>2, FreshAside DEF Core
<1>9. Filed'
  BY DEF Core, Filed, Running
<1>10. Targets'
  <2>1. \A e \in Drains : Moving(e)' => Moving(e) /\ drain'[e].to = drain[e].to
                                        /\ drain'[e].item = drain[e].item
    BY DEF Moving, Sent
  <2> QED
    BY <1>2, <2>1, TargetsAside DEF Core
<1> QED
  BY <1>4, <1>5, <1>6, <1>7, <1>8, <1>9, <1>10 DEF Core

LEMMA TouchCore ==
  ASSUME TypeOK, Core, StableIds, NEW i \in Ids, NEW x \in Values, Touched(i, x)
  PROVE  Core'
<1>1. i \in KnownIds
  BY AddressedKnown DEF Touched
<1>2. UNCHANGED <<setting, server, used, newest, writes, confirmed, heap, queueAt, draining, gaveUp,
                  drain, sync>>
  BY DEF Touched, network, queues
<1>3. \A b \in Callers : call'[b] # NoCall => call'[b].id \in KnownIds
  BY <1>1, CallsKnown DEF Touched, TypeOK
<1>4. setting.keepsIds => \A j \in Ids \ KnownIds : local'[j] = Absent /\ sync'.items[j] = Absent
  <2>1. \A j \in Ids \ KnownIds : local'[j] = local[j]
    BY <1>1 DEF Touched, TypeOK, Copies
  <2> QED
    BY <1>2, <2>1, KnownAbsent
<1> QED
  BY <1>2, <1>3, <1>4, IdleCore

LEMMA SyncCore ==
  ASSUME TypeOK, Core, SyncFetch \/ SyncStore
  PROVE  Core'
<1>1. UNCHANGED <<setting, server, used, newest, writes, confirmed, heap, queueAt, draining, gaveUp,
                  drain, call>>
  BY DEF SyncFetch, SyncStore, network, queues
<1>2. ASSUME setting.keepsIds, NEW j \in Ids \ KnownIds
      PROVE  local'[j] = Absent /\ sync'.items[j] = Absent
  <2>1. local[j] = Absent /\ server[j] = Absent /\ sync.items[j] = Absent
    BY <1>2, KnownAbsent
  <2>2. CASE SyncFetch
    BY <2>1, <2>2 DEF SyncFetch
  <2>3. CASE SyncStore
    <3>1. sync'.items[j] = Absent
      BY <2>3 DEF SyncStore, NoSync
    <3>2. local'[j] = Absent
      BY <2>1, <2>3 DEF SyncStore
    <3> QED
      BY <3>1, <3>2
  <2> QED
    BY <2>2, <2>3
<1>3. \A c \in Callers : call'[c] # NoCall => call'[c].id \in KnownIds
  BY <1>1, CallsKnown
<1> QED
  BY <1>1, <1>2, <1>3, IdleCore

LEMMA PollCore ==
  ASSUME EngineTypeOK, Core, NEW p \in Polls, PollStart(p) \/ Rollback(p)
  PROVE  Core'
<1>1. TypeOK
  BY DEF EngineTypeOK
<1>2. UNCHANGED <<setting, server, used, newest, writes, confirmed, heap, queueAt, draining, gaveUp,
                  drain, call, sync>>
  BY DEF PollStart, Rollback, client, network, queues
<1>3. ASSUME setting.keepsIds, NEW j \in Ids \ KnownIds
      PROVE  local'[j] = Absent /\ sync'.items[j] = Absent
  <2>1. local[j] = Absent /\ sync.items[j] = Absent
    BY <1>3, KnownAbsent
  <2>2. CASE PollStart(p)
    BY <1>2, <2>1, <2>2 DEF PollStart, client
  <2>3. CASE Rollback(p)
    <3>1. PICK i : i = IdOf(poll[p].undo)
      OBVIOUS
    <3>2. local' = [local EXCEPT ![i] = poll[p].value]
      BY <2>3, <3>1 DEF Rollback
    <3>3. poll[p].undo \in DOMAIN writes
      BY <2>3, PollFields DEF Rollback
    <3>4. i \in KnownIds
      BY <3>1, <3>3 DEF Core, Origins, IdOf
    <3>5. local \in [Ids -> {Absent} \cup Records]
      BY <1>1 DEF TypeOK, Copies
    <3>6. local'[j] = local[j]
      BY <3>2, <3>4, <3>5
    <3> QED
      BY <1>2, <2>1, <3>6
  <2> QED
    BY <2>2, <2>3
<1>4. \A c \in Callers : call'[c] # NoCall => call'[c].id \in KnownIds
  BY <1>2, CallsKnown
<1> QED
  BY <1>1, <1>2, <1>3, <1>4, IdleCore

LEMMA DrainCore ==
  ASSUME TypeOK, Core, NEW d \in Drains, DrainStep(d) \/ Lose(d)
  PROVE  Core'
<1>1. CASE Advance(d)
  BY <1>1, ConfirmCore, MoveCore
<1> QED
  BY <1>1, DeliverCore, PlainCore, RetryCore, GiveUpCore DEF DrainStep

\* No step changes the setting.
LEMMA SameSetting ==
  ASSUME EngineTypeOK, [EngineNext]_trackedVars
  PROVE  setting' = setting
<1>1. ASSUME NEW d \in Drains, DrainStep(d) \/ Lose(d) PROVE setting' = setting
  BY <1>1 DEF DrainStep, DeliverCreate, DeliverChange, DeliverMissing, Lose, StoreDelete, StoreResult,
              Advance, BackOff, Retry, GiveUp
<1>2. ASSUME NEW p \in Polls, PollStart(p) \/ Rollback(p) PROVE setting' = setting
  BY <1>2 DEF PollStart, Rollback
<1> QED
  BY <1>1, <1>2, StepForms DEF SyncFetch, SyncStore, Touched, Wrote, trackedVars, vars

LEMMA CoreKept ==
  ASSUME CoreInv, [EngineNext]_trackedVars
  PROVE  CoreInv'
<1>1. EngineTypeOK /\ TypeOK /\ EngineTypeOK'
  BY TypesKept DEF CoreInv, EngineTypeOK
<1>2. setting' = setting
  BY <1>1, SameSetting
<1>3. StableIds' <=> StableIds
  BY <1>2 DEF StableIds
<1>4. ASSUME StableIds PROVE Core'
  <2>1. Core
    BY <1>4 DEF CoreInv
  <2>2. CASE UNCHANGED trackedVars
    <3>1. UNCHANGED <<setting, server, used, newest, writes, confirmed, heap, queueAt, draining,
                      gaveUp, drain, local, sync, call>>
      BY <2>2 DEF trackedVars, vars
    <3>2. setting.keepsIds => \A j \in Ids \ KnownIds : local'[j] = Absent /\ sync'.items[j] = Absent
      BY <2>1, <3>1, KnownAbsent
    <3>3. \A c \in Callers : call'[c] # NoCall => call'[c].id \in KnownIds
      BY <2>1, <3>1, CallsKnown
    <3> QED
      BY <1>1, <2>1, <3>1, <3>2, <3>3, IdleCore
  <2>3. ASSUME NEW t \in Kinds, NEW i \in Ids, NEW v \in Records, NEW x \in Values, Wrote(t, i, v, x)
        PROVE  Core'
    BY <1>1, <1>4, <2>1, <2>3, WroteCore
  <2>4. ASSUME NEW d \in Drains, DrainStep(d) \/ Lose(d) PROVE Core'
    BY <1>1, <2>1, <2>4, DrainCore
  <2>5. ASSUME NEW i \in Ids, NEW x \in Values, Touched(i, x) PROVE Core'
    BY <1>1, <1>4, <2>1, <2>5, TouchCore
  <2>6. ASSUME SyncFetch \/ SyncStore PROVE Core'
    BY <1>1, <2>1, <2>6, SyncCore
  <2>7. ASSUME NEW p \in Polls, PollStart(p) \/ Rollback(p) PROVE Core'
    BY <1>1, <2>1, <2>7, PollCore
  <2> QED
    BY <1>1, <2>2, <2>3, <2>4, <2>5, <2>6, <2>7, StepForms
<1> QED
  BY <1>1, <1>3, <1>4 DEF CoreInv

LEMMA CoreInit ==
  ASSUME EngineInit, EngineTypeOK
  PROVE  CoreInv
<1>1. /\ writes = <<>> /\ heap = <<>> /\ confirmed = {} /\ draining = {} /\ used = Existing
      /\ \A i \in Ids : queueAt[i] = 0 /\ gaveUp[i] = 0 /\ newest[i] = 0
      /\ \A d \in Drains : drain[d] = Off
      /\ \A c \in Callers : call[c] = NoCall
      /\ sync = NoSync /\ server = local
      /\ \A i \in Ids \ Existing : local[i] = Absent
  BY DEF EngineInit, Init
<1>2. DOMAIN writes = {}
  BY <1>1
<1>3. \A i \in Ids : Queue(i) = <<>>
  BY <1>1 DEF Queue
<1>4. Filed
  BY <1>1 DEF Filed, Running, Off
<1>5. Sorted
  BY <1>3, EmptyQueue DEF Sorted, Ordered
<1>6. Origins /\ Unlimited /\ Pending
  BY <1>1, <1>2 DEF Origins, Unlimited, Pending
<1>7. Fresh
  BY <1>1, <1>3 DEF Fresh, KnownIds, NoSync
<1>8. Targets
  BY <1>1 DEF Targets, Moving, Sent, Off
<1> QED
  BY <1>4, <1>5, <1>6, <1>7, <1>8 DEF CoreInv, Core

\* The inductive invariant of the write path: one drain per filed queue, which
\* works on its head; queues in the order the writes were made, and moved to a
\* new id that no other queue has.
THEOREM CoreInvariant == EngineSpec => []CoreInv
<1>1. EngineInit /\ EngineTypeOK => CoreInv
  BY CoreInit
<1>2. CoreInv /\ [EngineNext]_trackedVars => CoreInv'
  BY CoreKept
<1> QED
  BY <1>1, <1>2, TypeCorrect, PTL DEF EngineSpec

LEMMA HeldListed ==
  ASSUME NEW i \in Ids, NEW n, Held(i, n)
  PROVE  Listed(n)
BY DEF Held, Listed, Queued, Numbers

\* pendingWrites() lists every write that is not confirmed, and, where attempts
\* are limited, at least the latest write to each record.
THEOREM PendingWritesListed == EngineSpec => []PendingListed
<1>1. CoreInv => PendingListed
  <2> SUFFICES ASSUME CoreInv, StableIds, NEW n \in DOMAIN writes
               PROVE  \/ n \in confirmed \/ Listed(n)
                      \/ /\ setting.givesUp
                         /\ \E m \in DOMAIN writes : m > n /\ writes[m].id = writes[n].id
    BY DEF PendingListed
  <2> QED
    BY HeldListed DEF CoreInv, Core, Pending
<1> QED
  BY <1>1, CoreInvariant, PTL

-----------------------------------------------------------------------------
(* What the server applies. *)

\* Only a request that reaches the server moves newest, and only upwards.
LEMMA NewestGrows ==
  ASSUME CoreInv, [EngineNext]_trackedVars, StableIds, NEW i \in Ids
  PROVE  newest'[i] >= newest[i]
<1>1. TypeOK /\ Core /\ Filed /\ Sorted /\ Fresh
  BY DEF CoreInv, EngineTypeOK, Core
<1>2. newest[i] \in Nat
  BY <1>1, QueueFacts
<1>3. CASE newest' = newest
  BY <1>2, <1>3
<1>4. ASSUME NEW d \in Drains, DeliverCreate(d) \/ DeliverChange(d)
      PROVE  newest'[i] >= newest[i]
  <2>1. PICK k : k = drain[d].key
    OBVIOUS
  <2>2. Running(d)
    BY <1>4 DEF Running, DeliverCreate, DeliverChange
  <2>3. drain[d].item.n \in Nat /\ newest[k] <= drain[d].item.n
    BY <1>1, <2>1, <2>2, HeadFacts
  <2>4. PICK j \in Ids, v \in Values :
           Apply(d, j, v) /\ (j = k \/ (j \notin used /\ j \notin KnownIds))
    BY <1>1, <1>4, <2>1, LandsOn
  <2>5. newest'[j] = drain[d].item.n /\ \A l \in Ids : l # j => newest'[l] = newest[l]
    BY <1>1, <2>2, <2>4, ApplyFields
  <2>6. newest[j] <= drain[d].item.n
    BY <1>1, <2>3, <2>4 DEF Fresh
  <2> QED
    BY <1>2, <2>5, <2>6
<1>5. ASSUME NEW d \in Drains, DrainStep(d) \/ Lose(d), ~(DeliverCreate(d) \/ DeliverChange(d))
      PROVE  newest' = newest
  BY <1>5 DEF DrainStep, DeliverMissing, Lose, StoreDelete, StoreResult, Advance, BackOff, Retry, GiveUp, network
<1>6. ASSUME NEW p \in Polls, PollStart(p) \/ Rollback(p) PROVE newest' = newest
  BY <1>6 DEF PollStart, Rollback, client, network
<1>7. SyncFetch \/ SyncStore => newest' = newest
  BY DEF SyncFetch, SyncStore, network
<1>8. \A j \in Ids, x \in Values : Touched(j, x) => newest' = newest
  BY DEF Touched, network
<1>9. \A t \in Kinds, j \in Ids, v \in Records, x \in Values : Wrote(t, j, v, x) => newest' = newest
  BY DEF Wrote, network
<1>10. UNCHANGED trackedVars => newest' = newest
  BY DEF trackedVars, vars
<1>11. EngineTypeOK
  BY DEF CoreInv
<1> QED
  BY <1>3, <1>4, <1>5, <1>6, <1>7, <1>8, <1>9, <1>10, <1>11, StepForms

\* "Writes to the same record land in the order they were made", however often
\* they are retried and whichever drain sends them.
THEOREM LandInOrder == EngineSpec => WritesInOrder
<1>1. CoreInv /\ [EngineNext]_trackedVars => [StableIds => \A i \in Ids : newest'[i] >= newest[i]]_vars
  BY NewestGrows
<1> QED
  BY <1>1, CoreInvariant, PTL DEF EngineSpec, WritesInOrder

-----------------------------------------------------------------------------
(* What the engine shows. *)

\* A poll settles those of done, which are not given up, and stops at one that
\* is, or at none.
WentOver(p, todo, ch, done) ==
    /\ changes' = Settled(done, ch)
    /\ \A n \in done : ~IsGivenUp(n)
    /\ \/ poll' = [poll EXCEPT ![p] = NoPoll]
       \/ \E n \in todo \ done :
             /\ IsGivenUp(n) /\ {m \in todo : m < n} \cap done = {}
             /\ poll' = [poll EXCEPT ![p] = [undo |-> n, todo |-> {m \in todo : m < n},
                                             value |-> RollbackValue(ch, n)]]

LEMMA GoOverForm ==
  ASSUME NEW p \in Polls, NEW ch, NEW todo \in SUBSET Nat, GoOver(p, todo, ch)
  PROVE  \E done \in SUBSET todo : WentOver(p, todo, ch, done)
<1>1. CASE {n \in todo : IsGivenUp(n)} = {}
  <2>1. changes' = Settled(todo, ch) /\ poll' = [poll EXCEPT ![p] = NoPoll]
    BY <1>1 DEF GoOver
  <2>2. WentOver(p, todo, ch, todo)
    BY <1>1, <2>1 DEF WentOver
  <2> QED
    BY <2>2
<1>2. CASE {n \in todo : IsGivenUp(n)} # {}
  <2>1. PICK n \in todo :
           /\ IsGivenUp(n) /\ \A m \in todo : IsGivenUp(m) => m <= n
           /\ changes' = Settled({m \in todo : m > n}, ch)
           /\ poll' = [poll EXCEPT ![p] = [undo |-> n, todo |-> {m \in todo : m < n},
                                           value |-> RollbackValue(ch, n)]]
    BY <1>2 DEF GoOver
  <2>2. PICK done : done = {m \in todo : m > n}
    OBVIOUS
  <2>3. done \in SUBSET todo /\ n \in todo \ done /\ {m \in todo : m < n} \cap done = {}
    <3>1. \A m \in todo : m \in Nat
      OBVIOUS
    <3>2. \A m \in todo : ~(m > n /\ m < n) /\ ~(n > n)
      BY <3>1
    <3> QED
      BY <2>2, <3>2
  <2>4. \A m \in done : ~IsGivenUp(m)
    BY <2>1, <2>2
  <2>5. changes' = Settled(done, ch)
    BY <2>1, <2>2
  <2>6. \E l \in todo \ done :
           /\ IsGivenUp(l) /\ {m \in todo : m < l} \cap done = {}
           /\ poll' = [poll EXCEPT ![p] = [undo |-> l, todo |-> {m \in todo : m < l},
                                           value |-> RollbackValue(ch, l)]]
    BY <2>1, <2>3
  <2>7. WentOver(p, todo, ch, done)
    BY <2>4, <2>5, <2>6 DEF WentOver
  <2> QED
    BY <2>3, <2>7
<1> QED
  BY <1>1, <1>2

\* A change that has no pending write left.
LEMMA NothingPending ==
  ASSUME TypeOK, Core, setting.keepsIds, NEW n \in DOMAIN writes, ~InQueue(n), ~IsGivenUp(n)
  PROVE  n \in confirmed \/ \E m \in DOMAIN writes : m > n /\ IdOf(m) = IdOf(n)
<1>1. Filed /\ Sorted /\ Origins /\ Fresh /\ Pending
  BY DEF Core
<1>2. ASSUME NEW i \in Ids, Held(i, n) PROVE FALSE
  <2>1. n \in Nat /\ n # 0
    BY <1>2, QueueFacts
  <2>2. i \in KnownIds
    <3>1. Numbers(<<>>) = {}
      BY EmptyQueue
    <3> QED
      BY <1>1, <1>2, <2>1, <3>1 DEF Fresh, Held
  <2>3. IdOf(n) = i
    BY <1>1, <1>2, <2>2 DEF Origins, IdOf
  <2>4. CASE gaveUp[i] = n
    BY <2>1, <2>3, <2>4 DEF IsGivenUp
  <2>5. CASE n \in Numbers(Queue(i))
    <3>1. PICK j \in DOMAIN Queue(i) : Queue(i)[j].n = n
      BY <2>5 DEF Numbers
    <3>2. Queue(i)[j].id = i
      BY <1>1, <3>1 DEF Sorted, Ordered, InOrder
    <3> QED
      BY <2>3, <3>1, <3>2 DEF InQueue
  <2> QED
    BY <1>2, <2>4, <2>5 DEF Held
<1> QED
  BY <1>1, <1>2 DEF Pending, IdOf

\* Writes are made and confirmed for good.
LEMMA WritesGrow ==
  ASSUME EngineTypeOK, [EngineNext]_trackedVars
  PROVE  /\ confirmed \subseteq confirmed'
         /\ \A m \in DOMAIN writes : m \in DOMAIN writes' /\ writes'[m] = writes[m]
<1>1. ASSUME NEW d \in Drains, DrainStep(d) \/ Lose(d)
      PROVE  confirmed \subseteq confirmed' /\ writes' = writes
  BY <1>1 DEF DrainStep, DeliverCreate, DeliverChange, DeliverMissing, Lose, StoreDelete, StoreResult,
              Advance, BackOff, Retry, GiveUp
<1>2. ASSUME NEW p \in Polls, PollStart(p) \/ Rollback(p)
      PROVE  confirmed \subseteq confirmed' /\ writes' = writes
  BY <1>2 DEF PollStart, Rollback, client
<1>3. ASSUME NEW t \in Kinds, NEW i \in Ids, NEW v \in Records, NEW x \in Values, Wrote(t, i, v, x)
      PROVE  /\ confirmed \subseteq confirmed'
             /\ \A m \in DOMAIN writes : m \in DOMAIN writes' /\ writes'[m] = writes[m]
  BY <1>3, MadeTypes DEF Wrote, EngineTypeOK, Kinds
<1>4. (SyncFetch \/ SyncStore \/ UNCHANGED trackedVars \/ \E i \in Ids, x \in Values : Touched(i, x)) =>
          confirmed \subseteq confirmed' /\ writes' = writes
  BY DEF SyncFetch, SyncStore, Touched, trackedVars, vars
<1> QED
  BY <1>1, <1>2, <1>3, <1>4, StepForms

\* Confirmed, or overtaken by a later write to the same id.
Ended(n) == n \in confirmed \/ \E m \in DOMAIN writes : m > n /\ IdOf(m) = IdOf(n)

LEMMA EndedForGood ==
  ASSUME EngineTypeOK, [EngineNext]_trackedVars, NEW n \in DOMAIN writes, Ended(n)
  PROVE  Ended(n)'
BY WritesGrow DEF Ended, IdOf

\* The changes a poll goes over, and the one whose rollback is done.
LEMMA PollForm ==
  ASSUME EngineTypeOK, NEW p \in Polls, PollStart(p) \/ Rollback(p)
  PROVE  \E ch \in Seq(ChangeSet) : \E todo \in SUBSET DOMAIN changes :
            /\ GoOver(p, todo, ch) /\ DOMAIN ch = DOMAIN changes /\ todo \in SUBSET Nat
            /\ \/ PollStart(p) /\ ch = changes /\ todo = Syncing(changes)
               \/ Rollback(p) /\ ch = FailedAt(poll[p].undo) /\ todo = poll[p].todo
<1>1. changes \in Seq(ChangeSet) /\ DOMAIN changes = 1..Len(changes)
  BY LenProperties DEF EngineTypeOK
<1>2. CASE PollStart(p)
  <2>1. Syncing(changes) \in SUBSET DOMAIN changes
    BY DEF Syncing
  <2>2. GoOver(p, Syncing(changes), changes) /\ Syncing(changes) \in SUBSET Nat
    BY <1>1, <1>2, <2>1 DEF PollStart
  <2> QED
    BY <1>1, <1>2, <2>1, <2>2
<1>3. CASE Rollback(p)
  <2>1. PICK n : n = poll[p].undo
    OBVIOUS
  <2>2. poll[p] # NoPoll /\ GoOver(p, poll[p].todo, FailedAt(n))
    BY <1>3, <2>1 DEF Rollback, FailedAt
  <2>3. n \in DOMAIN changes /\ poll[p].todo \in SUBSET DOMAIN changes
    BY <2>1, <2>2, PollFields
  <2>4. FailedAt(n) \in Seq(ChangeSet) /\ DOMAIN FailedAt(n) = DOMAIN changes
    BY <1>1, <2>3, FailedTypes
  <2>5. poll[p].todo \in SUBSET Nat
    BY <1>1, <2>3
  <2> QED
    BY <1>3, <2>1, <2>2, <2>3, <2>4, <2>5
<1> QED
  BY <1>2, <1>3

LEMMA ChangedWrites ==
  ASSUME EngineTypeOK
  PROVE  DOMAIN changes \subseteq DOMAIN writes
<1>1. DOMAIN changes = 1..Len(changes) /\ DOMAIN writes = 1..Len(writes) /\ Len(writes) \in Nat
  BY LenProperties DEF EngineTypeOK, TypeOK
<1> QED
  BY <1>1 DEF EngineTypeOK

\* A change the engine records.
LEMMA TrackForm ==
  ASSUME EngineTypeOK, NEW b \in Values, Track(b), setting \in Tracked
  PROVE  LET n == Len(writes) + 1 IN
         /\ n \notin DOMAIN changes /\ DOMAIN changes' = DOMAIN changes \cup {n}
         /\ \A m \in DOMAIN changes : changes'[m] = changes[m]
         /\ changes'[n].state = "syncing" /\ changes'[n].before = b /\ changes'[n].kept = TRUE
         /\ UNCHANGED <<poll, overlapped>>
<1>1. PICK r : r = [state |-> "syncing", before |-> b, kept |-> TRUE]
  OBVIOUS
<1>2. r \in ChangeSet /\ r.state = "syncing" /\ r.before = b /\ r.kept = TRUE
  BY <1>1 DEF ChangeSet, Values
<1>3. changes' = Append(changes, r) /\ UNCHANGED <<poll, overlapped>>
  BY <1>1 DEF Track
<1>4. changes \in Seq(ChangeSet) /\ Len(changes) = Len(writes) /\ Len(changes) \in Nat
      /\ DOMAIN changes = 1..Len(changes)
  BY LenProperties DEF EngineTypeOK
<1>5. /\ changes' \in Seq(ChangeSet) /\ Len(changes') = Len(changes) + 1
      /\ \A m \in 1..Len(changes) : changes'[m] = changes[m]
      /\ changes'[Len(changes) + 1] = r
  BY <1>2, <1>3, <1>4, AppendProperties
<1>6. DOMAIN changes' = 1..(Len(changes) + 1)
  BY <1>5, LenProperties
<1> QED
  BY <1>2, <1>3, <1>4, <1>5, <1>6

LEMMA SyncedKept ==
  ASSUME CoreInv, SyncedWasConfirmed, [EngineNext]_trackedVars
  PROVE  SyncedWasConfirmed'
<1>1. EngineTypeOK /\ TypeOK /\ setting' = setting
  BY SameSetting DEF CoreInv, EngineTypeOK
<1> SUFFICES ASSUME setting.keepsIds, NEW n \in DOMAIN changes', changes'[n].state = "synced"
             PROVE  Ended(n)'
  BY <1>1 DEF SyncedWasConfirmed, Ended
<1>2. Core
  BY DEF CoreInv, StableIds
<1>3. DOMAIN changes \subseteq DOMAIN writes
  BY <1>1, ChangedWrites
<1>4. ASSUME n \in DOMAIN changes, changes[n].state = "synced"
      PROVE  Ended(n)'
  <2>1. Ended(n)
    BY <1>4 DEF SyncedWasConfirmed, Ended
  <2> QED
    BY <1>1, <1>3, <1>4, <2>1, EndedForGood
<1>5. CASE changes' = changes
  BY <1>4, <1>5
<1>6. ASSUME NEW b \in Values, Track(b), setting \in Tracked
      PROVE  Ended(n)'
  <2>1. PICK m : m = Len(writes) + 1
    OBVIOUS
  <2>2. DOMAIN changes' = DOMAIN changes \cup {m} /\ changes'[m].state = "syncing"
        /\ \A l \in DOMAIN changes : changes'[l] = changes[l]
    BY <1>1, <1>6, <2>1, TrackForm
  <2> QED
    BY <1>4, <2>2
<1>7. ASSUME NEW p \in Polls, PollStart(p) \/ Rollback(p)
      PROVE  Ended(n)'
  <2>1. PICK ch \in Seq(ChangeSet), todo \in SUBSET DOMAIN changes :
            /\ GoOver(p, todo, ch) /\ DOMAIN ch = DOMAIN changes /\ todo \in SUBSET Nat
            /\ \/ ch = changes
               \/ Rollback(p) /\ ch = FailedAt(poll[p].undo)
    BY <1>1, <1>7, PollForm
  <2>2. PICK done \in SUBSET todo : changes' = Settled(done, ch) /\ \A m \in done : ~IsGivenUp(m)
    <3>1. PICK done \in SUBSET todo : WentOver(p, todo, ch, done)
      BY <2>1, GoOverForm
    <3> QED
      BY <3>1 DEF WentOver
  <2>3. n \in DOMAIN changes /\ n \in DOMAIN writes
    BY <1>3, <2>1, <2>2, SettledTypes
  <2>4. CASE n \in done /\ ~InQueue(n)
    <3>1. Ended(n)
      BY <1>1, <1>2, <2>2, <2>3, <2>4, NothingPending DEF Ended
    <3> QED
      BY <1>1, <2>3, <3>1, EndedForGood
  <2>5. CASE ~(n \in done /\ ~InQueue(n))
    <3>1. ch[n].state = "synced"
      <4>1. n \in DOMAIN ch
        BY <2>1, <2>3
      <4>2. Settled(done, ch)[n] = ch[n]
        BY <2>5, <4>1, SettledTypes
      <4> QED
        BY <2>2, <4>2
    <3>2. changes[n].state = "synced"
      <4>1. CASE ch = changes
        BY <3>1, <4>1
      <4>2. CASE Rollback(p) /\ ch = FailedAt(poll[p].undo)
        <5>1. poll[p].undo \in DOMAIN changes
          BY <1>1, <4>2, PollFields DEF Rollback
        <5>2. changes \in Seq(ChangeSet)
          BY <1>1 DEF EngineTypeOK
        <5> QED
          BY <2>3, <3>1, <4>2, <5>1, <5>2, FailedTypes
      <4> QED
        BY <2>1, <4>1, <4>2
    <3> QED
      BY <1>4, <2>3, <3>2
  <2> QED
    BY <2>4, <2>5
<1> QED
  BY <1>1, <1>5, <1>6, <1>7, StepForms DEF engine, trackedVars

\* "a write that has left the queue succeeded": what the engine shows as synced
\* was confirmed, or a later edit of the record took its place.
THEOREM SyncedIsConfirmed == EngineSpec => []SyncedWasConfirmed
<1>1. EngineInit => SyncedWasConfirmed
  BY DEF EngineInit, SyncedWasConfirmed
<1>2. CoreInv /\ SyncedWasConfirmed /\ [EngineNext]_trackedVars => SyncedWasConfirmed'
  BY SyncedKept
<1> QED
  BY <1>1, <1>2, CoreInvariant, PTL DEF EngineSpec

-----------------------------------------------------------------------------
(* What the copies hold, where the server keeps the client's ids. *)

LEMMA HeldHome ==
  ASSUME TypeOK, Core, setting.keepsIds, NEW i \in Ids, NEW n \in DOMAIN writes, Held(i, n)
  PROVE  i \in KnownIds /\ writes[n].id = i
<1>1. Origins /\ Fresh
  BY DEF Core
<1>2. n \in Nat /\ n # 0 /\ Numbers(<<>>) = {}
  <2>1. DOMAIN writes = 1..Len(writes) /\ Len(writes) \in Nat
    BY QueueFacts
  <2>2. Numbers(<<>>) = {}
    BY EmptyQueue
  <2> QED
    BY <2>1, <2>2
<1>3. i \in KnownIds
  BY <1>1, <1>2 DEF Fresh, Held
<1> QED
  BY <1>1, <1>3 DEF Origins

\* No queue moves.
LEMMA KeepsPlace ==
  ASSUME TypeOK, Core, setting.keepsIds, NEW d \in Drains, Sent(d)
  PROVE  drain[d].to = drain[d].key
<1>1. used \subseteq KnownIds
  BY DEF Core, Fresh
<1> QED
  BY <1>1, TargetFree DEF Moving

\* A write that was given up stays so.
Lasting == \A i \in Ids : LostAt(i) => LostAt(i)'

LEMMA LostKept ==
  ASSUME \A m \in DOMAIN writes : m \in DOMAIN writes' /\ writes'[m] = writes[m],
         \A i \in Ids : \A m \in DOMAIN writes : /\ m \in Numbers(Queue(i))' => m \in Numbers(Queue(i))
                                                 /\ writes[m].id = i /\ m \in confirmed' =>
                                                       m \in confirmed \cup Numbers(Queue(i))
  PROVE  Lasting
BY DEF Lasting, LostAt

\* Nothing happens to the record i, except that it is stored for a write to come.
Untouched(i) ==
    /\ Queue(i)' = Queue(i) /\ server'[i] = server[i]
    /\ Calling(i)' \/ (~Calling(i) /\ local'[i] = local[i])
    /\ \A e \in Drains : Sent(e)' /\ drain'[e].key = i => drain'[e] = drain[e]

LEMMA AgreesAside ==
  ASSUME TypeOK, NEW i \in Ids, Agrees(i), Untouched(i),
         \A m \in DOMAIN writes : writes'[m] = writes[m]
  PROVE  Agrees(i)'
<1>1. /\ Queue(i)' = Queue(i) /\ server'[i] = server[i]
      /\ ~Calling(i)' => ~Calling(i) /\ local'[i] = local[i]
  BY DEF Untouched
<1>2. ASSUME NEW e \in Drains, Sent(e)', drain'[e].key = i
      PROVE  /\ server'[i] = IF TypeOf(e)' = "delete" THEN Absent ELSE DataOf(e)'
             /\ Len(Queue(i)') = 1 /\ (drain'[e].pc = "stored" \/ TypeOf(e)' = "delete")
                /\ ~Calling(i)' => local'[i] = server'[i]
  <2>1. drain'[e] = drain[e]
    BY <1>2 DEF Untouched
  <2>2. Sent(e) /\ drain[e].key = i
    BY <1>2, <2>1 DEF Sent
  <2>3. drain[e].item.n \in DOMAIN writes
    BY <2>2, RunningFields DEF Sent, Running
  <2>4. TypeOf(e)' = TypeOf(e) /\ DataOf(e)' = DataOf(e)
    BY <2>1, <2>3 DEF TypeOf, DataOf
  <2> QED
    BY <1>1, <2>1, <2>2, <2>4 DEF Agrees
<1> QED
  BY <1>1, <1>2 DEF Agrees

\* A step that touches the record k only.
LEMMA AgreeStep ==
  ASSUME TypeOK, AgreeOn, Lasting, Unconfirmed', NEW k \in Ids,
         \A i \in Ids : i # k => Untouched(i),
         \A m \in DOMAIN writes : writes'[m] = writes[m],
         Agrees(k) => LostAt(k)' \/ Agrees(k)'
  PROVE  AgreeOn'
<1>1. ASSUME NEW i \in Ids PROVE LostAt(i)' \/ Agrees(i)'
  <2>1. CASE LostAt(i)
    BY <2>1 DEF Lasting
  <2>2. CASE Agrees(i)
    BY <2>2, AgreesAside
  <2> QED
    BY <2>1, <2>2 DEF AgreeOn
<1> QED
  BY <1>1 DEF AgreeOn

\* The drain of a record is the only one that is done with its request.
LEMMA SoleDrain ==
  ASSUME TypeOK, Filed, NEW d \in Drains, Running(d), NEW e \in Drains, Running(e),
         drain[e].key = drain[d].key
  PROVE  e = d
BY DEF Filed

\* Answers: the server applies a request, or the client stores its result.
LEMMA AnswerAgrees ==
  ASSUME TypeOK, Core, setting.keepsIds, AgreeOn, NEW d \in Drains,
         \/ DeliverCreate(d) \/ DeliverChange(d) \/ DeliverMissing(d) \/ Lose(d)
         \/ StoreDelete(d) \/ StoreResult(d) \/ BackOff(d)
  PROVE  AgreeOn' /\ Lasting
<1>1. PICK k : k = drain[d].key
  OBVIOUS
<1>2. Filed /\ Sorted
  BY DEF Core
<1>3. Running(d) /\ Filed' /\ SameQueues /\ Stays(d)
  BY <1>2, AnswerEffect
<1>4. k \in Ids /\ At(d) = k /\ Queue(k) # <<>> /\ drain[d].item.n \in DOMAIN writes
  BY <1>1, <1>2, <1>3, HeadFacts
<1>5. UNCHANGED <<writes, confirmed, gaveUp, call>>
  BY DEF DeliverCreate, DeliverChange, DeliverMissing, Lose, StoreDelete, StoreResult, BackOff, network
<1>6. \A j \in Ids : \A n : Held(j, n)' <=> Held(j, n)
  BY <1>3, <1>5, SameHeld
<1>7. \A j \in Ids : Queue(j)' = Queue(j) /\ Numbers(Queue(j))' = Numbers(Queue(j))
  BY <1>3 DEF SameQueues, Numbers
<1>8. Lasting
  BY <1>5, <1>7, LostKept
<1>9. Unconfirmed'
  BY <1>5, <1>6 DEF AgreeOn, Unconfirmed
<1>10. local \in [Ids -> {Absent} \cup Records] /\ server \in [Ids -> {Absent} \cup Records]
  BY DEF TypeOK, Copies
<1>11. drain'[d].key = k /\ drain'[d].item = drain[d].item
  BY <1>1, <1>3 DEF Stays
<1>12. TypeOf(d)' = TypeOf(d) /\ DataOf(d)' = DataOf(d)
  BY <1>5, <1>11 DEF TypeOf, DataOf
<1>13. ASSUME NEW e \in Drains, Sent(e)', drain'[e].key = k PROVE e = d
  <2>1. CASE e # d
    <3>1. drain'[e] = drain[e]
      BY <1>3, <2>1 DEF Stays
    <3>2. Running(e) /\ drain[e].key = drain[d].key
      BY <1>1, <1>13, <3>1 DEF Running, Sent
    <3> QED
      BY <1>2, <1>3, <3>2, SoleDrain
  <2> QED
    BY <2>1
<1>14. ASSUME NEW i \in Ids, i # k, local'[i] = local[i], server'[i] = server[i]
       PROVE  Untouched(i)
  <2>1. ASSUME NEW e \in Drains, drain'[e].key = i PROVE drain'[e] = drain[e]
    BY <1>3, <1>11, <1>14, <2>1 DEF Stays
  <2> QED
    BY <1>5, <1>7, <1>14, <2>1 DEF Untouched, Calling
<1>15. CASE DeliverCreate(d) \/ DeliverChange(d)
  <2>1. PICK v : Apply(d, k, v) /\ v = IF TypeOf(d) = "delete" THEN Absent ELSE DataOf(d)
    BY <1>1, <1>15, LandsOn
  <2>2. drain'[d].pc = "ok" /\ server'[k] = v /\ \A j \in Ids : j # k => server'[j] = server[j]
    BY <1>3, <1>4, <2>1, ApplyFields
  <2>3. local' = local \/ local' = [local EXCEPT ![k] = Absent]
    BY <1>4, <1>15 DEF DeliverCreate, DeliverChange, LocalBeforeSend
  <2>4. \A i \in Ids : i # k => local'[i] = local[i]
    BY <1>10, <2>3
  <2>5. TypeOf(d) = "delete" => local'[k] = Absent
    BY <1>4, <1>10, <1>15 DEF DeliverCreate, DeliverChange, LocalBeforeSend
  <2>6. Agrees(k)'
    <3>1. server'[k] = IF TypeOf(d)' = "delete" THEN Absent ELSE DataOf(d)'
      BY <1>12, <2>1, <2>2
    <3>2. drain'[d].pc = "stored" \/ TypeOf(d)' = "delete" => local'[k] = server'[k]
      BY <1>12, <2>1, <2>2, <2>5
    <3> QED
      BY <1>4, <1>7, <1>13, <3>1, <3>2 DEF Agrees
  <2> QED
    BY <1>4, <1>5, <1>8, <1>9, <1>14, <2>2, <2>4, <2>6, AgreeStep
<1>16. CASE DeliverMissing(d) \/ Lose(d) \/ BackOff(d)
  <2>1. PICK y \in {"failed", "backoff"} : drain' = [drain EXCEPT ![d].pc = y]
    BY <1>16 DEF DeliverMissing, Lose, BackOff
  <2>2. drain'[d].pc = y
    BY <1>3, <2>1, PcFields
  <2>3. ~Sent(d)'
    BY <2>1, <2>2 DEF Sent
  <2>4. server' = server /\ (local' = local \/ local' = [local EXCEPT ![k] = Absent])
    BY <1>4, <1>16 DEF DeliverMissing, Lose, BackOff, LocalBeforeSend, network
  <2>5. \A i \in Ids : i # k => local'[i] = local[i]
    BY <1>10, <2>4
  <2>6. Agrees(k)'
    BY <1>4, <1>7, <1>13, <2>3 DEF Agrees
  <2> QED
    BY <1>4, <1>5, <1>8, <1>9, <1>14, <2>4, <2>5, <2>6, AgreeStep
<1>17. CASE StoreResult(d)
  <2>1. Sent(d) /\ server' = server /\ drain' = [drain EXCEPT ![d].pc = "stored"]
    BY <1>17 DEF StoreResult, Sent, network
  <2>2. drain'[d].pc = "stored" /\ drain[d].to = k
    BY <1>1, <1>3, <2>1, PcFields, KeepsPlace
  <2>4. \/ TypeOf(d) # "delete" /\ local' = [local EXCEPT ![k] = DataOf(d)]
        \/ TypeOf(d) = "delete" /\ local' = local
    BY <1>17, <2>2 DEF StoreResult
  <2>5. /\ \A i \in Ids : i # k => local'[i] = local[i]
        /\ TypeOf(d) # "delete" => local'[k] = DataOf(d)
        /\ TypeOf(d) = "delete" => local'[k] = local[k]
    BY <1>4, <1>10, <2>4
  <2>6. ASSUME Agrees(k) PROVE Agrees(k)'
    <3>1. /\ server[k] = IF TypeOf(d) = "delete" THEN Absent ELSE DataOf(d)
          /\ Len(Queue(k)) = 1 /\ TypeOf(d) = "delete" /\ ~Calling(k) => local[k] = server[k]
      BY <1>1, <2>1, <2>6 DEF Agrees
    <3>2. server'[k] = IF TypeOf(d)' = "delete" THEN Absent ELSE DataOf(d)'
      BY <1>12, <2>1, <3>1
    <3>3. Len(Queue(k)') = 1 /\ ~Calling(k)' => local'[k] = server'[k]
      <4>1. Calling(k)' <=> Calling(k)
        BY <1>5 DEF Calling
      <4> QED
        BY <1>4, <1>7, <2>1, <2>5, <3>1, <4>1
    <3> QED
      BY <1>4, <1>7, <1>13, <3>2, <3>3 DEF Agrees
  <2> QED
    BY <1>4, <1>5, <1>8, <1>9, <1>14, <2>1, <2>5, <2>6, AgreeStep
<1>18. CASE StoreDelete(d)
  <2>1. Sent(d) /\ drain[d].to # At(d)
    BY <1>18 DEF StoreDelete, Sent
  <2> QED
    BY <1>1, <1>4, <2>1, KeepsPlace
<1> QED
  BY <1>15, <1>16, <1>17, <1>18

LEMMA TakesSent ==
  ASSUME NEW d \in Drains, NEW k, Takes(d, k), NEW e \in Drains, Sent(e)'
  PROVE  e # d /\ drain'[e] = drain[e] /\ Sent(e)
<1>1. e # d
  BY DEF Takes, Sent, Off
<1>2. drain'[e] = drain[e]
  BY <1>1 DEF Takes
<1> QED
  BY <1>1, <1>2 DEF Sent

LEMMA RetryAgrees ==
  ASSUME TypeOK, Core, AgreeOn, NEW d \in Drains, Retry(d)
  PROVE  AgreeOn' /\ Lasting
<1>1. PICK k : k = drain[d].key
  OBVIOUS
<1>2. SameQueues /\ Takes(d, k)
  BY <1>1, RetryEffect DEF Core
<1>3. UNCHANGED <<writes, confirmed, gaveUp, local, server, call>>
  BY DEF Retry, network
<1>4. \A j \in Ids : \A n : Held(j, n)' <=> Held(j, n)
  BY <1>2, <1>3, SameHeld
<1>5. \A j \in Ids : Queue(j)' = Queue(j) /\ Numbers(Queue(j))' = Numbers(Queue(j))
  BY <1>2 DEF SameQueues, Numbers
<1>6. Lasting
  BY <1>3, <1>5, LostKept
<1>7. Unconfirmed'
  BY <1>3, <1>4 DEF AgreeOn, Unconfirmed
<1>8. \A i \in Ids : Untouched(i)
  BY <1>2, <1>3, <1>5, TakesSent DEF Untouched, Calling
<1>9. \A i \in Ids : LostAt(i)' \/ Agrees(i)'
  BY <1>3, <1>6, <1>8, AgreesAside DEF AgreeOn, Lasting
<1> QED
  BY <1>6, <1>7, <1>9 DEF AgreeOn

\* The record is settled when its last write is confirmed.
LEMMA ConfirmAgrees ==
  ASSUME TypeOK, Core, setting.keepsIds, AgreeOn, NEW d \in Drains, Advance(d)
  PROVE  AgreeOn' /\ Lasting
<1>1. PICK k : k = drain[d].key
  OBVIOUS
<1>2. PICK n : n = drain[d].item.n
  OBVIOUS
<1>3. Running(d) /\ Filed /\ Sorted /\ Sent(d) /\ drain[d].pc = "stored" /\ Unconfirmed
  BY DEF Core, Running, Advance, Sent, AgreeOn
<1>4. /\ k \in Ids /\ At(d) = k /\ Queue(k) # <<>> /\ n \in DOMAIN writes /\ n \in Nat
      /\ gaveUp[k] < n /\ n \in Numbers(Queue(k))
      /\ Numbers(Queue(k)) = {n} \cup Numbers(Tail(Queue(k)))
      /\ \A m \in Numbers(Tail(Queue(k))) : m \in DOMAIN writes /\ m > n
  BY <1>1, <1>2, <1>3, HeadFacts
<1>5. drain[d].to = At(d)
  BY <1>1, <1>3, <1>4, KeepsPlace
<1>6. Popped(k) /\ Takes(d, k)
  <2>1. PICK h : h = Shift(heap, drain[d].array)
    OBVIOUS
  <2>2. PICK at : at = IF h[drain[d].array] = <<>> THEN [queueAt EXCEPT ![k] = 0] ELSE queueAt
    OBVIOUS
  <2>3. LoopTop(d, k, h, at, draining)
    BY <1>1, <1>5, <2>1, <2>2 DEF Advance
  <2> QED
    BY <1>1, <1>3, <2>1, <2>2, <2>3, PopEffect
<1>7. UNCHANGED <<local, server, writes, gaveUp, call>> /\ confirmed' = confirmed \cup {n}
  BY <1>2 DEF Advance, network
<1>8. Queue(k)' = Tail(Queue(k)) /\ \A j \in Ids : j # k => Queue(j)' = Queue(j)
  BY <1>6 DEF Popped
<1>9. /\ Numbers(Queue(k))' = Numbers(Tail(Queue(k)))
      /\ \A j \in Ids : j # k => Numbers(Queue(j))' = Numbers(Queue(j))
  BY <1>8 DEF Numbers
<1>10. Held(k, n) /\ writes[n].id = k
  BY <1>4, HeldHome DEF Held
<1>11. Unconfirmed'
  <2> SUFFICES ASSUME NEW i \in Ids, NEW m \in DOMAIN writes, Held(i, m)' PROVE m \notin confirmed'
    BY <1>7 DEF Unconfirmed
  <2>1. Held(i, m)
    BY <1>4, <1>7, <1>9 DEF Held
  <2>2. m \notin confirmed
    BY <1>3, <2>1 DEF Unconfirmed
  <2>3. m # n
    <3>1. CASE i = k
      <4>1. m \in Numbers(Tail(Queue(k))) \/ m = gaveUp[k]
        BY <1>7, <1>9, <3>1 DEF Held
      <4>2. gaveUp[k] \in Nat /\ m \in Nat
        BY <1>4, QueueFacts
      <4> QED
        BY <1>4, <4>1, <4>2
    <3>2. CASE i # k
      BY <1>10, <2>1, <3>2, HeldHome
    <3> QED
      BY <3>1, <3>2
  <2> QED
    BY <1>7, <2>2, <2>3
<1>12. Lasting
  <2>1. \A i \in Ids : \A m \in DOMAIN writes : /\ m \in Numbers(Queue(i))' => m \in Numbers(Queue(i))
                                                /\ writes[m].id = i /\ m \in confirmed' =>
                                                      m \in confirmed \cup Numbers(Queue(i))
    BY <1>4, <1>7, <1>9, <1>10
  <2> QED
    BY <1>7, <2>1, LostKept
<1>13. \A i \in Ids : i # k => Untouched(i)
  BY <1>6, <1>7, <1>8, TakesSent DEF Untouched, Calling
<1>14. ASSUME Agrees(k) PROVE Agrees(k)'
  <2>1. Queue(k)' = <<>> => Len(Queue(k)) = 1
    <3>1. PICK q : q = Queue(k)
      OBVIOUS
    <3>2. q \in Seq(ItemSet) /\ q # <<>> /\ Queue(k)' = Tail(q)
      BY <1>4, <1>8, <3>1, QueueTypes
    <3>3. PICK r : r = Tail(q)
      OBVIOUS
    <3>4. r \in Seq(ItemSet) /\ Len(r) = Len(q) - 1 /\ Len(q) \in Nat
      BY <3>2, <3>3, HeadTailProperties, LenProperties
    <3>5. r = <<>> => Len(r) = 0
      BY <3>4, EmptySeq
    <3>6. r = <<>> => Len(q) = 1
      BY <3>4, <3>5
    <3> QED
      BY <3>1, <3>2, <3>3, <3>6
  <2>2. Len(Queue(k)) = 1 /\ ~Calling(k) => local[k] = server[k]
    BY <1>1, <1>3, <1>14 DEF Agrees
  <2>4. Calling(k)' <=> Calling(k)
    BY <1>7 DEF Calling
  <2>3. \A e \in Drains : ~(Sent(e)' /\ drain'[e].key = k)
    <3> SUFFICES ASSUME NEW e \in Drains, Sent(e)', drain'[e].key = k PROVE FALSE
      OBVIOUS
    <3>1. e # d /\ drain'[e] = drain[e] /\ Sent(e)
      BY <1>6, TakesSent
    <3>2. Running(e) /\ drain[e].key = drain[d].key
      BY <1>1, <3>1 DEF Running, Sent
    <3> QED
      BY <1>3, <3>1, <3>2, SoleDrain
  <2> QED
    BY <1>7, <2>1, <2>2, <2>3, <2>4 DEF Agrees
<1> QED
  BY <1>4, <1>7, <1>11, <1>12, <1>13, <1>14, AgreeStep

LEMMA GiveUpAgrees ==
  ASSUME TypeOK, Core, setting.keepsIds, AgreeOn, NEW d \in Drains, GiveUp(d)
  PROVE  AgreeOn' /\ Lasting
<1>1. PICK k : k = drain[d].key
  OBVIOUS
<1>2. PICK n : n = drain[d].item.n
  OBVIOUS
<1>3. Running(d) /\ Filed /\ Sorted /\ Unconfirmed
  BY DEF Core, Running, GiveUp, AgreeOn
<1>4. /\ k \in Ids /\ n \in DOMAIN writes /\ n \in Nat /\ n \in Numbers(Queue(k))
      /\ Numbers(Queue(k)) = {n} \cup Numbers(Tail(Queue(k)))
      /\ \A m \in Numbers(Tail(Queue(k))) : m \in DOMAIN writes /\ m > n
  BY <1>1, <1>2, <1>3, HeadFacts
<1>5. Popped(k) /\ Takes(d, k)
  <2>1. PICK h : h = Shift(heap, drain[d].array)
    OBVIOUS
  <2>2. PICK at : at = IF h[drain[d].array] = <<>> THEN [queueAt EXCEPT ![k] = 0] ELSE queueAt
    OBVIOUS
  <2>3. LoopTop(d, k, h, at, draining)
    BY <1>1, <2>1, <2>2 DEF GiveUp
  <2> QED
    BY <1>1, <1>3, <2>1, <2>2, <2>3, PopEffect
<1>6. UNCHANGED <<local, server, writes, confirmed, call>> /\ gaveUp' = [gaveUp EXCEPT ![k] = n]
  BY <1>1, <1>2 DEF GiveUp, network
<1>7. gaveUp'[k] = n /\ \A j \in Ids : j # k => gaveUp'[j] = gaveUp[j]
  BY <1>4, <1>6 DEF TypeOK
<1>8. Queue(k)' = Tail(Queue(k)) /\ \A j \in Ids : j # k => Queue(j)' = Queue(j)
  BY <1>5 DEF Popped
<1>9. /\ Numbers(Queue(k))' = Numbers(Tail(Queue(k)))
      /\ \A j \in Ids : j # k => Numbers(Queue(j))' = Numbers(Queue(j))
  BY <1>8 DEF Numbers
<1>10. Held(k, n) /\ writes[n].id = k
  BY <1>4, HeldHome DEF Held
<1>11. Unconfirmed'
  <2>1. \A i \in Ids : \A m \in DOMAIN writes : Held(i, m)' => Held(i, m)
    BY <1>4, <1>7, <1>9 DEF Held
  <2> QED
    BY <1>3, <1>6, <2>1 DEF Unconfirmed
<1>12. Lasting
  <2>1. \A i \in Ids : \A m \in DOMAIN writes : m \in Numbers(Queue(i))' => m \in Numbers(Queue(i))
    BY <1>4, <1>9
  <2> QED
    BY <1>6, <2>1, LostKept
<1>13. \A i \in Ids : i # k => Untouched(i)
  BY <1>5, <1>6, <1>8, TakesSent DEF Untouched, Calling
<1>14. LostAt(k)'
  <2>1. n \notin Numbers(Tail(Queue(k)))
    BY <1>4
  <2>2. n \notin confirmed
    BY <1>3, <1>4, <1>10 DEF Unconfirmed
  <2> QED
    BY <1>4, <1>6, <1>9, <1>10, <2>1, <2>2 DEF LostAt
<1> QED
  BY <1>4, <1>6, <1>11, <1>12, <1>13, <1>14, AgreeStep

LEMMA WroteAgrees ==
  ASSUME TypeOK, Core, AgreeOn, NEW t \in Kinds, NEW i \in Ids, NEW v \in Records, NEW x,
         Wrote(t, i, v, x)
  PROVE  AgreeOn' /\ Lasting
<1>1. PICK n : n = Len(writes) + 1
  OBVIOUS
<1>2. Filed' /\ Joined(n, i) /\ Started(i) /\ Grown(n, t, i, v)
  BY <1>1, WroteEffect DEF Core
<1>3. PICK item : item = [n |-> n, id |-> i]
  OBVIOUS
<1>4. /\ Queue(i)' = Append(Queue(i), item)
      /\ \A j \in Ids : j # i => Queue(j)' = Queue(j)
  BY <1>2, <1>3 DEF Joined
<1>5. /\ n \in Nat /\ DOMAIN writes' = DOMAIN writes \cup {n}
      /\ \A m \in DOMAIN writes : m \in Nat /\ m # 0 /\ m < n /\ writes'[m] = writes[m]
      /\ gaveUp'[i] = 0 /\ \A j \in Ids : j # i => gaveUp'[j] = gaveUp[j]
  BY <1>2 DEF Grown
<1>6. UNCHANGED <<confirmed, server, local>>
  BY DEF Wrote, network
<1>7. /\ Queue(i) \in Seq([n : DOMAIN writes, id : Ids]) /\ Len(Queue(i)) \in Nat
      /\ DOMAIN Queue(i) = 1..Len(Queue(i))
  BY QueueFacts, QueueTypes
<1>8. /\ Len(Queue(i)') = Len(Queue(i)) + 1 /\ DOMAIN Queue(i)' = 1..(Len(Queue(i)) + 1)
      /\ \A l \in 1..Len(Queue(i)) : Queue(i)'[l] = Queue(i)[l]
      /\ Queue(i)'[Len(Queue(i)) + 1] = item
  <2>1. PICK S : S = [n : DOMAIN writes \cup {n}, id : Ids]
    OBVIOUS
  <2>2. Queue(i) \in Seq(S) /\ item \in S
    <3>1. [n : DOMAIN writes, id : Ids] \subseteq S
      BY <2>1
    <3> QED
      BY <1>3, <1>7, <2>1, <3>1, SeqGrows
  <2>3. PICK q : q = Queue(i)
    OBVIOUS
  <2>4. /\ Append(q, item) \in Seq(S) /\ Len(Append(q, item)) = Len(q) + 1
        /\ \A l \in 1..Len(q) : Append(q, item)[l] = q[l]
        /\ Append(q, item)[Len(q) + 1] = item
    BY <2>2, <2>3, AppendProperties
  <2>5. DOMAIN Append(q, item) = 1..(Len(q) + 1)
    BY <2>4, LenProperties
  <2> QED
    BY <1>4, <2>3, <2>4, <2>5
<1>9. /\ Numbers(Queue(i))' \subseteq Numbers(Queue(i)) \cup {n}
      /\ \A j \in Ids : j # i => Numbers(Queue(j))' = Numbers(Queue(j))
  <2>1. \A l \in DOMAIN Queue(i)' : Queue(i)'[l].n \in Numbers(Queue(i)) \cup {n}
    BY <1>3, <1>7, <1>8 DEF Numbers
  <2> QED
    BY <1>4, <2>1 DEF Numbers
<1>10. Unconfirmed'
  <2> SUFFICES ASSUME NEW j \in Ids, NEW m \in DOMAIN writes', Held(j, m)' PROVE m \notin confirmed
    BY <1>6 DEF Unconfirmed
  <2>1. CASE m = n
    BY <1>5, <2>1 DEF TypeOK
  <2>2. CASE m # n
    <3>1. m \in DOMAIN writes /\ m # 0
      BY <1>5, <2>2
    <3>2. Held(j, m)
      BY <1>5, <1>9, <2>2, <3>1 DEF Held
    <3> QED
      BY <3>1, <3>2 DEF AgreeOn, Unconfirmed
  <2> QED
    BY <2>1, <2>2
<1>11. Lasting
  <2>1. \A m \in DOMAIN writes : m \in DOMAIN writes' /\ writes'[m] = writes[m] /\ m # n
    BY <1>5
  <2>2. \A j \in Ids : \A m \in DOMAIN writes : /\ m \in Numbers(Queue(j))' => m \in Numbers(Queue(j))
                                                /\ writes[m].id = j /\ m \in confirmed' =>
                                                      m \in confirmed \cup Numbers(Queue(j))
    BY <1>6, <1>9, <2>1
  <2> QED
    BY <2>1, <2>2, LostKept
<1>12. \A e \in Drains : Sent(e)' => drain'[e] = drain[e]
  BY <1>2 DEF Started, Sent, Off
<1>13. \A j \in Ids : j # i => Untouched(j)
  <2>1. \A j \in Ids : j # i /\ Calling(j) => Calling(j)'
    BY DEF Wrote, Calling, TypeOK
  <2> QED
    BY <1>4, <1>6, <1>12, <2>1 DEF Untouched
<1>14. ASSUME Agrees(i) PROVE Agrees(i)'
  <2>1. Queue(i)' # <<>>
    BY <1>7, <1>8
  <2>2. ASSUME NEW e \in Drains, Sent(e)', drain'[e].key = i
        PROVE  /\ server'[i] = IF TypeOf(e)' = "delete" THEN Absent ELSE DataOf(e)'
               /\ Len(Queue(i)') # 1
    <3>1. drain'[e] = drain[e] /\ Sent(e) /\ drain[e].key = i
      BY <1>12, <2>2 DEF Sent
    <3>2. drain[e].item.n \in DOMAIN writes
      BY <3>1, RunningFields DEF Sent
    <3>3. TypeOf(e)' = TypeOf(e) /\ DataOf(e)' = DataOf(e)
      BY <1>5, <3>1, <3>2 DEF TypeOf, DataOf
    <3>4. Len(Queue(i)) > 0
      BY <3>1, HeadOfQueue DEF Core, Running, Sent
    <3>5. Len(Queue(i)') # 1
      BY <1>7, <1>8, <3>4
    <3> QED
      BY <1>6, <1>14, <3>1, <3>3, <3>5 DEF Agrees
  <2> QED
    BY <2>1, <2>2 DEF Agrees
<1> QED
  BY <1>5, <1>10, <1>11, <1>13, <1>14, AgreeStep

\* Steps that leave the queues and the server alone, and local storage except
\* where a write was given up or is to come.
LEMMA IdleAgrees ==
  ASSUME TypeOK, AgreeOn,
         UNCHANGED <<server, writes, confirmed, heap, queueAt, gaveUp, drain>>,
         \A i \in Ids : LostAt(i) \/ Calling(i)' \/ (~Calling(i) /\ local'[i] = local[i])
  PROVE  AgreeOn' /\ Lasting
<1>1. SameQueues
  BY DEF SameQueues, Queue
<1>2. \A j \in Ids : \A n : Held(j, n)' <=> Held(j, n)
  BY <1>1, SameHeld
<1>3. \A j \in Ids : Queue(j)' = Queue(j) /\ Numbers(Queue(j))' = Numbers(Queue(j))
  BY <1>1 DEF SameQueues, Numbers
<1>4. Lasting
  BY <1>3, LostKept
<1>5. Unconfirmed'
  BY <1>2 DEF AgreeOn, Unconfirmed
<1>6. \A i \in Ids : LostAt(i) \/ Untouched(i)
  BY <1>3 DEF Untouched
<1>7. \A i \in Ids : LostAt(i)' \/ Agrees(i)'
  BY <1>4, <1>6, AgreesAside DEF AgreeOn, Lasting
<1> QED
  BY <1>4, <1>5, <1>7 DEF AgreeOn

\* What a poll finds given up is lost.
LEMMA GivenUpLost ==
  ASSUME TypeOK, Core, setting.keepsIds, Unconfirmed, NEW n \in DOMAIN writes, IsGivenUp(n)
  PROVE  LostAt(IdOf(n))
<1>1. PICK i : i = IdOf(n)
  OBVIOUS
<1>2. i \in Ids
  BY <1>1, WriteFields DEF IdOf
<1>3. PICK m : m = gaveUp[i]
  OBVIOUS
<1>4. m # 0 /\ m \in DOMAIN writes
  BY <1>1, <1>2, <1>3, QueueFacts DEF IsGivenUp
<1>5. Held(i, m)
  BY <1>3 DEF Held
<1>6. writes[m].id = i /\ m \notin confirmed
  BY <1>2, <1>4, <1>5, HeldHome DEF Unconfirmed
<1>7. m \notin Numbers(Queue(i))
  <2> SUFFICES ASSUME NEW j \in DOMAIN Queue(i), Queue(i)[j].n = m PROVE FALSE
    BY DEF Numbers
  <2>1. gaveUp[i] < Queue(i)[j].n
    BY <1>2 DEF Core, Sorted, Ordered, InOrder
  <2>2. m \in Nat
    BY <1>2, <1>3, QueueFacts
  <2> QED
    BY <1>3, <2>1, <2>2
<1> QED
  BY <1>1, <1>4, <1>6, <1>7 DEF LostAt

\* A call stores a record only for a write to come.
LEMMA TouchedLocal ==
  ASSUME TypeOK, NEW j \in Ids, NEW x \in Values, Touched(j, x), NEW i \in Ids
  PROVE  Calling(i)' \/ (~Calling(i) /\ local'[i] = local[i])
<1>1. local \in [Ids -> Values] /\ call \in [Callers -> CallSet]
  BY DEF TypeOK, Copies, Values
<1>2. PICK c \in Callers, r \in CallSet :
          /\ call' = [call EXCEPT ![c] = r]
          /\ r.id = j /\ call[c].pc # "queue"
          /\ x # local[j] => r.pc = "queue"
  BY DEF Touched
<1>3. local' = [local EXCEPT ![j] = x]
  BY DEF Touched
<1>4. Calling(i) => Calling(i)'
  BY <1>1, <1>2 DEF Calling
<1>5. local'[i] # local[i] => Calling(i)'
  BY <1>1, <1>2, <1>3 DEF Calling
<1> QED
  BY <1>4, <1>5

LEMMA CopiesKept ==
  ASSUME CoreInv, CopiesInv, [EngineNext]_trackedVars
  PROVE  CopiesInv'
<1>1. EngineTypeOK /\ TypeOK /\ setting' = setting
  BY SameSetting DEF CoreInv, EngineTypeOK
<1> SUFFICES ASSUME setting.keepsIds, setting.syncs = 0
             PROVE  /\ ~sync'.on /\ AgreeOn'
                    /\ \A p \in Polls : poll'[p] # NoPoll => LostAt(IdOf(poll[p].undo))'
  BY <1>1 DEF CopiesInv
<1>2. Core
  BY DEF CoreInv, StableIds
<1>3. /\ ~sync.on /\ AgreeOn
      /\ \A p \in Polls : poll[p] # NoPoll => LostAt(IdOf(poll[p].undo))
  BY DEF CopiesInv
<1>4. \A m \in DOMAIN writes : m \in DOMAIN writes' /\ writes'[m] = writes[m]
  BY <1>1, WritesGrow
<1>5. ASSUME NEW n \in DOMAIN writes, LostAt(IdOf(n)), Lasting, NEW p, poll'[p].undo = n
      PROVE  LostAt(IdOf(poll[p].undo))'
  <2>1. PICK i : i = IdOf(n)
    OBVIOUS
  <2>2. i \in Ids
    BY <1>1, <2>1, WriteFields DEF IdOf
  <2>3. LostAt(i)'
    BY <1>5, <2>1, <2>2 DEF Lasting
  <2>4. IdOf(poll[p].undo)' = i
    BY <1>4, <1>5, <2>1 DEF IdOf
  <2> QED
    BY <2>3, <2>4 DEF LostAt, Queue
<1>6. ASSUME AgreeOn', Lasting, sync' = sync, poll' = poll
      PROVE  /\ ~sync'.on /\ AgreeOn'
             /\ \A p \in Polls : poll'[p] # NoPoll => LostAt(IdOf(poll[p].undo))'
  <2> SUFFICES ASSUME NEW p \in Polls, poll'[p] # NoPoll PROVE LostAt(IdOf(poll[p].undo))'
    BY <1>3, <1>6
  <2>1. PICK n : n = poll[p].undo
    OBVIOUS
  <2>2. n \in DOMAIN writes
    BY <1>1, <1>6, <2>1, PollFields
  <2>3. LostAt(IdOf(n)) /\ poll'[p].undo = n
    BY <1>3, <1>6, <2>1
  <2> QED
    BY <1>5, <1>6, <2>2, <2>3
<1>7. ASSUME NEW d \in Drains, DrainStep(d) \/ Lose(d), UNCHANGED engine
      PROVE  AgreeOn' /\ Lasting /\ sync' = sync /\ poll' = poll
  <2>1. AgreeOn' /\ Lasting
    BY <1>1, <1>2, <1>3, <1>7, AnswerAgrees, RetryAgrees, ConfirmAgrees, GiveUpAgrees DEF DrainStep
  <2>2. sync' = sync
    BY <1>7 DEF DrainStep, DeliverCreate, DeliverChange, DeliverMissing, Lose, StoreDelete, StoreResult,
                Advance, BackOff, Retry, GiveUp
  <2> QED
    BY <1>7, <2>1, <2>2 DEF engine
<1>8. ~(SyncFetch \/ SyncStore)
  <2>1. syncs \in 0..0
    BY <1>1 DEF TypeOK
  <2> QED
    BY <1>3, <2>1 DEF SyncFetch, SyncStore
<1>10. ASSUME NEW j \in Ids, NEW x \in Values, Touched(j, x), UNCHANGED engine
       PROVE  AgreeOn' /\ Lasting /\ sync' = sync /\ poll' = poll
  <2>1. UNCHANGED <<server, writes, confirmed, heap, queueAt, gaveUp, drain, sync, poll>>
    BY <1>10 DEF Touched, network, queues, engine
  <2>2. \A i \in Ids : Calling(i)' \/ (~Calling(i) /\ local'[i] = local[i])
    BY <1>1, <1>10, TouchedLocal
  <2>3. AgreeOn' /\ Lasting
    BY <1>1, <1>3, <2>1, <2>2, IdleAgrees
  <2> QED
    BY <2>1, <2>3
<1>11. ASSUME UNCHANGED trackedVars
       PROVE  AgreeOn' /\ Lasting /\ sync' = sync /\ poll' = poll
  <2>1. UNCHANGED <<server, writes, confirmed, heap, queueAt, gaveUp, drain, local, call, sync, poll>>
    BY <1>11 DEF trackedVars, vars, engine
  <2>2. \A i \in Ids : Calling(i)' \/ (~Calling(i) /\ local'[i] = local[i])
    BY <2>1 DEF Calling
  <2>3. AgreeOn' /\ Lasting
    BY <1>1, <1>3, <2>1, <2>2, IdleAgrees
  <2> QED
    BY <2>1, <2>3
<1>12. ASSUME NEW t \in Kinds, NEW i \in Ids, NEW v \in Records, NEW x \in Values, Wrote(t, i, v, x),
              UNCHANGED engine \/ \E b \in Values : Track(b)
       PROVE  AgreeOn' /\ Lasting /\ sync' = sync /\ poll' = poll
  <2>1. AgreeOn' /\ Lasting
    BY <1>1, <1>2, <1>3, <1>12, WroteAgrees
  <2> QED
    BY <1>12, <2>1 DEF Wrote, engine, Track
<1>13. ASSUME NEW p \in Polls, PollStart(p) \/ Rollback(p)
       PROVE  /\ ~sync'.on /\ AgreeOn'
              /\ \A q \in Polls : poll'[q] # NoPoll => LostAt(IdOf(poll[q].undo))'
  <2>1. UNCHANGED <<server, writes, confirmed, heap, queueAt, gaveUp, drain, sync, call>>
    BY <1>13 DEF PollStart, Rollback, client, network, queues
  <2>2. \A i \in Ids : LostAt(i) \/ local'[i] = local[i]
    <3>1. CASE PollStart(p)
      BY <3>1 DEF PollStart, client
    <3>2. CASE Rollback(p)
      <4>1. PICK j : j = IdOf(poll[p].undo)
        OBVIOUS
      <4>2. LostAt(j) /\ local' = [local EXCEPT ![j] = poll[p].value]
        BY <1>3, <3>2, <4>1 DEF Rollback
      <4>3. local \in [Ids -> {Absent} \cup Records]
        BY <1>1 DEF TypeOK, Copies
      <4> QED
        BY <4>2, <4>3
    <3> QED
      BY <1>13, <3>1, <3>2
  <2>3. AgreeOn' /\ Lasting
    <3>1. \A i \in Ids : Calling(i)' <=> Calling(i)
      BY <2>1 DEF Calling
    <3> QED
      BY <1>1, <1>3, <2>1, <2>2, <3>1, IdleAgrees
  <2>4. ASSUME NEW q \in Polls, poll'[q] # NoPoll PROVE LostAt(IdOf(poll[q].undo))'
    <3>1. PICK ch \in Seq(ChangeSet), todo \in SUBSET DOMAIN changes :
             GoOver(p, todo, ch) /\ todo \in SUBSET Nat
      BY <1>1, <1>13, PollForm
    <3>2. \/ poll' = [poll EXCEPT ![p] = NoPoll]
          \/ \E n \in todo :
                /\ IsGivenUp(n)
                /\ poll' = [poll EXCEPT ![p] = [undo |-> n, todo |-> {m \in todo : m < n},
                                                value |-> RollbackValue(ch, n)]]
      <4>1. PICK done \in SUBSET todo : WentOver(p, todo, ch, done)
        BY <3>1, GoOverForm
      <4> QED
        BY <4>1 DEF WentOver
    <3>3. poll \in [Polls -> PollSet]
      BY <1>1 DEF EngineTypeOK
    <3>4. CASE poll'[q] = poll[q]
      <4>1. PICK n : n = poll[q].undo
        OBVIOUS
      <4>2. n \in DOMAIN writes /\ LostAt(IdOf(n)) /\ poll'[q].undo = n
        BY <1>1, <1>3, <2>4, <3>4, <4>1, PollFields
      <4> QED
        BY <1>5, <2>3, <4>2
    <3>5. CASE poll'[q] # poll[q]
      <4>1. PICK n \in todo : IsGivenUp(n) /\ poll'[q].undo = n
        BY <2>4, <3>2, <3>3, <3>5
      <4>2. n \in DOMAIN writes
        BY <1>1, ChangedWrites
      <4>3. LostAt(IdOf(n))
        BY <1>1, <1>2, <1>3, <4>1, <4>2, GivenUpLost DEF AgreeOn
      <4> QED
        BY <1>5, <2>3, <4>1, <4>2, <4>3
    <3> QED
      BY <3>4, <3>5
  <2> QED
    BY <1>3, <2>1, <2>3, <2>4
<1> QED
  BY <1>1, <1>6, <1>7, <1>8, <1>10, <1>11, <1>12, <1>13, StepForms

\* Once every write is confirmed and nothing is under way, local storage holds
\* what the server holds.
THEOREM CopiesAgree == EngineSpec => []ConfirmedCopies
<1>1. EngineInit /\ CoreInv => CopiesInv
  <2> SUFFICES ASSUME EngineInit, CoreInv PROVE CopiesInv
    OBVIOUS
  <2>1. /\ writes = <<>> /\ local = server /\ sync = NoSync
        /\ \A d \in Drains : drain[d] = Off
        /\ \A p \in Polls : poll[p] = NoPoll
    BY DEF EngineInit, Init
  <2>2. DOMAIN writes = {}
    BY <2>1
  <2>3. AgreeOn
    BY <2>1, <2>2 DEF AgreeOn, Unconfirmed, Agrees, Sent, Off
  <2> QED
    BY <2>1, <2>3 DEF CopiesInv, NoSync
<1>2. CoreInv /\ CopiesInv /\ [EngineNext]_trackedVars => CopiesInv'
  BY CopiesKept
<1>3. CoreInv /\ CopiesInv => ConfirmedCopies
  <2> SUFFICES ASSUME CoreInv, CopiesInv, setting.keepsIds, setting.syncs = 0, Quiet,
                      confirmed = DOMAIN writes
               PROVE  local = server
    BY DEF ConfirmedCopies
  <2>1. \A i \in Ids : Agrees(i)
    BY DEF CopiesInv, AgreeOn, LostAt
  <2>2. \A i \in Ids : local[i] = server[i]
    BY <2>1 DEF Agrees, Quiet, Calling, NoCall
  <2>3. local \in [Ids -> {Absent} \cup Records] /\ server \in [Ids -> {Absent} \cup Records]
    BY DEF CoreInv, EngineTypeOK, TypeOK, Copies
  <2> QED
    BY <2>2, <2>3
<1> QED
  BY <1>1, <1>2, <1>3, CoreInvariant, PTL DEF EngineSpec

-----------------------------------------------------------------------------
(* What a rollback restores. *)

\* A poll goes over changes in flight, each with its snapshot.
InFlight(ch, todo) ==
    /\ \A n \in DOMAIN ch : /\ ch[n].kept <=> ch[n].state = "syncing"
                            /\ writes[n].type = "create" => ch[n].before = Absent
    /\ ~overlapped => todo \subseteq Syncing(ch)

LEMMA GoOverPolls ==
  ASSUME NEW p \in Polls, NEW ch \in Seq(ChangeSet), NEW todo \in SUBSET Nat,
         todo \subseteq DOMAIN ch, poll \in [Polls -> PollSet],
         InFlight(ch, todo), GoOver(p, todo, ch), writes' = writes, Creating',
         ~overlapped' => ~overlapped /\ \A q \in Polls : q # p => poll[q] = NoPoll
  PROVE  PollsInv'
<1>1. PICK done \in SUBSET todo :
            /\ changes' = Settled(done, ch)
            /\ \/ poll' = [poll EXCEPT ![p] = NoPoll]
               \/ \E n \in todo \ done :
                     /\ {m \in todo : m < n} \cap done = {}
                     /\ poll' = [poll EXCEPT ![p] = [undo |-> n, todo |-> {m \in todo : m < n},
                                                     value |-> RollbackValue(ch, n)]]
  <2>1. PICK done \in SUBSET todo : WentOver(p, todo, ch, done)
    BY GoOverForm
  <2> QED
    BY <2>1 DEF WentOver
<1>2. /\ DOMAIN changes' = DOMAIN ch
      /\ \A n \in DOMAIN ch :
               /\ n \in done /\ ~InQueue(n) => /\ changes'[n].state = "synced"
                                               /\ changes'[n].kept = FALSE
                                               /\ changes'[n].before = ch[n].before
               /\ ~(n \in done /\ ~InQueue(n)) => changes'[n] = ch[n]
  <2>1. changes' = Settled(done, ch)
    BY <1>1
  <2>2. /\ DOMAIN Settled(done, ch) = DOMAIN ch
        /\ \A n \in DOMAIN ch :
               /\ n \in done /\ ~InQueue(n) => /\ Settled(done, ch)[n].state = "synced"
                                               /\ Settled(done, ch)[n].kept = FALSE
                                               /\ Settled(done, ch)[n].before = ch[n].before
               /\ ~(n \in done /\ ~InQueue(n)) => Settled(done, ch)[n] = ch[n]
    BY SettledTypes
  <2> QED
    BY <2>1, <2>2
<1>3. Snapshots'
  <2> SUFFICES ASSUME NEW n \in DOMAIN ch
               PROVE  /\ changes'[n].kept <=> changes'[n].state = "syncing"
                      /\ writes[n].type = "create" => changes'[n].before = Absent
    BY <1>2 DEF Snapshots
  <2>1. CASE n \in done /\ ~InQueue(n)
    BY <1>2, <2>1 DEF InFlight
  <2>2. CASE ~(n \in done /\ ~InQueue(n))
    BY <1>2, <2>2 DEF InFlight
  <2> QED
    BY <2>1, <2>2
<1>4. ASSUME ~overlapped'
      PROVE  /\ \A q, r \in Polls : poll'[q] # NoPoll /\ poll'[r] # NoPoll => q = r
             /\ \A q \in Polls : poll'[q] # NoPoll => Undoing(q)'
  <2>1. ~overlapped /\ \A q \in Polls : q # p => poll'[q] = NoPoll
    BY <1>1, <1>4
  <2>2. ASSUME poll'[p] # NoPoll PROVE Undoing(p)'
    <3>1. PICK n \in todo \ done :
             /\ {m \in todo : m < n} \cap done = {}
             /\ poll'[p] = [undo |-> n, todo |-> {m \in todo : m < n}, value |-> RollbackValue(ch, n)]
      BY <1>1, <2>2
    <3>2. poll'[p].undo = n /\ poll'[p].todo = {m \in todo : m < n} /\ poll'[p].value = RollbackValue(ch, n)
      BY <3>1
    <3>3. todo \subseteq Syncing(ch)
      BY <2>1 DEF InFlight
    <3>4. \A m \in todo : m \in DOMAIN ch /\ ch[m].state = "syncing"
      BY <3>3 DEF Syncing
    <3>5. \A m \in todo \ done : m \in DOMAIN changes' /\ changes'[m] = ch[m] /\ changes'[m].state = "syncing"
      BY <1>2, <3>4
    <3>6. \A m \in todo \ done : m \in Syncing(changes')
      BY <3>5 DEF Syncing
    <3>7. n \in Syncing(changes') /\ {m \in todo : m < n} \subseteq Syncing(changes')
      BY <3>1, <3>6
    <3>8. n \notin {m \in todo : m < n}
      OBVIOUS
    <3>9. RollbackValue(ch, n) = ch[n].before
      BY <3>4 DEF RollbackValue, InFlight
    <3>10. RollbackValue(ch, n) = changes'[n].before
      BY <3>5, <3>9
    <3>11. Syncing(changes)' = Syncing(changes')
      BY DEF Syncing
    <3>12. (poll[p].undo \in Syncing(changes))' /\ (poll[p].todo \subseteq Syncing(changes))'
      BY <3>2, <3>7, <3>11
    <3>13. (poll[p].undo \notin poll[p].todo)' /\ (poll[p].value = changes[poll[p].undo].before)'
      BY <3>2, <3>8, <3>10
    <3> QED
      BY <3>12, <3>13 DEF Undoing
  <2> QED
    BY <2>1, <2>2
<1> QED
  BY <1>3, <1>4 DEF PollsInv

LEMMA PollsKept ==
  ASSUME EngineTypeOK, PollsInv, [EngineNext]_trackedVars
  PROVE  PollsInv'
<1>1. TypeOK /\ poll \in [Polls -> PollSet] /\ changes \in Seq(ChangeSet)
  BY DEF EngineTypeOK
<1>2. \A m \in DOMAIN writes : m \in DOMAIN writes' /\ writes'[m] = writes[m]
  BY WritesGrow
<1>3. DOMAIN changes \subseteq DOMAIN writes
  BY ChangedWrites
<1>8. Creating'
  <2>1. Creating
    BY DEF PollsInv
  <2>2. ASSUME NEW i \in Ids, NEW x \in Values, Touched(i, x) PROVE Creating'
    <3>1. PICK c \in Callers, r \in CallSet :
             /\ call' = [call EXCEPT ![c] = r]
             /\ r.type = "create" =>
                   r.before = Absent \/ (r.type = call[c].type /\ r.before = call[c].before)
      BY <2>2 DEF Touched
    <3> QED
      BY <1>1, <2>1, <3>1 DEF Creating, TypeOK
  <2>3. ASSUME NEW t \in Kinds, NEW i \in Ids, NEW v \in Records, NEW b \in Values, Wrote(t, i, v, b)
        PROVE  Creating'
    BY <1>1, <2>1, <2>3 DEF Wrote, Creating, TypeOK, NoCall
  <2>4. call' = call => Creating'
    BY <2>1 DEF Creating
  <2>5. \A d \in Drains : DrainStep(d) \/ Lose(d) => call' = call
    BY DEF DrainStep, DeliverCreate, DeliverChange, DeliverMissing, Lose, StoreDelete, StoreResult,
           Advance, BackOff, Retry, GiveUp
  <2>6. \A p \in Polls : PollStart(p) \/ Rollback(p) => call' = call
    BY DEF PollStart, Rollback, client
  <2>7. SyncFetch \/ SyncStore \/ UNCHANGED trackedVars => call' = call
    BY DEF SyncFetch, SyncStore, trackedVars, vars
  <2> QED
    BY <2>2, <2>3, <2>4, <2>5, <2>6, <2>7, StepForms
<1>4. CASE UNCHANGED engine
  <2>1. Snapshots'
    BY <1>2, <1>3, <1>4 DEF PollsInv, Snapshots, engine
  <2>2. \A p \in Polls : Undoing(p)' <=> Undoing(p)
    BY <1>4 DEF engine, Undoing, Syncing
  <2> QED
    BY <1>4, <1>8, <2>1, <2>2 DEF PollsInv, engine
<1>5. ASSUME NEW t \in Kinds, NEW i \in Ids, NEW v \in Records, NEW b \in Values,
             Wrote(t, i, v, b), setting \in Tracked, Track(b)
      PROVE  PollsInv'
  <2>1. PICK n : n = Len(writes) + 1
    OBVIOUS
  <2>2. /\ n \notin DOMAIN changes /\ DOMAIN changes' = DOMAIN changes \cup {n}
        /\ \A m \in DOMAIN changes : changes'[m] = changes[m]
        /\ changes'[n].state = "syncing" /\ changes'[n].before = b /\ changes'[n].kept = TRUE
        /\ poll' = poll /\ overlapped' = overlapped
    BY <1>5, <2>1, TrackForm
  <2>3. writes'[n].type = t
    BY <1>1, <1>5, <2>1, MadeTypes DEF Wrote, Kinds
  <2>6. t = "create" => b = Absent
    BY <1>5 DEF Wrote, PollsInv, Creating
  <2>4. Snapshots'
    BY <1>2, <1>3, <2>2, <2>3, <2>6 DEF PollsInv, Snapshots
  <2>5. ASSUME NEW p \in Polls, Undoing(p) PROVE Undoing(p)'
    <3>1. Syncing(changes) \subseteq Syncing(changes)'
      BY <2>2 DEF Syncing
    <3>2. poll[p].undo \in DOMAIN changes
      BY <2>5 DEF Undoing, Syncing
    <3> QED
      BY <2>2, <2>5, <3>1, <3>2 DEF Undoing
  <2> QED
    BY <1>8, <2>2, <2>4, <2>5 DEF PollsInv
<1>6. ASSUME NEW p \in Polls, PollStart(p)
      PROVE  PollsInv'
  <2>1. GoOver(p, Syncing(changes), changes) /\ writes' = writes
        /\ (~overlapped' => ~overlapped /\ \A q \in Polls : poll[q] = NoPoll)
    BY <1>6 DEF PollStart, client
  <2>2. Syncing(changes) \subseteq DOMAIN changes /\ Syncing(changes) \in SUBSET Nat
    BY <1>1, LenProperties DEF Syncing
  <2>3. InFlight(changes, Syncing(changes))
    BY DEF PollsInv, Snapshots, InFlight
  <2> QED
    BY <1>1, <1>8, <2>1, <2>2, <2>3, GoOverPolls
<1>7. ASSUME NEW p \in Polls, Rollback(p)
      PROVE  PollsInv'
  <2>1. PICK n : n = poll[p].undo
    OBVIOUS
  <2>2. PICK ch : ch = FailedAt(n)
    OBVIOUS
  <2>3. poll[p] # NoPoll /\ GoOver(p, poll[p].todo, ch) /\ writes' = writes /\ overlapped' = overlapped
    BY <1>7, <2>1, <2>2 DEF Rollback, FailedAt
  <2>4. n \in DOMAIN changes /\ poll[p].todo \subseteq DOMAIN changes
    BY <2>1, <2>3, PollFields
  <2>5. /\ ch \in Seq(ChangeSet) /\ DOMAIN ch = DOMAIN changes
        /\ ch[n].state = "failed" /\ ch[n].kept = FALSE /\ ch[n].before = changes[n].before
        /\ \A m \in DOMAIN changes : m # n => ch[m] = changes[m]
    BY <1>1, <2>2, <2>4, FailedTypes
  <2>6. poll[p].todo \in SUBSET Nat
    BY <1>1, <2>4, LenProperties
  <2>7. InFlight(ch, poll[p].todo)
    <3>1. \A m \in DOMAIN ch : /\ ch[m].kept <=> ch[m].state = "syncing"
                               /\ writes[m].type = "create" => ch[m].before = Absent
      BY <2>5 DEF PollsInv, Snapshots
    <3>2. ~overlapped => poll[p].todo \subseteq Syncing(ch)
      BY <2>1, <2>3, <2>5 DEF PollsInv, Undoing, Syncing
    <3> QED
      BY <3>1, <3>2 DEF InFlight
  <2>8. ~overlapped' => ~overlapped /\ \A q \in Polls : q # p => poll[q] = NoPoll
    BY <2>3 DEF PollsInv
  <2> QED
    BY <1>1, <1>8, <2>3, <2>4, <2>5, <2>6, <2>7, <2>8, GoOverPolls
<1> QED
  BY <1>4, <1>5, <1>6, <1>7, StepForms DEF trackedVars

\* A drain leaves alone the records that have nothing queued.
LEMMA DrainLeaves ==
  ASSUME TypeOK, Core, NEW d \in Drains, DrainStep(d) \/ Lose(d),
         NEW i \in KnownIds, Queue(i) = <<>>
  PROVE  Queue(i)' = <<>> /\ local'[i] = local[i]
<1>1. PICK k : k = drain[d].key
  OBVIOUS
<1>2. Filed /\ Sorted /\ Running(d)
  BY DEF Core, DrainStep, DeliverCreate, DeliverChange, DeliverMissing, Lose, StoreDelete, StoreResult,
         Advance, BackOff, Retry, GiveUp, Running
<1>3. k \in Ids /\ At(d) = k /\ Queue(k) # <<>>
  BY <1>1, <1>2, HeadFacts
<1>4. i # k /\ i \in Ids
  BY <1>3, ExistingAssumption DEF KnownIds, Ids
<1>5. Sent(d) => drain[d].to # i
  BY <1>1, <1>4, TargetFree DEF Moving
<1>6. local \in [Ids -> {Absent} \cup Records]
  BY DEF TypeOK, Copies
<1>7. CASE \/ DeliverCreate(d) \/ DeliverChange(d) \/ DeliverMissing(d) \/ Lose(d)
           \/ StoreDelete(d) \/ StoreResult(d) \/ BackOff(d)
  <2>1. Queue(i)' = Queue(i)
    BY <1>2, <1>4, <1>7, AnswerEffect DEF SameQueues
  <2>2. \/ local' = local \/ local' = [local EXCEPT ![k] = Absent]
        \/ Sent(d) /\ local' = [local EXCEPT ![drain[d].to] = DataOf(d)]
    BY <1>3, <1>7
       DEF DeliverCreate, DeliverChange, DeliverMissing, Lose, StoreDelete, StoreResult, BackOff, LocalBeforeSend,
           Sent
  <2>3. local'[i] = local[i]
    BY <1>4, <1>5, <1>6, <2>2
  <2> QED
    BY <2>1, <2>3
<1>8. CASE Retry(d)
  BY <1>2, <1>4, <1>8, RetryEffect DEF SameQueues, Retry
<1>9. CASE GiveUp(d) \/ (Advance(d) /\ drain[d].to = At(d))
  <2>1. PICK h : h = Shift(heap, drain[d].array)
    OBVIOUS
  <2>2. PICK at : at = IF h[drain[d].array] = <<>> THEN [queueAt EXCEPT ![k] = 0] ELSE queueAt
    OBVIOUS
  <2>3. LoopTop(d, k, h, at, draining)
    BY <1>1, <1>9, <2>1, <2>2 DEF GiveUp, Advance
  <2>4. Popped(k)
    BY <1>1, <1>2, <2>1, <2>2, <2>3, PopEffect
  <2> QED
    BY <1>4, <1>9, <2>4 DEF Popped, GiveUp, Advance
<1>10. CASE Advance(d) /\ drain[d].to # At(d)
  <2>1. PICK to : to = drain[d].to
    OBVIOUS
  <2>2. Sent(d) /\ Moving(d)
    BY <1>1, <1>3, <1>10 DEF Advance, Sent, Moving
  <2>3. to \in Ids /\ Queue(to) = <<>> /\ to # k /\ to # At(d)
    BY <1>3, <1>10, <2>1, <2>2, TargetFree
  <2>4. Moved(k, to)
    BY <1>1, <1>2, <1>10, <2>1, <2>3, MoveEffect
  <2> QED
    BY <1>4, <1>5, <1>10, <2>1, <2>2, <2>4 DEF Moved, Advance
<1> QED
  BY <1>7, <1>8, <1>9, <1>10 DEF DrainStep

\* Nothing is queued for the only write to a record once it is given up.
LEMMA SoleGivenUp ==
  ASSUME TypeOK, Core, NEW n \in DOMAIN writes, Sole(n), IsGivenUp(n)
  PROVE  Queue(IdOf(n)) = <<>>
<1>1. PICK i : i = IdOf(n)
  OBVIOUS
<1>2. Origins /\ Sorted
  BY DEF Core
<1>3. i \in KnownIds /\ i \in Ids
  BY <1>1, <1>2, WriteFields DEF Origins, IdOf
<1>4. ASSUME NEW j \in DOMAIN Queue(i) PROVE FALSE
  <2>1. PICK m : m = Queue(i)[j].n
    OBVIOUS
  <2>2. m \in Numbers(Queue(i)) /\ m \in DOMAIN writes
    BY <1>3, <2>1, QueueFacts DEF Numbers
  <2>3. writes[m].id = i
    BY <1>2, <1>3, <2>2 DEF Origins, Held
  <2>4. m = n
    BY <1>1, <2>2, <2>3 DEF Sole, IdOf
  <2>5. Queue(i)[j].id = i
    BY <1>2, <1>3 DEF Sorted, Ordered, InOrder
  <2> QED
    BY <1>1, <2>1, <2>4, <2>5 DEF IsGivenUp, InQueue
<1>5. Queue(i) \in Seq(ItemSet) /\ DOMAIN Queue(i) = 1..Len(Queue(i)) /\ Len(Queue(i)) \in Nat
  BY <1>3, QueueTypes
<1>6. Len(Queue(i)) = 0
  <2>1. PICK l : l = Len(Queue(i))
    OBVIOUS
  <2>2. 1 \notin 1..l /\ l \in Nat
    BY <1>4, <1>5, <2>1
  <2>3. l = 0
    BY <2>2
  <2> QED
    BY <2>1, <2>3
<1> QED
  BY <1>1, <1>5, <1>6, EmptySeq

\* A call that stored its record goes on to queue the write.
LEMMA CallQueues ==
  ASSUME EngineTypeOK, [EngineNext]_trackedVars, NEW c \in Callers, call[c].pc = "queue"
  PROVE  \/ call'[c] = call[c]
         \/ \E m \in DOMAIN writes' : m \notin DOMAIN writes /\ writes'[m].id = call[c].id
<1>1. TypeOK
  BY DEF EngineTypeOK
<1>2. ASSUME NEW i \in Ids, NEW x \in Values, Touched(i, x) PROVE call'[c] = call[c]
  BY <1>1, <1>2 DEF Touched, TypeOK
<1>3. ASSUME NEW t \in Kinds, NEW i \in Ids, NEW v \in Records, NEW b \in Values, Wrote(t, i, v, b)
      PROVE  \/ call'[c] = call[c]
             \/ \E m \in DOMAIN writes' : m \notin DOMAIN writes /\ writes'[m].id = call[c].id
  <2>1. call'[c] = call[c] \/ call[c].id = i
    BY <1>1, <1>3 DEF Wrote, TypeOK
  <2>2. PICK m : m = Len(writes) + 1
    OBVIOUS
  <2>3. /\ DOMAIN writes = 1..Len(writes) /\ Len(writes) \in Nat
        /\ DOMAIN writes' = 1..(Len(writes) + 1) /\ writes'[Len(writes) + 1].id = i
    BY <1>1, <1>3, MadeTypes DEF Wrote, Kinds
  <2>4. m \in DOMAIN writes' /\ m \notin DOMAIN writes /\ writes'[m].id = i
    BY <2>2, <2>3
  <2> QED
    BY <2>1, <2>4
<1>4. \A d \in Drains : DrainStep(d) \/ Lose(d) => call' = call
  BY DEF DrainStep, DeliverCreate, DeliverChange, DeliverMissing, Lose, StoreDelete, StoreResult,
         Advance, BackOff, Retry, GiveUp
<1>5. \A p \in Polls : PollStart(p) \/ Rollback(p) => call' = call
  BY DEF PollStart, Rollback, client
<1>6. SyncFetch \/ SyncStore \/ UNCHANGED trackedVars => call' = call
  BY DEF SyncFetch, SyncStore, trackedVars, vars
<1> QED
  BY <1>2, <1>3, <1>4, <1>5, <1>6, StepForms

\* The write of a change is the only one to its record less and less.
LEMMA SoleBefore ==
  ASSUME EngineTypeOK, [EngineNext]_trackedVars, NEW n \in DOMAIN writes, Sole(n)'
  PROVE  Sole(n)
<1>1. \A m \in DOMAIN writes : m \in DOMAIN writes' /\ writes'[m] = writes[m]
  BY WritesGrow
<1>2. \A m \in DOMAIN writes : IdOf(m) = IdOf(n) => m = n
  BY <1>1 DEF Sole, IdOf
<1>3. ASSUME NEW c \in Callers, call[c].pc = "queue", call[c].id = IdOf(n) PROVE FALSE
  BY <1>1, <1>3, CallQueues DEF Sole, IdOf
<1> QED
  BY <1>2, <1>3 DEF Sole

\* Steps that leave alone the changes, the polls and every record whose only
\* write is given up.
LEMMA RestoredAside ==
  ASSUME CoreInv, RestoredInv, [EngineNext]_trackedVars,
         StableIds, setting.syncs = 0, ~overlapped, sync' = sync,
         UNCHANGED <<poll, overlapped>>,
         \A n \in DOMAIN changes : changes'[n] = changes[n],
         \A n \in DOMAIN changes' : n \in DOMAIN changes \/ changes'[n].state = "syncing",
         \A n \in DOMAIN writes : \A i \in KnownIds :
             IdOf(n) = i /\ Sole(n)' /\ Queue(i) = <<>> => Queue(i)' = <<>> /\ local'[i] = local[i]
  PROVE  RestoredInv'
<1>1. EngineTypeOK /\ TypeOK /\ Origins
  BY DEF CoreInv, EngineTypeOK, Core
<1>2. DOMAIN changes \subseteq DOMAIN writes
  BY <1>1, ChangedWrites
<1>3. \A m \in DOMAIN writes : writes'[m] = writes[m]
  BY <1>1, WritesGrow
<1>4. /\ ~sync.on
      /\ \A p \in Polls : poll[p] # NoPoll /\ Sole(poll[p].undo) => Queue(IdOf(poll[p].undo)) = <<>>
      /\ \A n \in DOMAIN changes : changes[n].state = "failed" /\ Sole(n) =>
            Queue(IdOf(n)) = <<>> /\ local[IdOf(n)] = changes[n].before
  BY DEF RestoredInv
<1>5. ASSUME NEW p \in Polls, poll'[p] # NoPoll, Sole(poll[p].undo)'
      PROVE  Queue(IdOf(poll[p].undo))' = <<>>
  <2>1. PICK n : n = poll[p].undo
    OBVIOUS
  <2>2. n \in DOMAIN writes /\ poll[p] # NoPoll /\ poll'[p].undo = n
    BY <1>1, <1>5, <2>1, PollFields
  <2>3. Sole(n)'
    BY <1>5, <2>2 DEF Sole
  <2>4. Sole(n)
    BY <1>1, <2>2, <2>3, SoleBefore
  <2>5. PICK i : i = IdOf(n)
    OBVIOUS
  <2>6. Queue(i) = <<>> /\ i \in KnownIds
    BY <1>1, <1>4, <2>1, <2>2, <2>4, <2>5 DEF Origins, IdOf
  <2>7. Queue(i)' = <<>>
    BY <2>2, <2>3, <2>5, <2>6
  <2>8. IdOf(poll[p].undo)' = i
    BY <1>3, <2>2, <2>5 DEF IdOf
  <2> QED
    BY <2>7, <2>8 DEF Queue
<1>6. ASSUME NEW n \in DOMAIN changes', changes'[n].state = "failed", Sole(n)'
      PROVE  Queue(IdOf(n))' = <<>> /\ (local[IdOf(n)] = changes[n].before)'
  <2>1. n \in DOMAIN changes /\ changes'[n] = changes[n] /\ n \in DOMAIN writes
    BY <1>2, <1>6
  <2>2. Sole(n)
    BY <1>1, <1>6, <2>1, SoleBefore
  <2>3. PICK i : i = IdOf(n)
    OBVIOUS
  <2>4. Queue(i) = <<>> /\ local[i] = changes[n].before /\ i \in KnownIds
    BY <1>1, <1>4, <1>6, <2>1, <2>2, <2>3 DEF Origins, IdOf
  <2>5. Queue(i)' = <<>> /\ local'[i] = local[i]
    BY <1>6, <2>1, <2>3, <2>4
  <2>6. IdOf(n)' = i
    BY <1>3, <2>1, <2>3 DEF IdOf
  <2> QED
    BY <2>1, <2>4, <2>5, <2>6 DEF Queue
<1> QED
  BY <1>4, <1>5, <1>6 DEF RestoredInv

\* A poll: records changed once get their snapshot back.
LEMMA RestoredByPoll ==
  ASSUME CoreInv, PollsInv, RestoredInv, StableIds, setting.syncs = 0, ~overlapped, ~overlapped',
         [EngineNext]_trackedVars, NEW p \in Polls, PollStart(p) \/ Rollback(p)
  PROVE  RestoredInv'
<1>1. EngineTypeOK /\ TypeOK /\ Core /\ Origins
  BY DEF CoreInv, EngineTypeOK, Core
<1>2. UNCHANGED <<setting, writes, heap, queueAt, gaveUp, sync, call>>
  BY DEF PollStart, Rollback, client, network, queues
<1>3. DOMAIN changes \subseteq DOMAIN writes
  BY <1>1, ChangedWrites
<1>4. /\ ~sync.on
      /\ \A q \in Polls : poll[q] # NoPoll /\ Sole(poll[q].undo) => Queue(IdOf(poll[q].undo)) = <<>>
      /\ \A n \in DOMAIN changes : changes[n].state = "failed" /\ Sole(n) =>
            Queue(IdOf(n)) = <<>> /\ local[IdOf(n)] = changes[n].before
  BY DEF RestoredInv
<1>5. PICK ch \in Seq(ChangeSet), todo \in SUBSET DOMAIN changes :
            /\ GoOver(p, todo, ch) /\ DOMAIN ch = DOMAIN changes /\ todo \in SUBSET Nat
            /\ \/ PollStart(p) /\ ch = changes /\ todo = Syncing(changes)
               \/ Rollback(p) /\ ch = FailedAt(poll[p].undo) /\ todo = poll[p].todo
  BY <1>1, PollForm
<1>6. PICK done \in SUBSET todo : WentOver(p, todo, ch, done)
  BY <1>5, GoOverForm
<1>7. ASSUME NEW q \in Polls, poll'[q] # NoPoll, Sole(poll[q].undo)'
      PROVE  Queue(IdOf(poll[q].undo))' = <<>>
  <2>1. PICK n : n = poll'[q].undo
    OBVIOUS
  <2>2. Sole(n)
    BY <1>2, <1>7, <2>1 DEF Sole, IdOf
  <2>3. Queue(IdOf(n)) = <<>>
    <3>1. CASE poll'[q] = poll[q]
      BY <1>4, <1>7, <2>1, <2>2, <3>1
    <3>2. CASE poll'[q] # poll[q]
      <4>1. poll \in [Polls -> PollSet]
        BY <1>1 DEF EngineTypeOK
      <4>2. PICK m \in todo : IsGivenUp(m) /\ poll'[q].undo = m
        BY <1>6, <1>7, <3>2, <4>1 DEF WentOver
      <4>3. n = m /\ n \in DOMAIN writes
        BY <1>3, <2>1, <4>2
      <4> QED
        BY <1>1, <2>2, <4>2, <4>3, SoleGivenUp
    <3> QED
      BY <3>1, <3>2
  <2>4. IdOf(poll[q].undo)' = IdOf(n)
    BY <1>2, <2>1 DEF IdOf
  <2> QED
    BY <1>2, <2>3, <2>4 DEF Queue
<1>8. ASSUME NEW n \in DOMAIN changes', changes'[n].state = "failed", Sole(n)'
      PROVE  Queue(IdOf(n))' = <<>> /\ (local[IdOf(n)] = changes[n].before)'
  <2>1. Sole(n)
    BY <1>2, <1>8 DEF Sole, IdOf
  <2>2. n \in DOMAIN ch /\ n \in DOMAIN changes /\ changes'[n] = ch[n]
    <3>1. DOMAIN Settled(done, ch) = DOMAIN ch
      BY SettledTypes
    <3>2. n \in DOMAIN ch
      BY <1>6, <1>8, <3>1 DEF WentOver
    <3>3. n \in done /\ ~InQueue(n) => Settled(done, ch)[n].state = "synced"
      BY <3>2, SettledTypes
    <3>4. ~(n \in done /\ ~InQueue(n)) => Settled(done, ch)[n] = ch[n]
      BY <3>2, SettledTypes
    <3> QED
      BY <1>5, <1>6, <1>8, <3>2, <3>3, <3>4 DEF WentOver
  <2>3. Queue(IdOf(n)) = <<>> /\ local'[IdOf(n)] = changes'[n].before
    <3>1. CASE PollStart(p) /\ ch = changes
      <4>1. local' = local
        BY <3>1 DEF PollStart, client
      <4> QED
        BY <1>4, <1>8, <2>1, <2>2, <3>1, <4>1
    <3>2. CASE Rollback(p) /\ ch = FailedAt(poll[p].undo)
      <4>1. PICK u : u = poll[p].undo
        OBVIOUS
      <4>2. poll[p] # NoPoll /\ local' = [local EXCEPT ![IdOf(u)] = poll[p].value]
        BY <3>2, <4>1 DEF Rollback
      <4>3. u \in DOMAIN changes /\ u \in DOMAIN writes /\ IdOf(u) \in Ids
        BY <1>1, <4>1, <4>2, PollFields
      <4>4. changes \in Seq(ChangeSet) /\ local \in [Ids -> {Absent} \cup Records]
        BY <1>1 DEF EngineTypeOK, TypeOK, Copies
      <4>5. /\ ch[u].before = changes[u].before
            /\ \A m \in DOMAIN changes : m # u => ch[m] = changes[m]
        BY <3>2, <4>1, <4>3, <4>4, FailedTypes
      <4>6. CASE n = u
        <5>1. poll[p].value = changes[u].before
          BY <4>1, <4>2 DEF PollsInv, Undoing
        <5>2. local'[IdOf(n)] = poll[p].value
          BY <4>2, <4>3, <4>4, <4>6
        <5>3. Queue(IdOf(n)) = <<>>
          BY <1>4, <2>1, <4>1, <4>2, <4>6
        <5> QED
          BY <2>2, <4>5, <4>6, <5>1, <5>2, <5>3
      <4>7. CASE n # u
        <5>1. changes'[n] = changes[n] /\ n \in DOMAIN writes
          BY <1>3, <2>2, <4>5, <4>7
        <5>2. IdOf(n) # IdOf(u)
          BY <2>1, <4>3, <4>7 DEF Sole
        <5>3. IdOf(n) \in Ids
          BY <1>1, <5>1, WriteFields DEF IdOf
        <5>4. local'[IdOf(n)] = local[IdOf(n)]
          BY <4>2, <4>3, <4>4, <5>2, <5>3
        <5> QED
          BY <1>4, <1>8, <2>1, <2>2, <5>1, <5>4
      <4> QED
        BY <4>6, <4>7
    <3> QED
      BY <1>5, <3>1, <3>2
  <2> QED
    BY <1>2, <2>3 DEF Queue, IdOf
<1> QED
  BY <1>2, <1>4, <1>7, <1>8 DEF RestoredInv

LEMMA RestoredKept ==
  ASSUME CoreInv, PollsInv, RestoredInv, [EngineNext]_trackedVars
  PROVE  RestoredInv'
<1>1. EngineTypeOK /\ TypeOK /\ setting' = setting
  BY SameSetting DEF CoreInv, EngineTypeOK
<1>2. ~overlapped' => ~overlapped
  <2>1. ASSUME NEW p \in Polls, PollStart(p) \/ Rollback(p) PROVE ~overlapped' => ~overlapped
    BY <2>1 DEF PollStart, Rollback
  <2> QED
    BY <1>1, <2>1, StepForms DEF engine, Track, trackedVars
<1> SUFFICES ASSUME StableIds, setting.syncs = 0, ~overlapped, ~overlapped' PROVE RestoredInv'
  BY <1>1, <1>2 DEF RestoredInv, StableIds
<1>3. Core
  BY DEF CoreInv
<1>4. ~sync.on
  BY DEF RestoredInv
<1>5. ASSUME UNCHANGED engine, sync' = sync,
             \A i \in KnownIds : Queue(i) = <<>> => Queue(i)' = <<>> /\ local'[i] = local[i]
      PROVE  RestoredInv'
  BY <1>5, RestoredAside DEF engine
<1>6. ASSUME NEW d \in Drains, DrainStep(d) \/ Lose(d), UNCHANGED engine
      PROVE  RestoredInv'
  <2>1. sync' = sync
    BY <1>6 DEF DrainStep, DeliverCreate, DeliverChange, DeliverMissing, Lose, StoreDelete, StoreResult,
                Advance, BackOff, Retry, GiveUp
  <2>2. \A i \in KnownIds : Queue(i) = <<>> => Queue(i)' = <<>> /\ local'[i] = local[i]
    BY <1>1, <1>3, <1>6, DrainLeaves
  <2> QED
    BY <1>5, <1>6, <2>1, <2>2
<1>7. ~(SyncFetch \/ SyncStore)
  <2>1. syncs \in 0..0
    BY <1>1 DEF TypeOK
  <2> QED
    BY <1>4, <2>1 DEF SyncFetch, SyncStore
<1>8. ASSUME NEW j \in Ids, NEW x \in Values, Touched(j, x), UNCHANGED engine
      PROVE  RestoredInv'
  <2>1. UNCHANGED <<sync, heap, queueAt, writes>>
    BY <1>8 DEF Touched, queues
  <2>2. ASSUME NEW n \in DOMAIN writes, NEW i \in KnownIds, IdOf(n) = i, Sole(n)', Queue(i) = <<>>
        PROVE  Queue(i)' = <<>> /\ local'[i] = local[i]
    <3>1. i \in Ids
      BY ExistingAssumption DEF KnownIds, Ids
    <3>2. ~Calling(i)'
      BY <2>1, <2>2 DEF Sole, Calling, IdOf
    <3> QED
      BY <1>1, <1>8, <2>1, <2>2, <3>1, <3>2, TouchedLocal DEF Queue
  <2> QED
    BY <1>8, <2>1, <2>2, RestoredAside DEF engine
<1>9. ASSUME UNCHANGED trackedVars
      PROVE  RestoredInv'
  BY <1>5, <1>9 DEF trackedVars, vars, Queue
<1>10. ASSUME NEW t \in Kinds, NEW j \in Ids, NEW v \in Records, NEW x \in Values, Wrote(t, j, v, x)
       PROVE  /\ sync' = sync
              /\ \A n \in DOMAIN writes : \A i \in KnownIds :
                    IdOf(n) = i /\ Sole(n)' /\ Queue(i) = <<>> => Queue(i)' = <<>> /\ local'[i] = local[i]
  <2>1. PICK m : m = Len(writes) + 1
    OBVIOUS
  <2>2. Joined(m, j) /\ Grown(m, t, j, v)
    BY <1>1, <1>3, <1>10, <2>1, WroteEffect DEF Core
  <2>3. sync' = sync /\ local' = local
    BY <1>10 DEF Wrote
  <2>4. ASSUME NEW n \in DOMAIN writes, NEW i \in KnownIds, IdOf(n) = i, Sole(n)', Queue(i) = <<>>
        PROVE  Queue(i)' = <<>> /\ local'[i] = local[i]
    <3>1. i \in Ids
      BY ExistingAssumption DEF KnownIds, Ids
    <3>2. i # j
      <4>1. writes'[n].id = i /\ writes'[m].id = j /\ n # m /\ m \in DOMAIN writes'
        BY <2>2, <2>4 DEF Grown, IdOf
      <4> QED
        BY <2>4, <4>1 DEF Sole, IdOf
    <3>3. Queue(i)' = Queue(i)
      BY <2>2, <3>1, <3>2 DEF Joined
    <3> QED
      BY <2>3, <2>4, <3>3
  <2> QED
    BY <2>3, <2>4
<1>11. ASSUME NEW t \in Kinds, NEW j \in Ids, NEW v \in Records, NEW x \in Values, Wrote(t, j, v, x),
              UNCHANGED engine
       PROVE  RestoredInv'
  BY <1>10, <1>11, RestoredAside DEF engine
<1>12. ASSUME NEW t \in Kinds, NEW j \in Ids, NEW v \in Records, NEW b \in Values,
              Wrote(t, j, v, b), setting \in Tracked, Track(b)
       PROVE  RestoredInv'
  <2>1. PICK m : m = Len(writes) + 1
    OBVIOUS
  <2>2. /\ DOMAIN changes' = DOMAIN changes \cup {m}
        /\ \A n \in DOMAIN changes : changes'[n] = changes[n]
        /\ changes'[m].state = "syncing" /\ UNCHANGED <<poll, overlapped>>
    BY <1>1, <1>12, <2>1, TrackForm
  <2> QED
    BY <1>10, <1>12, <2>2, RestoredAside
<1>13. ASSUME NEW p \in Polls, PollStart(p) \/ Rollback(p) PROVE RestoredInv'
  BY <1>13, RestoredByPoll
<1> QED
  BY <1>1, <1>6, <1>7, <1>8, <1>9, <1>11, <1>12, <1>13, StepForms

\* "on failure a change is rolled back to its pre-sync value": a failed change
\* that was the only one to its record has left it as it was.
THEOREM FailedRestored == EngineSpec => []FailedIsRolledBack
<1>1. EngineInit => PollsInv /\ RestoredInv
  <2> SUFFICES ASSUME EngineInit PROVE PollsInv /\ RestoredInv
    OBVIOUS
  <2>1. changes = <<>> /\ sync = NoSync /\ \A p \in Polls : poll[p] = NoPoll
    BY DEF EngineInit, Init
  <2>2. DOMAIN changes = {}
    BY <2>1
  <2>3. Creating
    BY DEF EngineInit, Init, Creating, NoCall
  <2> QED
    BY <2>1, <2>2, <2>3 DEF PollsInv, Snapshots, RestoredInv, NoSync
<1>2. CoreInv /\ PollsInv /\ RestoredInv /\ [EngineNext]_trackedVars => PollsInv' /\ RestoredInv'
  BY PollsKept, RestoredKept DEF CoreInv
<1>3. RestoredInv => FailedIsRolledBack
  BY DEF RestoredInv, FailedIsRolledBack
<1> QED
  BY <1>1, <1>2, <1>3, CoreInvariant, PTL DEF EngineSpec

=============================================================================
