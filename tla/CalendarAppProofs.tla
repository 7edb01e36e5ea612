-------------------------- MODULE CalendarAppProofs --------------------------
(***************************************************************************)
(* What holds of the Calendar plugin for any number of events, rows and    *)
(* outside events, any clock and any versions: proofs for CalendarApp.      *)
(***************************************************************************)
EXTENDS CalendarApp, FiniteSetTheorems, TLAPS

-----------------------------------------------------------------------------
(* The inductive invariant.                                                 *)

(* Google had value v under ETag k of event e.                             *)
Was(e, k, v) == k \in 1..Len(versions[e]) /\ v = versions[e][k]

(* In the table, or in a copy of it: a bound row is bound to the event it   *)
(* was created for, and its baseline is a past value of that event.        *)
Genuine(t) ==
    \A r \in RowIds : Bound(t, r) => madeFor[r] = t[r].event /\ Was(t[r].event, t[r].etag, t[r].base)

(* A refresh: its copy of the rows, what its pages read, and, once it       *)
(* writes, a preview that was accepted.                                    *)
JobOK(q) ==
    /\ Genuine(q.snap)
    /\ \A e \in Events : q.seen[e] <= Len(versions[e])
    /\ q.pc = "scan" => q.at <= N
    /\ q.pc \in {"apply", "reload"} => ~PreviewFails(q.snap, q.seen)
JobsOK == \A j \in JobIds : Running(j) => JobOK(jobs[j])

(* What a preview shows and a send takes from it.                          *)
EditOK(p) == madeFor[p.row] = p.event /\ Was(p.event, p.etag, p.remote)
ConflictOK(c) == c.kind = "both" => madeFor[c.row] # 0 /\ Was(madeFor[c.row], c.etag, c.remote)
PreviewOK(edits, conflicts) ==
    /\ \A p \in edits : EditOK(p)
    /\ \A c \in conflicts : ConflictOK(c)
LastOK ==
    /\ last # None => PreviewOK(last.review, last.conflicts)
    /\ offer # None => PreviewOK(offer.review, offer.conflicts)
    /\ kind = "ready" => offer # None
SendingOK ==
    /\ PreviewOK(sending.queue, sending.conflicts)
    /\ sending.pc = "confirm" =>
         sending.queue # {} /\ sending.etag \in 1..Len(versions[First.event])

History == Genuine(rows) /\ JobsOK /\ LastOK /\ SendingOK

(* Without a reconnection in the middle of something, the controller's      *)
(* state keeps one operation at a time.                                    *)
OneAtATime ==
    /\ \A j \in JobIds : Running(j) => calendar
    /\ ~interrupted =>
         /\ \A j \in JobIds : Running(j) =>
              /\ kind = "refreshing" /\ ~asked /\ sending.pc \notin {"layout", "patch", "confirm"}
              /\ \A i \in JobIds : Running(i) => i = j
         /\ sending.pc \in {"layout", "patch", "confirm"} => kind = "sending" /\ ~asked
         /\ asked => kind \in {"connecting", "disconnected"}

(* How far the rows are from a refresh's copy of them.                     *)
Handled(q) == IF q.pc = "apply" THEN 1..(q.at - 1) ELSE {}
Made(q, e) == [event |-> e, val |-> Desired(q.snap, q.seen, e), base |-> Remote(q.seen, e),
               etag |-> q.seen[e]]
WrittenBy(q, r) ==
    LET e == madeFor[r]
    IN  /\ e \in Handled(q) /\ e \in Applied(q.snap, q.seen) /\ rows[r] = Made(q, e)
        /\ RowsOf(q.snap, e) = {} \/ RowOf(q.snap, e) = r
Tracks(q) ==
    /\ \A r \in RowIds \ untracked : rows[r] = q.snap[r] \/ WrittenBy(q, r)
    /\ \A e \in Handled(q) \cap Applied(q.snap, q.seen) :
         RowsOf(q.snap, e) # {} /\ RowOf(q.snap, e) \notin untracked
           => rows[RowOf(q.snap, e)] = Made(q, e)
    /\ \A e \in Events \ Handled(q) : RowsOf(rows, e) \subseteq RowsOf(q.snap, e)
Tracking == ~interrupted => \A j \in JobIds : jobs[j].pc \in {"scan", "apply"} => Tracks(jobs[j])

OneRow == ~interrupted => \A e \in Events : \A q, r \in RowsOf(rows, e) : q = r

(* A preview lists an event once, and is about the row of the event.        *)
Once(edits) == \A p, q \in edits : p.event = q.event => p = q
ListedOnce == (last # None => Once(last.review)) /\ (offer # None => Once(offer.review))

(* What a preview P is for the rows, for the last preview, from which        *)
(* entries may have been dropped since, and for the discards under way: a    *)
(* discarded row holds Google's value again, or is one that P cannot see.    *)
Agrees(P) ==
    /\ \A r \in RowIds \ Unseen : Pending(r) /\ Valid(rows[r].val)
                                  => \E x \in P.review \cup P.conflicts : x.row = r
    /\ \A p \in P.review : p.row \notin Unseen =>
         rows[p.row] = [event |-> p.event, val |-> p.desired, base |-> p.remote, etag |-> p.etag]
Outdates(i) == saved[i].does \in {"edit", "settle"}
Discards(P) ==
    \A i \in SaveIds : saved[i].does = "discard" =>
        \/ saved[i].row \in untracked
        \/ /\ ~Pending(saved[i].row) \/ \E k \in SaveIds : Outdates(k) /\ saved[k].row = saved[i].row
           /\ \A x \in P.review : x.row = saved[i].row => x = saved[i].item
Leaves(P) ==
    /\ last # None /\ ~last.sent /\ last.conflicts = P.conflicts /\ last.review \subseteq P.review
    /\ \A x \in P.review \ last.review : x.row \in untracked
ShowsRows(P) == Agrees(P) /\ Discards(P) /\ Leaves(P)

Reads(j) == jobs[j].pc = "reload"
Fresh ==
    ~stale /\ ~interrupted =>
        /\ kind = "ready" /\ ~offer.sent => ShowsRows(offer)
        /\ kind = "ready" /\ last # None => offer.sent = last.sent
        /\ \A j \in JobIds : Reads(j) =>
             /\ ShowsRows(Summary(j))
             /\ \A i \in SaveIds : saved[i].does = "discard" => saved[i].row \in untracked

(* An operation that drops an edit drops one the row had.                  *)
SavesOK ==
    \A i \in SaveIds : saved[i].does = "discard" =>
        saved[i].item \in Edit /\ saved[i].item.row = saved[i].row

CalendarInv ==
    /\ TypeOK /\ History /\ OneAtATime /\ Tracking /\ OneRow /\ ListedOnce /\ SavesOK
    /\ Fresh

-----------------------------------------------------------------------------
(* Facts about the data. *)

\* The constants the proofs need.
LEMMA Constants ==
    /\ N \in Nat /\ Events \subseteq Nat /\ 0 \notin Events /\ Events \subseteq 0..N
    /\ NoRow \notin Row /\ NoRow \notin Values /\ None \notin Values
    /\ ValidValues \subseteq Values
BY CalendarAssumption, ModelValuesAssumption DEF Events, ValidValues

\* A set of edits that is not empty has a first one.
LEMMA FirstIn ==
    ASSUME sending \in Sending, sending.queue # {}
    PROVE  First \in sending.queue /\ First \in Edit
<1> DEFINE S == {p.event : p \in sending.queue}
<1>1. sending.queue \subseteq Edit
    BY DEF Sending
<1>2. S \subseteq Nat
    BY <1>1, Constants DEF Edit
<1> DEFINE Below == {x \in Nat \X Nat : x[1] < x[2]}
<1>3. IsWellFoundedOn(Below, Nat)
    BY NatLessThanWellFounded, Zenon DEF OpToRel
<1>4. PICK n \in S : \A m \in S : ~(<<m, n>> \in Below)
    <2> HIDE DEF S, Below
    <2>1. S # {}
        BY DEF S
    <2> QED
        BY <1>2, <1>3, <2>1, WFMin, Zenon
<1>5. \A m \in S : n <= m
    <2> HIDE DEF S
    <2> SUFFICES ASSUME NEW m \in S PROVE n <= m
        OBVIOUS
    <2>1. m \in Nat /\ n \in Nat
        BY <1>2
    <2>2. <<m, n>> \in Nat \X Nat /\ <<m, n>>[1] = m /\ <<m, n>>[2] = n
        BY <2>1
    <2>3. ~(m < n)
        BY <1>4, <2>2
    <2> QED
        BY <2>1, <2>3
<1>6. PICK p \in sending.queue : p.event = n
    OBVIOUS
<1>7. \A q \in sending.queue : p.event <= q.event
    BY <1>5, <1>6
<1> QED
    BY <1>1, <1>6, <1>7 DEF First

\* A slot for a refresh is empty or holds one.
LEMMA JobKinds ==
    ASSUME TypeOK, NEW j \in JobIds
    PROVE  /\ Running(j) => jobs[j] \in Job
           /\ ~Running(j) => jobs[j] = NoJob
           /\ jobs[j].pc \in {"scan", "apply", "reload"} => Running(j)
BY DEF TypeOK, Running, Job, NoJob

\* The row of an event in a table is one of its rows.
LEMMA RowOfIn ==
    ASSUME NEW t, NEW e, RowsOf(t, e) # {}
    PROVE  /\ RowOf(t, e) \in RowIds /\ RowOf(t, e) \in RowsOf(t, e)
           /\ Bound(t, RowOf(t, e)) /\ t[RowOf(t, e)].event = e
BY DEF RowOf, RowsOf

\* The merge of three values is a value, and where the two sides do not clash
\* it keeps every field that was edited here.
LEMMA MergeFacts ==
    ASSUME NEW base \in Values, NEW local \in Values, NEW remote \in Values
    PROVE  /\ R!Merged(base, local, remote) \in Values
           /\ ~R!Decision(base, local, remote).conflict =>
                \A f \in Fields : local[f] # base[f] => R!Merged(base, local, remote)[f] = local[f]
<1> DEFINE d == R!Decision(base, local, remote)
<1>1. local \notin {NoRow, None} /\ remote \notin {NoRow, None} /\ base \notin {NoRow, None}
    BY Constants
<1>2. \A f \in Fields : R!At(local, f) = local[f] /\ R!At(remote, f) = remote[f] /\ R!At(base, f) = base[f]
    BY <1>1 DEF R!At
<1>3. CASE local = remote
    <2>1. d = R!NoDecision
        BY <1>3 DEF R!Decision
    <2> QED
        BY <1>2, <1>3, <2>1 DEF R!Merged, R!NoDecision, Values
<1>4. CASE local # remote
    <2>1. d = [R!NoDecision EXCEPT
              !.local        = R!Inbound(base, local, remote),
              !.remote       = R!Outbound(base, local, remote),
              !.clashing     = R!Clashing(base, local, remote),
              !.conflict     = R!Clashing(base, local, remote) # {},
              !.createLocal  = base = None /\ local = None,
              !.createRemote = base = None /\ remote = None]
        BY <1>1, <1>4 DEF R!Decision
    <2>2. d.remote = R!Outbound(base, local, remote) /\ d.conflict = (R!Clashing(base, local, remote) # {})
        BY <2>1 DEF R!NoDecision
    <2> QED
        BY <1>2, <2>2 DEF R!Merged, R!Outbound, R!Clashing, Values
<1> QED
    BY <1>3, <1>4

-----------------------------------------------------------------------------
(* What a refresh has in hand. *)

\* What a page read is what Google had.
LEMMA RemoteFacts ==
    ASSUME TypeOK, NEW q \in Job, JobOK(q), NEW e \in Events, q.seen[e] # 0
    PROVE  Remote(q.seen, e) \in ValidValues /\ Was(e, q.seen[e], Remote(q.seen, e))
<1>1. q.seen[e] \in Nat /\ q.seen[e] <= Len(versions[e])
    BY DEF JobOK, Job
<1>2. versions[e] \in Seq(ValidValues) /\ q.seen[e] \in 1..Len(versions[e])
    BY <1>1 DEF TypeOK
<1>3. versions[e][q.seen[e]] \in ValidValues
    BY <1>2
<1> QED
    BY <1>2, <1>3 DEF Remote, Was

\* A bound row of its copy of the table has a baseline of Google's.
LEMMA SnapRow ==
    ASSUME TypeOK, NEW q \in Job, JobOK(q), NEW e \in Events, NEW r \in RowsOf(q.snap, e)
    PROVE  /\ r \in RowIds /\ q.snap[r] \in Row /\ q.snap[r].event = e /\ madeFor[r] = e
           /\ q.snap[r].base \in ValidValues /\ q.snap[r].val \in Values
           /\ Card(q.snap[r]) \in Values
<1>1. r \in RowIds /\ Bound(q.snap, r) /\ q.snap[r].event = e
    BY DEF RowsOf
<1>2. q.snap \in Table
    BY DEF Job
<1>3. q.snap[r] \in Row
    BY <1>1, <1>2 DEF Bound, Table
<1>4. madeFor[r] = e /\ Was(e, q.snap[r].etag, q.snap[r].base)
    BY <1>1 DEF JobOK, Genuine
<1>5. q.snap[r].base \in ValidValues
    BY <1>4 DEF Was, TypeOK
<1> QED
    BY <1>1, <1>3, <1>4, <1>5, Constants DEF Row, Card

\* What it would write is a value.
LEMMA DesiredFacts ==
    ASSUME TypeOK, NEW q \in Job, JobOK(q), NEW e \in Events, q.seen[e] # 0
    PROVE  /\ Desired(q.snap, q.seen, e) \in Values
           /\ RowsOf(q.snap, e) = {} => Desired(q.snap, q.seen, e) = Remote(q.seen, e)
           /\ q.pc # "scan" /\ e \in Changes(q.snap, q.seen) => Desired(q.snap, q.seen, e) \in ValidValues
<1>1. Remote(q.seen, e) \in Values
    BY RemoteFacts, Constants
<1>2. RowsOf(q.snap, e) = {} => Desired(q.snap, q.seen, e) = Remote(q.seen, e)
    BY DEF Desired
<1>3. ASSUME RowsOf(q.snap, e) # {} PROVE Desired(q.snap, q.seen, e) \in Values
    <2> DEFINE row == q.snap[RowOf(q.snap, e)]
    <2>1. row.base \in Values /\ Card(row) \in Values
        BY <1>3, RowOfIn, SnapRow, Constants
    <2>2. R!Merged(row.base, Card(row), Remote(q.seen, e)) \in Values
        BY <1>1, <2>1, MergeFacts
    <2> QED
        BY <1>3, <2>2 DEF Desired
<1>4. Desired(q.snap, q.seen, e) \in Values
    BY <1>1, <1>2, <1>3
<1>5. q.pc # "scan" /\ e \in Changes(q.snap, q.seen) => Valid(Desired(q.snap, q.seen, e))
    BY DEF JobOK, PreviewFails, Job
<1> QED
    BY <1>2, <1>4, <1>5 DEF ValidValues

\* The row a refresh makes of a change.
LEMMA MadeFacts ==
    ASSUME TypeOK, NEW q \in Job, JobOK(q), NEW e \in Events, q.seen[e] # 0
    PROVE  /\ Made(q, e) \in Row /\ Made(q, e) # NoRow
           /\ Made(q, e).event = e /\ Made(q, e).val = Desired(q.snap, q.seen, e)
           /\ Made(q, e).base = Remote(q.seen, e) /\ Made(q, e).etag = q.seen[e]
           /\ Was(e, Made(q, e).etag, Made(q, e).base)
<1>1. Made(q, e) \in Row
    BY RemoteFacts, DesiredFacts, Constants DEF Made, Row, Job
<1> QED
    BY <1>1, RemoteFacts, Constants DEF Made

\* A change is of an event that was read.
LEMMA AppliedRead ==
    ASSUME NEW q, NEW e \in Applied(q.snap, q.seen)
    PROVE  e \in Events /\ q.seen[e] # 0 /\ e \in Changes(q.snap, q.seen) /\ ~BothChanged(q.snap, q.seen, e)
BY DEF Applied, Changes

\* The review list and the conflicts of an accepted preview.
LEMMA ReviewFacts ==
    ASSUME TypeOK, NEW q \in Job, JobOK(q), q.pc # "scan"
    PROVE  /\ Review(q.snap, q.seen) \subseteq Edit
           /\ \A p \in Review(q.snap, q.seen) :
                /\ EditOK(p) /\ p.event \in Applied(q.snap, q.seen)
                /\ RowsOf(q.snap, p.event) # {} /\ p.row = RowOf(q.snap, p.event)
                /\ p.etag = q.seen[p.event] /\ p.remote = Remote(q.seen, p.event)
                /\ p.desired = Desired(q.snap, q.seen, p.event)
           /\ \A p, x \in Review(q.snap, q.seen) : p.event = x.event => p = x
<1> DEFINE entry(e) == [row |-> RowOf(q.snap, e), event |-> e, etag |-> q.seen[e],
                        remote |-> Remote(q.seen, e), desired |-> Desired(q.snap, q.seen, e)]
<1>1. \A p \in Review(q.snap, q.seen) : \E e \in Applied(q.snap, q.seen) :
         RowsOf(q.snap, e) # {} /\ p = entry(e)
    BY DEF Review
<1>2. ASSUME NEW e \in Applied(q.snap, q.seen), RowsOf(q.snap, e) # {}
      PROVE  entry(e) \in Edit /\ EditOK(entry(e))
    <2>1. e \in Events /\ q.seen[e] # 0 /\ e \in Changes(q.snap, q.seen)
        BY AppliedRead
    <2>2. RowOf(q.snap, e) \in RowIds /\ madeFor[RowOf(q.snap, e)] = e
        BY <1>2, <2>1, RowOfIn, SnapRow
    <2>3. Remote(q.seen, e) \in ValidValues /\ Was(e, q.seen[e], Remote(q.seen, e))
        BY <2>1, RemoteFacts
    <2>4. Desired(q.snap, q.seen, e) \in ValidValues
        BY <2>1, DesiredFacts
    <2>5. q.seen[e] \in Nat
        BY <2>1 DEF Job
    <2> QED
        BY <2>1, <2>2, <2>3, <2>4, <2>5 DEF Edit, EditOK
<1>3. \A p \in Review(q.snap, q.seen) : p \in Edit /\ EditOK(p)
    BY <1>1, <1>2
<1>4. \A p \in Review(q.snap, q.seen) :
                /\ p = entry(p.event) /\ p.event \in Applied(q.snap, q.seen)
                /\ RowsOf(q.snap, p.event) # {} /\ p.row = RowOf(q.snap, p.event)
                /\ p.etag = q.seen[p.event] /\ p.remote = Remote(q.seen, p.event)
                /\ p.desired = Desired(q.snap, q.seen, p.event)
    BY <1>1
<1> QED
    BY <1>3, <1>4

\* The conflicts: each names a row of its event, and what Google had.
LEMMA ConflictFacts ==
    ASSUME TypeOK, NEW q \in Job, JobOK(q)
    PROVE  /\ Conflicts(q.snap, q.seen) \subseteq Conflict
           /\ \A c \in Conflicts(q.snap, q.seen) : ConflictOK(c)
<1> DEFINE entry(e) ==
      [row |-> RowOf(q.snap, e), etag |-> q.seen[e],
       kind |-> IF q.seen[e] = 0 THEN "missing-remote" ELSE "both",
       base |-> q.snap[RowOf(q.snap, e)].base, local |-> Card(q.snap[RowOf(q.snap, e)]),
       remote |-> IF q.seen[e] = 0 THEN None ELSE Remote(q.seen, e)]
<1>1. \A c \in Conflicts(q.snap, q.seen) : \E e \in Events : RowsOf(q.snap, e) # {} /\ c = entry(e)
    BY DEF Conflicts, BothChanged, MissingRemote
<1>2. ASSUME NEW e \in Events, RowsOf(q.snap, e) # {}
      PROVE  entry(e) \in Conflict /\ ConflictOK(entry(e))
    <2>1. /\ RowOf(q.snap, e) \in RowIds /\ madeFor[RowOf(q.snap, e)] = e
          /\ q.snap[RowOf(q.snap, e)].base \in ValidValues /\ Card(q.snap[RowOf(q.snap, e)]) \in Values
        BY <1>2, RowOfIn, SnapRow
    <2>2. q.seen[e] # 0 => Remote(q.seen, e) \in ValidValues /\ Was(e, q.seen[e], Remote(q.seen, e))
        BY RemoteFacts
    <2>3. q.seen[e] \in Nat /\ e # 0
        BY Constants DEF Job
    <2> QED
        BY <2>1, <2>2, <2>3 DEF Conflict, ConflictOK
<1> QED
    BY <1>1, <1>2

-----------------------------------------------------------------------------
(* What stays true as Google's history and the table's subjects grow. *)

Grows ==
    /\ \A e \in Events :
         /\ Len(versions[e]) \in Nat /\ Len(versions'[e]) \in Nat /\ Len(versions[e]) <= Len(versions'[e])
         /\ \A k \in 1..Len(versions[e]) : versions'[e][k] = versions[e][k]
    /\ \A r \in RowIds : madeFor[r] # 0 => madeFor'[r] = madeFor[r]

\* A past value stays one.
LEMMA WasLater ==
    ASSUME Grows, NEW e \in Events, NEW k, NEW v, Was(e, k, v)
    PROVE  Was(e, k, v)'
BY DEF Grows, Was

\* So do the bindings of a copy of the table, and what a preview lists.
LEMMA GenuineLater ==
    ASSUME Grows, NEW t \in Table, Genuine(t)
    PROVE  Genuine(t)'
<1> SUFFICES ASSUME NEW r \in RowIds, Bound(t, r)
             PROVE  madeFor'[r] = t[r].event /\ Was(t[r].event, t[r].etag, t[r].base)'
    BY DEF Genuine, Bound
<1>1. t[r].event # 0 /\ madeFor[r] = t[r].event /\ Was(t[r].event, t[r].etag, t[r].base)
    BY DEF Genuine, Bound
<1>2. t[r].event \in Events
    BY <1>1, Constants DEF Table, Row, Bound, Events
<1> QED
    BY <1>1, <1>2, WasLater DEF Grows

\* A reviewed edit still names its row and a past value of its event.
LEMMA EditLater ==
    ASSUME Grows, NEW p \in Edit, EditOK(p)
    PROVE  EditOK(p)'
<1>1. p.event \in Events /\ p.row \in RowIds /\ madeFor[p.row] = p.event /\ Was(p.event, p.etag, p.remote)
    BY DEF Edit, EditOK
<1>2. Was(p.event, p.etag, p.remote)' /\ madeFor'[p.row] = p.event
    BY <1>1, WasLater, Constants DEF Grows
<1> QED
    BY <1>2 DEF EditOK

\* So does a conflict.
LEMMA ConflictLater ==
    ASSUME TypeOK, Grows, NEW c \in Conflict, ConflictOK(c)
    PROVE  ConflictOK(c)'
<1>1. CASE c.kind # "both"
    BY <1>1 DEF ConflictOK
<1>2. CASE c.kind = "both"
    <2>1. c.row \in RowIds /\ madeFor[c.row] # 0 /\ Was(madeFor[c.row], c.etag, c.remote)
        BY <1>2 DEF Conflict, ConflictOK
    <2>2. madeFor[c.row] \in Events /\ madeFor'[c.row] = madeFor[c.row]
        BY <2>1, Constants DEF TypeOK, Grows, Events
    <2>3. /\ c.remote = versions'[madeFor'[c.row]][c.etag]
          /\ c.etag \in 1..Len(versions'[madeFor'[c.row]])
        BY <2>1, <2>2 DEF Grows, Was
    <2> QED
        BY <2>1, <2>2, <2>3 DEF ConflictOK, Was
<1> QED
    BY <1>1, <1>2

\* What its pages read, and so what it decides, stays as it was.
LEMMA RemoteLater ==
    ASSUME Grows, NEW q \in Job, JobOK(q)
    PROVE  /\ \A e \in Events : q.seen[e] # 0 => Remote(q.seen, e)' = Remote(q.seen, e)
           /\ \A e \in Events : BothChanged(q.snap, q.seen, e)' = BothChanged(q.snap, q.seen, e)
           /\ \A e \in Events : q.seen[e] # 0 =>
                Desired(q.snap, q.seen, e)' = Desired(q.snap, q.seen, e)
           /\ Changes(q.snap, q.seen)' = Changes(q.snap, q.seen)
           /\ Applied(q.snap, q.seen)' = Applied(q.snap, q.seen)
<1>1. ASSUME NEW e \in Events, q.seen[e] # 0 PROVE Remote(q.seen, e)' = Remote(q.seen, e)
    <2>1. q.seen[e] \in 1..Len(versions[e])
        BY <1>1 DEF JobOK, Job, Grows
    <2> QED
        BY <2>1 DEF Grows, Remote
<1>2. \A e \in Events : BothChanged(q.snap, q.seen, e)' = BothChanged(q.snap, q.seen, e)
    BY <1>1 DEF BothChanged
<1>3. \A e \in Events : q.seen[e] # 0 => Desired(q.snap, q.seen, e)' = Desired(q.snap, q.seen, e)
    BY <1>1 DEF Desired
<1>4. Changes(q.snap, q.seen)' = Changes(q.snap, q.seen)
    BY <1>2 DEF Changes
<1>5. Applied(q.snap, q.seen)' = Applied(q.snap, q.seen)
    BY <1>4 DEF Applied
<1> QED
    BY <1>1, <1>2, <1>3, <1>4, <1>5

\* A refresh in hand stays consistent with the history.
LEMMA JobLater ==
    ASSUME TypeOK, Grows, NEW q \in Job, JobOK(q)
    PROVE  JobOK(q)' /\ \A e \in Applied(q.snap, q.seen) : Made(q, e)' = Made(q, e)
<1>1. Genuine(q.snap)'
    BY GenuineLater DEF JobOK, Job
<1>2. \A e \in Events : q.seen[e] \in Nat /\ q.seen[e] <= Len(versions'[e])
    BY DEF JobOK, Job, Grows
<1>3. PreviewFails(q.snap, q.seen)' => PreviewFails(q.snap, q.seen)
    <2>1. \A e \in Changes(q.snap, q.seen) : e \in Events /\ q.seen[e] # 0
        BY DEF Changes
    <2> QED
        BY <2>1, RemoteLater DEF PreviewFails
<1>4. JobOK(q)'
    BY <1>1, <1>2, <1>3 DEF JobOK
<1>5. \A e \in Applied(q.snap, q.seen) : Made(q, e)' = Made(q, e)
    BY AppliedRead, RemoteLater DEF Made
<1> QED
    BY <1>4, <1>5

-----------------------------------------------------------------------------
(* Types. *)

\* A slot that gets a new refresh, or none, is still a slot.
LEMMA JobTypes ==
    ASSUME TypeOK, NEW j \in JobIds
    PROVE  /\ NewJob \in Job /\ NewJob.pc = "scan"
           /\ jobs' = [jobs EXCEPT ![j] = NewJob] => jobs' \in [JobIds -> Job \cup {NoJob}]
           /\ Ended(j) => jobs' \in [JobIds -> Job \cup {NoJob}]
<1>1. NewJob \in Job /\ NewJob.pc = "scan"
    BY Constants DEF NewJob, Job, TypeOK
<1> QED
    BY <1>1 DEF TypeOK, Ended

\* What starting a refresh, or listing the calendars, does to the types.
LEMMA BeginType ==
    ASSUME TypeOK, NEW c, Begin(c)
    PROVE  /\ kind' = "refreshing" /\ untracked' \subseteq RowIds
           /\ jobs' \in [JobIds -> Job \cup {NoJob}]
BY JobTypes DEF Begin, TypeOK

\* load() keeps the types of what it assigns.
LEMMA LoadType ==
    ASSUME TypeOK, NEW n \in 0..2, LoadWith(n)
    PROVE  /\ kind' \in Kinds /\ untracked' \subseteq RowIds /\ calendar' \in BOOLEAN
           /\ jobs' \in [JobIds -> Job \cup {NoJob}] /\ connections' \in 0..2
<1>1. CASE n = 0
    BY <1>1 DEF LoadWith, TypeOK, Kinds
<1>2. CASE n # 0 /\ onTable /\ Busy
    BY <1>2 DEF LoadWith, TypeOK
<1>3. CASE n # 0 /\ ~(onTable /\ Busy)
    BY <1>3, BeginType DEF LoadWith, TypeOK, Kinds
<1> QED
    BY <1>1, <1>2, <1>3

\* The operations under way: none, one more, what a new preview leaves of them.
LEMMA SaveTypes ==
    ASSUME TypeOK
    PROVE  /\ NoSave \in Save /\ NoSaves \in [SaveIds -> Save]
           /\ \A i \in SaveIds : saved[i] \in Save /\ Superseded(saved[i]) \in Save
           /\ \A i \in SaveIds, s \in Save : [saved EXCEPT ![i] = s] \in [SaveIds -> Save]
<1>1. 1 \in RowIds
    BY CalendarAssumption DEF RowIds
<1>2. NoSave \in Save
    BY <1>1 DEF NoSave, Save
<1>3. ASSUME NEW i \in SaveIds PROVE saved[i] \in Save /\ Superseded(saved[i]) \in Save
    <2>1. saved[i] \in Save
        BY DEF TypeOK
    <2>2. \A s \in Save : [s EXCEPT !.does = "edit", !.item = None] \in Save
        BY DEF Save
    <2> QED
        BY <1>2, <2>1, <2>2 DEF Superseded
<1> QED
    BY <1>2, <1>3 DEF NoSaves, TypeOK

\* An edit in the review sheet is an edit of a preview.
LEMMA ReviewedFacts ==
    ASSUME TypeOK, LastOK, NEW p \in Reviewed
    PROVE  p \in Edit /\ p.row \in RowIds /\ p.remote \in ValidValues /\ p.etag \in Nat /\ EditOK(p)
<1>1. (kind = "ready" /\ offer # None /\ p \in offer.review) \/ (last # None /\ p \in last.review)
    BY DEF Reviewed, LastOK
<1>2. p \in Edit /\ EditOK(p)
    BY <1>1 DEF LastOK, PreviewOK, TypeOK, Preview
<1> QED
    BY <1>2 DEF Edit

\* The budget of outside events stays a number.
LEMMA SpendType == ASSUME TypeOK, Spend PROVE left' \in Nat
BY DEF TypeOK, Spend

\* Connecting and choosing.
ConnectSteps ==
    Load \/ Listed \/ Choose \/ Connect \/ Connected \/ ConnectFails \/ CancelConnect \/ Disconnect
    \/ Refresh \/ Retry \/ Reload
\* Connecting, choosing and starting a refresh keep the types.
LEMMA ConnectType == ASSUME TypeOK, ConnectSteps PROVE TypeOK'
<1> USE DEF google, table, view, ghosts, app
<1>1. CASE Load
    BY <1>1, LoadType DEF Load, TypeOK
<1>2. CASE Listed
    BY <1>2, SpendType DEF Listed, Fail, TypeOK, Kinds
<1>3. CASE Choose
    <2>1. CASE onTable' = TRUE /\ calendar' = TRUE /\ Begin(TRUE) /\ UNCHANGED left
        BY <1>3, <2>1, BeginType DEF Choose, TypeOK, Kinds
    <2>2. CASE Spend /\ Fail /\ UNCHANGED <<onTable, calendar, jobs, untracked>>
        BY <1>3, <2>2, SpendType DEF Choose, Fail, TypeOK, Kinds
    <2> QED
        BY <1>3, <2>1, <2>2 DEF Choose
<1>4. CASE Connect
    BY <1>4, SpendType DEF Connect, TypeOK, Kinds, Working
<1>5. CASE Connected
    <2>1. delegated' \in 0..2
        BY <1>5 DEF Connected, TypeOK
    <2> QED
        BY <1>5, <2>1, LoadType DEF Connected, TypeOK
<1>6. CASE ConnectFails \/ CancelConnect
    BY <1>6, SpendType DEF ConnectFails, CancelConnect, Fail, TypeOK, Kinds
<1>7. CASE Disconnect
    BY <1>7, SpendType DEF Disconnect, TypeOK, Kinds, Working
<1>8. CASE Refresh
    BY <1>8, BeginType DEF Refresh, TypeOK, Kinds
<1>10. CASE Retry
    BY <1>10, BeginType DEF Retry, TypeOK, Kinds
<1>9. CASE Reload
    <2>1. sending' \in Sending
        BY <1>9 DEF Reload, NotSending, Sending
    <2>2. jobs' \in [JobIds -> Job \cup {NoJob}]
        BY <1>9 DEF Reload
    <2>3. left' \in Nat /\ last' = None /\ offer' = None /\ kind' \in Kinds /\ connections' \in 0..2
        BY <1>9, SpendType DEF Reload, Kinds
    <2>4. /\ stale' \in BOOLEAN /\ calendar' \in BOOLEAN /\ asked' \in BOOLEAN /\ countdown' \in BOOLEAN
          /\ saved' \in [SaveIds -> Save]
        BY <1>9, SaveTypes DEF Reload
    <2>5. UNCHANGED <<google, table, ghosts>>
        BY <1>9 DEF Reload
    <2> QED
        BY <2>1, <2>2, <2>3, <2>4, <2>5 DEF TypeOK
<1> QED
    BY <1>1, <1>2, <1>3, <1>4, <1>5, <1>6, <1>7, <1>8, <1>9, <1>10 DEF ConnectSteps

\* A page is read: what was seen so far grows by one event.
PageRead(j) == [jobs[j].seen EXCEPT ![jobs[j].at] = IF jobs[j].at \in gone THEN 0 ELSE Len(versions[jobs[j].at])]

\* What ReadPage(j) finds and leaves.
LEMMA PageFacts ==
    ASSUME TypeOK, JobsOK, NEW j \in JobIds, ReadPage(j)
    PROVE  /\ jobs[j] \in Job /\ jobs[j].pc = "scan" /\ JobOK(jobs[j]) /\ jobs[j].at \in Events
           /\ PageRead(j) \in [Events -> Nat]
           /\ \A e \in Events : PageRead(j)[e] <= Len(versions[e])
           /\ UNCHANGED <<google, table, last, offer, stale, connections, calendar, sending, app, ghosts, left>>
           /\ \/ /\ jobs[j].at < N /\ UNCHANGED kind
                 /\ jobs' = [jobs EXCEPT ![j].seen = PageRead(j), ![j].at = jobs[j].at + 1]
              \/ Ended(j) /\ Fail
              \/ /\ ~PreviewFails(jobs[j].snap, PageRead(j)) /\ UNCHANGED kind
                 /\ jobs' = [jobs EXCEPT ![j].seen = PageRead(j), ![j].at = 1, ![j].pc = "apply"]
<1>1. jobs[j] \in Job /\ jobs[j].pc = "scan" /\ JobOK(jobs[j])
    BY JobKinds DEF ReadPage, JobsOK, Running
<1>2. jobs[j].at \in Events /\ jobs[j].seen \in [Events -> Nat]
    BY <1>1, Constants DEF JobOK, Job, Events
<1>3. \A e \in Events : Len(versions[e]) \in Nat
    BY DEF TypeOK
<1>4. /\ PageRead(j) \in [Events -> Nat]
      /\ \A e \in Events : PageRead(j)[e] <= Len(versions[e])
    BY <1>1, <1>2, <1>3 DEF PageRead, JobOK
<1> QED
    BY <1>1, <1>2, <1>4 DEF ReadPage, PageRead

\* A job goes on with other fields.
LEMMA PageType ==
    ASSUME TypeOK, NEW j \in JobIds, jobs[j] \in Job, NEW seen \in [Events -> Nat], NEW at \in 1..N+1,
           NEW pc \in {"scan", "apply", "reload"}
    PROVE  /\ [jobs EXCEPT ![j].seen = seen, ![j].at = at, ![j].pc = pc] \in [JobIds -> Job \cup {NoJob}]
           /\ [jobs EXCEPT ![j].pc = pc] \in [JobIds -> Job \cup {NoJob}]
           /\ [jobs EXCEPT ![j].seen = seen, ![j].at = at] \in [JobIds -> Job \cup {NoJob}]
           /\ [jobs EXCEPT ![j].at = at] \in [JobIds -> Job \cup {NoJob}]
BY DEF TypeOK, Job

\* A change is applied.
LEMMA ApplyFacts ==
    ASSUME TypeOK, JobsOK, NEW j \in JobIds, ApplyChange(j)
    PROVE  LET q == jobs[j]
               e == q.at
           IN  /\ q \in Job /\ q.pc = "apply" /\ JobOK(q) /\ e \in Events
               /\ jobs' = [jobs EXCEPT ![j].at = e + 1]
               /\ UNCHANGED <<google, onTable, view, sending, app, ghosts, left>>
               /\ e \in Applied(q.snap, q.seen) => Made(q, e) \in Row /\ q.seen[e] # 0
               /\ \/ e \notin Applied(q.snap, q.seen) /\ UNCHANGED <<rows, madeFor>>
                  \/ /\ e \in Applied(q.snap, q.seen) /\ RowsOf(q.snap, e) = {}
                     /\ \E r \in RowIds :
                          /\ madeFor[r] = 0
                          /\ rows' = [rows EXCEPT ![r] = Made(q, e)]
                          /\ madeFor' = [madeFor EXCEPT ![r] = e]
                  \/ /\ e \in Applied(q.snap, q.seen) /\ RowsOf(q.snap, e) # {}
                     /\ UNCHANGED madeFor
                     /\ \/ q.snap[RowOf(q.snap, e)] = Made(q, e) /\ UNCHANGED rows
                        \/ /\ q.snap[RowOf(q.snap, e)] # Made(q, e)
                           /\ rows' = [rows EXCEPT ![RowOf(q.snap, e)] = Made(q, e)]
<1> DEFINE q == jobs[j]
           e == q.at
<1>1. q \in Job /\ q.pc = "apply" /\ JobOK(q)
    BY JobKinds DEF ApplyChange, JobsOK, Running
<1>2. e \in Events
    BY <1>1, Constants DEF ApplyChange, Job, Events
<1>3. e \in Applied(q.snap, q.seen) => Made(q, e) \in Row /\ q.seen[e] # 0
    BY <1>1, <1>2, AppliedRead, MadeFacts
<1>4. jobs' = [jobs EXCEPT ![j].at = e + 1]
    BY <1>1 DEF ApplyChange
<1>5. UNCHANGED <<google, onTable, view, sending, app, ghosts, left>>
    BY DEF ApplyChange
<1>6. \/ e \notin Applied(q.snap, q.seen) /\ UNCHANGED <<rows, madeFor>>
      \/ /\ e \in Applied(q.snap, q.seen) /\ RowsOf(q.snap, e) = {}
         /\ \E r \in RowIds :
              /\ madeFor[r] = 0
              /\ rows' = [rows EXCEPT ![r] = Made(q, e)]
              /\ madeFor' = [madeFor EXCEPT ![r] = e]
      \/ /\ e \in Applied(q.snap, q.seen) /\ RowsOf(q.snap, e) # {}
         /\ UNCHANGED madeFor
         /\ \/ q.snap[RowOf(q.snap, e)] = Made(q, e) /\ UNCHANGED rows
            \/ /\ q.snap[RowOf(q.snap, e)] # Made(q, e)
               /\ rows' = [rows EXCEPT ![RowOf(q.snap, e)] = Made(q, e)]
    BY DEF ApplyChange, Made
<1> QED
    BY <1>1, <1>2, <1>3, <1>4, <1>5, <1>6

\* The summary of a refresh that has read its pages.
LEMMA SummaryFacts ==
    ASSUME TypeOK, NEW j \in JobIds, jobs[j] \in Job, JobOK(jobs[j]), jobs[j].pc # "scan"
    PROVE  /\ Summary(j) \in Preview /\ ~Summary(j).sent
           /\ Summary(j).review = Review(jobs[j].snap, jobs[j].seen)
           /\ Summary(j).conflicts = Conflicts(jobs[j].snap, jobs[j].seen)
           /\ PreviewOK(Summary(j).review, Summary(j).conflicts) /\ Once(Summary(j).review)
<1>1. /\ Review(jobs[j].snap, jobs[j].seen) \subseteq Edit
      /\ Conflicts(jobs[j].snap, jobs[j].seen) \subseteq Conflict
    BY ReviewFacts, ConflictFacts
<1>2. /\ Summary(j) \in Preview /\ ~Summary(j).sent
      /\ Summary(j).review = Review(jobs[j].snap, jobs[j].seen)
      /\ Summary(j).conflicts = Conflicts(jobs[j].snap, jobs[j].seen)
    BY <1>1 DEF Summary, Preview
<1> QED
    BY <1>2, ReviewFacts, ConflictFacts DEF PreviewOK, Once

\* A step of a refresh keeps the types.
LEMMA RefreshType ==
    ASSUME TypeOK, JobsOK, NEW j \in JobIds, RefreshStep(j)
    PROVE  TypeOK'
<1> USE DEF google, table, view, ghosts, app
<1>1. CASE ReadPage(j)
    <2>1. jobs' \in [JobIds -> Job \cup {NoJob}]
        <3>1. jobs[j] \in Job /\ PageRead(j) \in [Events -> Nat] /\ jobs[j].at \in Events
            BY <1>1, PageFacts
        <3>2. 1 \in 1..N+1 /\ (jobs[j].at < N => jobs[j].at + 1 \in 1..N+1)
            BY <3>1, Constants DEF Events
        <3>3. CASE Ended(j)
            BY <3>3, JobTypes
        <3>4. CASE jobs[j].at < N /\ jobs' = [jobs EXCEPT ![j].seen = PageRead(j), ![j].at = jobs[j].at + 1]
            BY <3>1, <3>2, <3>4, PageType
        <3>5. CASE jobs' = [jobs EXCEPT ![j].seen = PageRead(j), ![j].at = 1, ![j].pc = "apply"]
            BY <3>1, <3>2, <3>5, PageType
        <3> QED
            BY <1>1, <3>3, <3>4, <3>5, PageFacts
    <2>2. kind' \in Kinds
        BY <1>1 DEF ReadPage, TypeOK, Fail, Kinds
    <2> QED
        BY <1>1, <2>1, <2>2 DEF ReadPage, TypeOK
<1>2. CASE SpentConnection(j)
    <2>1. jobs' \in [JobIds -> Job \cup {NoJob}]
        BY <1>2, JobTypes DEF SpentConnection
    <2>2. delegated' \in 0..2 /\ connections' \in 0..2 /\ left' \in Nat
        BY <1>2, SpendType DEF SpentConnection, TypeOK
    <2>3. kind' \in Kinds
        BY <1>2 DEF SpentConnection, Fail, TypeOK, Kinds
    <2> QED
        BY <1>2, <2>1, <2>2, <2>3 DEF SpentConnection, TypeOK
<1>3. CASE RefreshFails(j)
    BY <1>3, JobTypes, SpendType DEF RefreshFails, Fail, TypeOK, Kinds
<1>4. CASE ApplyChange(j)
    <2>1. jobs' \in [JobIds -> Job \cup {NoJob}]
        <3>1. jobs[j] \in Job /\ jobs[j].at + 1 \in 1..N+1 /\ jobs[j].seen \in [Events -> Nat]
              /\ jobs' = [jobs EXCEPT ![j].at = jobs[j].at + 1]
            BY <1>4, ApplyFacts, Constants DEF Events, Job
        <3> QED
            BY <3>1, PageType
    <2>2. rows' \in Table /\ madeFor' \in [RowIds -> 0..N]
        <3> DEFINE made == Made(jobs[j], jobs[j].at)
                   old == RowOf(jobs[j].snap, jobs[j].at)
        <3>1. \/ UNCHANGED <<rows, madeFor>>
              \/ /\ made \in Row
                 /\ \E r \in RowIds : /\ rows' = [rows EXCEPT ![r] = made]
                                     /\ madeFor' = [madeFor EXCEPT ![r] = jobs[j].at]
              \/ made \in Row /\ old \in RowIds /\ rows' = [rows EXCEPT ![old] = made] /\ UNCHANGED madeFor
            BY <1>4, ApplyFacts, RowOfIn
        <3>2. jobs[j].at \in 0..N
            BY <1>4, ApplyFacts, Constants
        <3> HIDE DEF made, old
        <3> QED
            BY <3>1, <3>2 DEF TypeOK, Table
    <2> QED
        BY <1>4, <2>1, <2>2 DEF ApplyChange, TypeOK
<1>5. CASE FinishRefresh(j)
    <2>1. jobs[j] \in Job /\ JobOK(jobs[j]) /\ jobs[j].pc = "apply"
        BY <1>5, JobKinds DEF FinishRefresh, JobsOK, Running
    <2>2. last' \in Preview
        BY <1>5, <2>1, SummaryFacts DEF FinishRefresh
    <2>3. saved' \in [SaveIds -> Save]
        BY <1>5, SaveTypes DEF FinishRefresh
    <2>4. jobs' \in [JobIds -> Job \cup {NoJob}]
        <3>1. 1 \in 1..N+1 /\ jobs[j].seen \in [Events -> Nat]
            BY <2>1, Constants DEF Job
        <3>2. [jobs EXCEPT ![j].pc = "reload"] \in [JobIds -> Job \cup {NoJob}]
            BY <2>1, <3>1, PageType
        <3> QED
            BY <1>5, <3>2 DEF FinishRefresh
    <2> QED
        BY <1>5, <2>2, <2>3, <2>4 DEF FinishRefresh, TypeOK
<1>6. CASE Reloaded(j)
    <2>1. jobs[j] \in Job /\ JobOK(jobs[j]) /\ jobs[j].pc = "reload"
        BY <1>6, JobKinds DEF Reloaded, JobsOK, Running
    <2>2. offer' \in Preview
        BY <1>6, <2>1, SummaryFacts DEF Reloaded
    <2>3. kind' \in Kinds /\ jobs' \in [JobIds -> Job \cup {NoJob}]
        BY <1>6, JobTypes DEF Reloaded, Kinds
    <2> QED
        BY <1>6, <2>2, <2>3 DEF Reloaded, TypeOK
<1> QED
    BY <1>1, <1>2, <1>3, <1>4, <1>5, <1>6 DEF RefreshStep

\* An edit that Google accepts leads from what was reviewed to what was
\* reviewed.
LEMMA PatchFacts ==
    ASSUME TypeOK, SendingOK, Sends, Matches(First)
    PROVE  /\ First \in sending.queue /\ First \in Edit /\ EditOK(First)
           /\ First.remote = Current(First.event) /\ Patched(First) = First.desired
           /\ versions[First.event] \in Seq(ValidValues)
<1>1. First \in sending.queue /\ First \in Edit /\ EditOK(First)
    BY FirstIn DEF TypeOK, Sends, SendingOK, PreviewOK
<1>2. First.etag = Len(versions[First.event]) /\ versions[First.event] \in Seq(ValidValues)
    BY <1>1 DEF Matches, IfMatch, TypeOK, Edit
<1>3. First.remote = Current(First.event)
    BY <1>1, <1>2 DEF EditOK, Was, Current
<1>4. First.desired \in Values /\ First.remote \in Values
    BY <1>1, Constants DEF Edit
<1>5. First.desired = [f \in Fields |-> First.desired[f]]
    BY <1>4 DEF Values
<1>6. \A f \in Fields : (IF First.desired[f] # First.remote[f] THEN First.desired[f]
                         ELSE Current(First.event)[f]) = First.desired[f]
    BY <1>3
<1>7. Patched(First) = First.desired
    BY <1>5, <1>6 DEF Patched
<1> QED
    BY <1>1, <1>2, <1>3, <1>7

\* Google's history grows by one value of one event, or not at all.
LEMMA AppendType ==
    ASSUME TypeOK, NEW e \in Events, NEW v \in ValidValues, versions' = [versions EXCEPT ![e] = Append(@, v)]
    PROVE  versions' \in [Events -> Seq(ValidValues)]
BY DEF TypeOK

\* A step of a send keeps the types.
LEMMA SendType ==
    ASSUME TypeOK, LastOK, SendingOK, Send \/ SendStep
    PROVE  TypeOK'
<1> USE DEF google, table, view, ghosts, app
<1>1. sending \in Sending
    BY DEF TypeOK
<1>2. Advance => sending' \in Sending
    BY <1>1 DEF Advance, Sending
<1>3. CASE Send
    <2>1. offer \in Preview
        BY <1>3 DEF Send, CanSend, TypeOK, LastOK
    <2>2. sending' \in Sending
        BY <1>3, <2>1 DEF Send, Sending, Preview
    <2> QED
        BY <1>3, <2>2 DEF Send, TypeOK, Kinds
<1>4. ASSUME Sends, Matches(First), Patch(First)
      PROVE  /\ First.event \in Events /\ versions' \in [Events -> Seq(ValidValues)]
             /\ Len(versions'[First.event]) \in Nat
    <2>1. Patched(First) \in ValidValues /\ First.event \in Events
        BY <1>4, PatchFacts DEF Edit
    <2>2. versions' \in [Events -> Seq(ValidValues)]
        BY <1>4, <2>1, AppendType DEF Patch
    <2> QED
        BY <2>1, <2>2
<1>10. CASE LayoutRead
    <2>1. sending' \in Sending
        <3>1. NotSending \in Sending /\ [sending EXCEPT !.pc = "patch"] \in Sending
            BY <1>1 DEF NotSending, Sending
        <3> QED
            BY <1>10, <3>1 DEF LayoutRead
    <2>2. kind' \in Kinds /\ left' \in Nat
        BY <1>10, SpendType DEF LayoutRead, Fail, TypeOK, Kinds
    <2> QED
        BY <1>10, <2>1, <2>2 DEF LayoutRead, TypeOK
<1>5. CASE SendPatch
    <2>1. CASE /\ delegated > 0 /\ Matches(First) /\ Patch(First)
               /\ sending' = [sending EXCEPT !.pc = "confirm", !.etag = Len(versions'[First.event])]
        <3>1. sending' \in Sending
            BY <1>1, <1>4, <1>5, <2>1 DEF SendPatch, Sending
        <3> QED
            BY <1>4, <1>5, <2>1, <3>1 DEF SendPatch, TypeOK
    <2>2. CASE Advance /\ UNCHANGED versions
        BY <1>2, <1>5, <2>2 DEF SendPatch, TypeOK
    <2> QED
        BY <1>5, <2>1, <2>2 DEF SendPatch
<1>6. CASE SendRefused
    BY <1>2, <1>6, SpendType DEF SendRefused, TypeOK
<1>7. CASE SendLost
    <2>1. sending' \in Sending
        BY <1>1, <1>7 DEF SendLost, Sending
    <2>2. versions' \in [Events -> Seq(ValidValues)]
        BY <1>4, <1>7 DEF SendLost, TypeOK
    <2> QED
        BY <1>7, <2>1, <2>2, SpendType DEF SendLost, TypeOK
<1>8. CASE SendConfirm
    <2>1. First \in Edit /\ First.row \in RowIds /\ First.event \in Events
        BY <1>8, FirstIn DEF SendConfirm, SendingOK, TypeOK, Edit
    <2>2. Answer(First) \in ValidValues /\ sending.etag \in Nat
        BY <1>8, <2>1 DEF SendConfirm, SendingOK, TypeOK, Answer
    <2>3. rows' \in Table
        <3>1. CASE UNCHANGED rows
            BY <3>1 DEF TypeOK
        <3>2. CASE rows[First.row] # NoRow /\ rows' = [rows EXCEPT ![First.row].etag = sending.etag,
                                                                  ![First.row].base = Answer(First)]
            <4>1. rows[First.row] \in Row
                BY <2>1, <3>2 DEF TypeOK, Table
            <4>2. [rows[First.row] EXCEPT !.etag = sending.etag, !.base = Answer(First)] \in Row
                BY <2>2, <4>1 DEF Row
            <4>3. rows' = [rows EXCEPT ![First.row] =
                             [rows[First.row] EXCEPT !.etag = sending.etag, !.base = Answer(First)]]
                BY <2>1, <3>2 DEF TypeOK, Table
            <4> QED
                BY <2>1, <4>2, <4>3 DEF TypeOK, Table
        <3> QED
            BY <1>8, <3>1, <3>2 DEF SendConfirm
    <2>4. untracked' \subseteq RowIds
        BY <1>8, <2>1 DEF SendConfirm, Touched, TypeOK
    <2> QED
        BY <1>2, <1>8, <2>3, <2>4, SpendType DEF SendConfirm, TypeOK
<1>9. CASE SendEnd
    <2>1. last' \in Preview /\ offer' \in Preview \cup {None}
        <3>1. sending.conflicts \in SUBSET Conflict
            BY <1>1 DEF Sending
        <3>2. [review |-> {}, conflicts |-> sending.conflicts, sent |-> TRUE] \in Preview
            BY <3>1 DEF Preview
        <3> QED
            BY <1>9, <3>2 DEF SendEnd, TypeOK
    <2>2. sending' \in Sending
        <3>1. NotSending \in Sending /\ [NotSending EXCEPT !.pc = "wedged"] \in Sending
            BY DEF NotSending, Sending
        <3> QED
            BY <1>9, <3>1 DEF SendEnd
    <2>3. kind' \in Kinds
        BY <1>9 DEF SendEnd, TypeOK, Kinds
    <2>4. left' \in Nat
        BY <1>9, SpendType DEF SendEnd, TypeOK
    <2> QED
        BY <1>9, <2>1, <2>2, <2>3, <2>4 DEF SendEnd, TypeOK
<1> QED
    BY <1>3, <1>5, <1>6, <1>7, <1>8, <1>9, <1>10 DEF SendStep

\* What the person and the host's table make of a row.
LEMMA RowTypes ==
    ASSUME NEW row \in Row, NEW v \in Values, NEW b \in ValidValues, NEW k \in Nat
    PROVE  /\ Edited(row, v) \in Row /\ KeptAsLocal(row) \in Row
           /\ [row EXCEPT !.val = v, !.base = b, !.etag = k] \in Row
<1>1. 0 \in 0..N
    BY Constants
<1>2. Edited(row, v) \in Row
    BY DEF Edited, Row
<1>3. KeptAsLocal(row) \in Row
    BY <1>1 DEF KeptAsLocal, Row
<1>4. [row EXCEPT !.val = v, !.base = b, !.etag = k] \in Row
    BY DEF Row
<1> QED
    BY <1>2, <1>3, <1>4

\* One row written keeps the types of the table and of the ghost.
LEMMA WriteType ==
    ASSUME TypeOK, NEW r \in RowIds, NEW row \in Row \cup {NoRow}, NEW does \in {"edit", "discard", "settle"},
           NEW item \in Edit \cup Conflict \cup {None}, WriteRow(r, row, does, item), left' \in Nat
    PROVE  TypeOK'
<1>1. rows' \in Table
    BY DEF WriteRow, TypeOK, Table
<1>2. untracked' \subseteq RowIds
    BY DEF WriteRow, Touched, TypeOK
<1>3. saved' \in [SaveIds -> Save]
    <2>1. [does |-> does, row |-> r, item |-> item] \in Save
        BY DEF Save
    <2> QED
        BY <2>1, SaveTypes DEF WriteRow
<1> QED
    BY <1>1, <1>2, <1>3 DEF WriteRow, TypeOK, google, table, view, ghosts

\* A resolved conflict is a value, and its baseline Google's.
LEMMA ResolveFacts ==
    ASSUME TypeOK, NEW c \in Conflict, ConflictOK(c), c.kind = "both", NEW mine
    PROVE  c.row \in RowIds /\ c.remote \in ValidValues /\ c.etag \in Nat /\ MergeOf(c, mine) \in Values
<1>1. c.row \in RowIds /\ c.etag \in Nat /\ c.local \in Values /\ c.base \in Values
    BY Constants DEF Conflict
<1>2. c.remote \in ValidValues
    BY <1>1, Constants DEF ConflictOK, Was, TypeOK, Events
<1>3. \A f \in Fields : c.local[f] \in 0..Clock /\ c.remote[f] \in 0..Clock
    BY <1>1, <1>2, Constants DEF Values
<1> QED
    BY <1>1, <1>2, <1>3 DEF MergeOf, Values

PersonSteps ==
    \/ \E r \in RowIds, v \in ValidValues : SaveEvent(r, v)
    \/ \E p \in Reviewed : Discard(p)
    \/ last # None /\ \E c \in last.conflicts :
          KeepAsLocal(c) \/ RemoveLocal(c) \/ \E mine \in SUBSET Fields : Resolve(c, mine)

\* A preview loses entries.
Loses(P, Q) ==
    /\ P \in Preview /\ Q \in Preview /\ Q.sent = P.sent
    /\ Q.review \subseteq P.review /\ Q.conflicts \subseteq P.conflicts
\* An operation goes on once its row is stored.
SavedStep == \E i \in SaveIds : Saved(i)
LEMMA SavedSame ==
    ASSUME SavedStep
    PROVE  UNCHANGED <<versions, gone, delegated, rows, madeFor, onTable, kind, connections, calendar, jobs,
                       sending, asked, countdown, untracked, interrupted, left>>
BY DEF SavedStep, Saved, google, table, ghosts

\* What the person does in the app keeps the types.
LEMMA PersonType ==
    ASSUME TypeOK, LastOK, PersonSteps
    PROVE  TypeOK'
<1>1. last # None => last \in Preview
    BY DEF TypeOK
<1>2. ASSUME NEW r \in RowIds, rows[r] # NoRow PROVE rows[r] \in Row
    BY <1>2 DEF TypeOK, Table
<1>3. ASSUME NEW r \in RowIds, NEW v \in ValidValues, SaveEvent(r, v) PROVE TypeOK'
    <2>1. rows[r] \in Row
        BY <1>2, <1>3 DEF SaveEvent, Bound
    <2>2. Edited(rows[r], v) \in Row
        BY <2>1, Constants DEF Edited, Row
    <2> QED
        BY <1>3, <2>2, WriteType, SpendType DEF SaveEvent
<1>4. ASSUME NEW p \in Reviewed, Discard(p) PROVE TypeOK'
    <2>1. p \in Edit /\ p.row \in RowIds /\ p.remote \in ValidValues /\ p.remote \in Values /\ p.etag \in Nat
        BY <1>4, ReviewedFacts, Constants
    <2>2. rows[p.row] \in Row
        BY <1>2, <1>4, <2>1 DEF Discard
    <2>3. Discarded(rows[p.row], p) \in Row
        BY <2>1, <2>2, RowTypes DEF Discarded
    <2> QED
        BY <1>4, <2>1, <2>3, WriteType, SpendType DEF Discard
<1>5. ASSUME last # None, NEW c \in last.conflicts PROVE c \in Conflict /\ c.row \in RowIds /\ ConflictOK(c)
    BY <1>1, <1>5 DEF Preview, Conflict, LastOK, PreviewOK
<1>6. UNCHANGED left => left' \in Nat
    BY DEF TypeOK
<1>7. ASSUME last # None, NEW c \in last.conflicts, KeepAsLocal(c) PROVE TypeOK'
    <2>1. KeptAsLocal(rows[c.row]) \in Row
        <3>1. rows[c.row] \in Row /\ 0 \in 0..N
            BY <1>2, <1>5, <1>7, Constants DEF KeepAsLocal
        <3> QED
            BY <3>1 DEF KeptAsLocal, Row
    <2> QED
        BY <1>5, <1>6, <1>7, <2>1, WriteType DEF KeepAsLocal
<1>8. ASSUME last # None, NEW c \in last.conflicts, RemoveLocal(c) PROVE TypeOK'
    BY <1>5, <1>6, <1>8, WriteType DEF RemoveLocal
<1>9. ASSUME last # None, NEW c \in last.conflicts, NEW mine, Resolve(c, mine) PROVE TypeOK'
    <2>1. /\ rows[c.row] \in Row /\ MergeOf(c, mine) \in Values /\ c.remote \in ValidValues /\ c.etag \in Nat
          /\ WriteRow(c.row, Resolved(rows[c.row], c, mine), "settle", c) /\ UNCHANGED left
        BY <1>2, <1>5, <1>9, ResolveFacts DEF Resolve
    <2>2. Resolved(rows[c.row], c, mine) \in Row
        BY <2>1, RowTypes DEF Resolved
    <2> QED
        BY <1>5, <1>6, <1>9, <2>1, <2>2, WriteType
<1> QED
    BY <1>3, <1>4, <1>7, <1>8, <1>9 DEF PersonSteps

\* So does an operation that goes on; what it drops is dropped from what was shown.
LEMMA SavedFacts ==
    ASSUME TypeOK, NEW i \in SaveIds, Saved(i)
    PROVE  /\ TypeOK' /\ saved' = [saved EXCEPT ![i] = NoSave] /\ saved[i] \in Save
           /\ UNCHANGED <<google, table, kind, connections, calendar, jobs, sending, asked, ghosts, left>>
           /\ UNCHANGED last \/ Loses(last, last')
           /\ UNCHANGED offer \/ (offer' = last' /\ last # None)
<1>1. saved[i] \in Save /\ saved' \in [SaveIds -> Save]
    BY SaveTypes DEF Saved
<1>2. last # None => last \in Preview
    BY DEF TypeOK
<1>3. ASSUME last # None, NEW X PROVE Loses(last, [last EXCEPT !.review = @ \ X]) /\ Loses(last, [last EXCEPT !.conflicts = @ \ X])
    BY <1>2, <1>3 DEF Loses, Preview
<1>4. UNCHANGED last \/ Loses(last, last')
    BY <1>3 DEF Saved, Dropped
<1>5. UNCHANGED offer \/ (offer' = last' /\ last # None)
    BY DEF Saved
<1>6. last' \in Preview \cup {None} /\ offer' \in Preview \cup {None} /\ stale' \in BOOLEAN
    BY <1>4, <1>5 DEF Saved, Outdate, Loses, TypeOK
<1>7. UNCHANGED <<google, table, kind, connections, calendar, jobs, sending, asked, countdown, ghosts, left>>
    BY DEF Saved
<1> QED
    BY <1>1, <1>4, <1>5, <1>6, <1>7 DEF Saved, TypeOK, google, table, ghosts

\* Edits outside the app.
OutsideSteps ==
    (\E r \in RowIds : HostEdit(r)) \/ (\E e \in Events : GoogleEdit(e) \/ GoogleCancel(e))
\* Edits in the host's table and in Google keep the types.
LEMMA OutsideType ==
    ASSUME TypeOK, OutsideSteps
    PROVE  TypeOK'
<1> USE DEF google, table, view, ghosts, app
<1>1. ASSUME NEW r \in RowIds, HostEdit(r) PROVE TypeOK'
    <2>1. rows[r] \in Row
        BY <1>1 DEF HostEdit, Bound, TypeOK, Table
    <2>2. \A v \in EditsOf(rows[r].val) : v \in Values
        BY <2>1 DEF EditsOf, Row, Values
    <2>3. rows' \in Table
        <3>1. CASE rows' = [rows EXCEPT ![r] = NoRow]
            BY <3>1 DEF TypeOK, Table
        <3>2. ASSUME NEW v \in EditsOf(rows[r].val), rows' = [rows EXCEPT ![r].val = v] PROVE rows' \in Table
            <4>1. rows' = [rows EXCEPT ![r] = Edited(rows[r], v)]
                BY <3>2 DEF Edited, TypeOK, Table
            <4>2. Edited(rows[r], v) \in Row
                BY <2>1, <2>2, <3>2 DEF Edited, Row
            <4> QED
                BY <4>1, <4>2 DEF TypeOK, Table
        <3> QED
            BY <1>1, <3>1, <3>2 DEF HostEdit
    <2> QED
        BY <1>1, <2>3, SpendType DEF HostEdit, TypeOK
<1>2. ASSUME NEW e \in Events, GoogleEdit(e) PROVE TypeOK'
    BY <1>2, AppendType, SpendType DEF GoogleEdit, TypeOK
<1>3. ASSUME NEW e \in Events, GoogleCancel(e) PROVE TypeOK'
    BY <1>3, SpendType DEF GoogleCancel, TypeOK
<1> QED
    BY <1>1, <1>2, <1>3 DEF OutsideSteps

\* Every step is of one of these kinds.
LEMMA Steps ==
    ASSUME [Next]_vars
    PROVE  \/ ConnectSteps \/ PersonSteps \/ SavedStep \/ OutsideSteps \/ Send \/ SendStep
           \/ (\E j \in JobIds : RefreshStep(j)) \/ UNCHANGED vars
BY DEF Next, ConnectSteps, PersonSteps, SavedStep, OutsideSteps, Person, ConnectStep

\* Every step keeps the types.
LEMMA TypeStep ==
    ASSUME TypeOK, JobsOK, LastOK, SendingOK, [Next]_vars
    PROVE  TypeOK'
<1>1. CASE UNCHANGED vars
    BY <1>1 DEF vars, google, table, view, ghosts, app, TypeOK
<1> QED
    BY <1>1, Steps, ConnectType, PersonType, SavedFacts, OutsideType, SendType, RefreshType DEF SavedStep

-----------------------------------------------------------------------------
(* History. *)

\* Google's history only grows, and a subject keeps the event it was drawn for.
LEMMA GrowsStep ==
    ASSUME TypeOK, JobsOK, SendingOK, [Next]_vars
    PROVE  Grows
<1> USE DEF google, table, view, ghosts, app
<1>1. \A e \in Events : versions[e] \in Seq(ValidValues) /\ Len(versions[e]) \in Nat
    BY DEF TypeOK
<1>2. UNCHANGED versions \/ \E e \in Events, v \in ValidValues : versions' = [versions EXCEPT ![e] = Append(@, v)]
    <2>1. ASSUME Sends, Matches(First), Patch(First)
          PROVE  \E e \in Events, v \in ValidValues : versions' = [versions EXCEPT ![e] = Append(@, v)]
        BY <2>1, PatchFacts DEF Patch, Edit
    <2>2. CASE SendPatch \/ SendLost
        BY <2>1, <2>2 DEF SendPatch, SendLost
    <2>3. CASE Send \/ LayoutRead \/ SendRefused \/ SendConfirm \/ SendEnd \/ SavedStep \/ UNCHANGED vars
        BY <2>3, SavedSame DEF Send, LayoutRead, SendRefused, SendConfirm, SendEnd, vars
    <2>4. CASE ConnectSteps
        BY <2>4 DEF ConnectSteps, Load, Listed, Choose, Connect, Connected, ConnectFails, CancelConnect,
                    Disconnect, Refresh, Retry, Reload
    <2>5. CASE PersonSteps
        BY <2>5 DEF PersonSteps, SaveEvent, Discard, Resolve, KeepAsLocal, RemoveLocal, WriteRow
    <2>6. CASE OutsideSteps
        BY <2>6 DEF OutsideSteps, HostEdit, GoogleEdit, GoogleCancel
    <2>7. CASE \E j \in JobIds : RefreshStep(j)
        BY <2>7 DEF RefreshStep, ReadPage, SpentConnection, RefreshFails, ApplyChange, FinishRefresh, Reloaded
    <2> QED
        BY <2>2, <2>3, <2>4, <2>5, <2>6, <2>7, Steps DEF SendStep
<1>3. \A e \in Events :
         /\ Len(versions'[e]) \in Nat /\ Len(versions[e]) <= Len(versions'[e])
         /\ \A k \in 1..Len(versions[e]) : versions'[e][k] = versions[e][k]
    <2>1. CASE UNCHANGED versions
        BY <1>1, <2>1
    <2>2. ASSUME NEW x \in Events, NEW v \in ValidValues, versions' = [versions EXCEPT ![x] = Append(@, v)],
                 NEW e \in Events
          PROVE  /\ Len(versions'[e]) \in Nat /\ Len(versions[e]) <= Len(versions'[e])
                 /\ \A k \in 1..Len(versions[e]) : versions'[e][k] = versions[e][k]
        <3>1. CASE e # x
            BY <1>1, <2>2, <3>1 DEF TypeOK
        <3>2. CASE e = x
            <4>1. versions'[e] = Append(versions[e], v)
                BY <2>2, <3>2 DEF TypeOK
            <4> QED
                BY <1>1, <4>1
        <3> QED
            BY <3>1, <3>2
    <2> QED
        BY <1>2, <2>1, <2>2
<1>4. \A r \in RowIds : madeFor[r] # 0 => madeFor'[r] = madeFor[r]
    <2>1. UNCHANGED madeFor \/ \E j \in JobIds : ApplyChange(j)
        <3>1. CASE Send \/ SendStep \/ SavedStep \/ UNCHANGED vars
            BY <3>1, SavedSame DEF Send, SendStep, LayoutRead, SendPatch, SendRefused, SendLost, SendConfirm, SendEnd, vars
        <3>2. CASE ConnectSteps
            BY <3>2 DEF ConnectSteps, Load, Listed, Choose, Connect, Connected, ConnectFails, CancelConnect,
                        Disconnect, Refresh, Retry, Reload
        <3>3. CASE PersonSteps
            BY <3>3 DEF PersonSteps, SaveEvent, Discard, Resolve, KeepAsLocal, RemoveLocal, WriteRow
        <3>4. CASE OutsideSteps
            BY <3>4 DEF OutsideSteps, HostEdit, GoogleEdit, GoogleCancel
        <3>5. CASE \E j \in JobIds : RefreshStep(j)
            BY <3>5 DEF RefreshStep, ReadPage, SpentConnection, RefreshFails, FinishRefresh, Reloaded
        <3> QED
            BY <3>1, <3>2, <3>3, <3>4, <3>5, Steps
    <2>2. ASSUME NEW j \in JobIds, ApplyChange(j)
          PROVE  UNCHANGED madeFor \/ \E r \in RowIds : madeFor[r] = 0 /\ madeFor' = [madeFor EXCEPT ![r] = jobs[j].at]
        BY <2>2, ApplyFacts
    <2> QED
        BY <2>1, <2>2 DEF TypeOK
<1> QED
    BY <1>1, <1>3, <1>4 DEF Grows

\* Only a row that is genuine is ever written.
RowWritten(r, row) ==
    /\ rows' = [rows EXCEPT ![r] = row]
    /\ row # NoRow /\ row.event # 0 => madeFor'[r] = row.event /\ Was(row.event, row.etag, row.base)

\* A row keeps its event and gets a baseline that is good for its subject.
LEMMA Rebased ==
    ASSUME TypeOK, Genuine(rows), NEW r \in RowIds, NEW row, rows' = [rows EXCEPT ![r] = row],
           rows[r] # NoRow, row.event = rows[r].event, UNCHANGED madeFor,
           (row.etag = rows[r].etag /\ row.base = rows[r].base) \/ Was(madeFor[r], row.etag, row.base)
    PROVE  RowWritten(r, row)
BY DEF RowWritten, Genuine, Bound

\* A step that keeps every bound row's baseline, or replaces it by one Google had,
\* keeps the table genuine.
LEMMA GenuineStep ==
    ASSUME TypeOK, Grows, Genuine(rows),
           UNCHANGED rows \/ \E r \in RowIds, row \in Row \cup {NoRow} : RowWritten(r, row)
    PROVE  Genuine(rows)'
<1>0. rows \in Table
    BY DEF TypeOK
<1>1. CASE UNCHANGED rows
    BY <1>0, <1>1, GenuineLater DEF Genuine, Bound, Was
<1>2. ASSUME NEW r \in RowIds, NEW row \in Row \cup {NoRow}, RowWritten(r, row) PROVE Genuine(rows)'
    <2> SUFFICES ASSUME NEW x \in RowIds, Bound(rows', x)
                 PROVE  madeFor'[x] = rows'[x].event /\ Was(rows[x].event, rows[x].etag, rows[x].base)'
        BY DEF Genuine, Bound
    <2>1. CASE x # r
        <3>1. rows'[x] = rows[x]
            BY <1>0, <1>2, <2>1 DEF RowWritten, Table
        <3>2. /\ Bound(rows, x) /\ madeFor[x] = rows[x].event /\ rows[x].event # 0
              /\ Was(rows[x].event, rows[x].etag, rows[x].base)
            BY <3>1 DEF Genuine, Bound
        <3>3. rows[x].event \in Events
            BY <1>0, <3>2 DEF Table, Row, Events, Bound
        <3> QED
            BY <3>1, <3>2, <3>3 DEF Was, Grows
    <2>2. CASE x = r
        <3>1. rows'[x] = row
            BY <1>0, <1>2, <2>2 DEF RowWritten, Table
        <3>2. row \in Row /\ row # NoRow /\ row.event # 0
            BY <3>1 DEF Bound
        <3>3. row.event \in Events /\ madeFor'[r] = row.event /\ Was(row.event, row.etag, row.base)
            BY <1>2, <3>2 DEF RowWritten, Row, Events
        <3> QED
            BY <2>2, <3>1, <3>3 DEF Was, Grows
    <2> QED
        BY <2>1, <2>2
<1> QED
    BY <1>1, <1>2

\* Google's answer to an accepted edit is stored in the row it was made from.
Confirmed(row) == [row EXCEPT !.etag = sending.etag, !.base = Answer(First)]
\* A confirmed send changes the row of its edit, or none.
LEMMA ConfirmFacts ==
    ASSUME TypeOK, SendingOK, SendConfirm
    PROVE  /\ First \in sending.queue /\ First \in Edit /\ First.row \in RowIds /\ First.event \in Events
           /\ madeFor[First.row] = First.event /\ Was(First.event, sending.etag, Answer(First))
           /\ UNCHANGED rows \/ (/\ rows[First.row] \in Row /\ rows[First.row] # NoRow
                                 /\ Confirmed(rows[First.row]) \in Row
                                 /\ rows' = [rows EXCEPT ![First.row] = Confirmed(rows[First.row])])
<1>1. First \in sending.queue /\ First \in Edit /\ First.row \in RowIds /\ First.event \in Events
    BY FirstIn DEF SendConfirm, SendingOK, TypeOK, Edit
<1>2. madeFor[First.row] = First.event
    BY <1>1 DEF SendingOK, PreviewOK, EditOK
<1>3. Was(First.event, sending.etag, Answer(First))
    BY <1>1 DEF SendConfirm, SendingOK, Answer, Was
<1>4. Answer(First) \in ValidValues /\ sending.etag \in Nat
    BY <1>1, <1>3 DEF Was, TypeOK
<1>5. ASSUME rows[First.row] # NoRow PROVE rows[First.row] \in Row /\ Confirmed(rows[First.row]) \in Row
    BY <1>1, <1>4, <1>5 DEF TypeOK, Table, Row, Confirmed
<1>6. rows[First.row] # NoRow /\ rows' = [rows EXCEPT ![First.row].etag = sending.etag,
                                                     ![First.row].base = Answer(First)]
        => rows' = [rows EXCEPT ![First.row] = Confirmed(rows[First.row])]
    BY <1>1, <1>5 DEF TypeOK, Table, Confirmed
<1> QED
    BY <1>1, <1>2, <1>3, <1>5, <1>6 DEF SendConfirm

\* Which steps write a row, and that what they write is genuine.
LEMMA RowsStep ==
    ASSUME TypeOK, History, [Next]_vars
    PROVE  UNCHANGED rows \/ \E r \in RowIds, row \in Row \cup {NoRow} : RowWritten(r, row)
<1> DEFINE G == UNCHANGED rows \/ \E r \in RowIds, row \in Row \cup {NoRow} : RowWritten(r, row)
<1> SUFFICES G
    OBVIOUS
<1> USE DEF google, table, view, ghosts, app
<1>0. /\ Genuine(rows) /\ JobsOK /\ LastOK /\ SendingOK
      /\ \A r \in RowIds : rows[r] # NoRow => rows[r] \in Row
    BY DEF History, TypeOK, Table
<1>1. ASSUME NEW j \in JobIds, ApplyChange(j) PROVE G
    <2> DEFINE q == jobs[j]
               e == q.at
    <2>1. q \in Job /\ JobOK(q) /\ e \in Events
        BY <1>0, <1>1, ApplyFacts
    <2>2. CASE UNCHANGED rows
        BY <2>2
    <2>3. ASSUME e \in Applied(q.snap, q.seen), RowsOf(q.snap, e) = {}, NEW r \in RowIds,
                 rows' = [rows EXCEPT ![r] = Made(q, e)], madeFor' = [madeFor EXCEPT ![r] = e]
          PROVE  G
        <3>1. Made(q, e) \in Row /\ Made(q, e).event = e /\ Was(e, Made(q, e).etag, Made(q, e).base)
            BY <2>1, <2>3, AppliedRead, MadeFacts
        <3>2. madeFor'[r] = e
            BY <2>3 DEF TypeOK
        <3> QED
            BY <2>3, <3>1, <3>2 DEF RowWritten
    <2>4. ASSUME e \in Applied(q.snap, q.seen), RowsOf(q.snap, e) # {}, UNCHANGED madeFor,
                 rows' = [rows EXCEPT ![RowOf(q.snap, e)] = Made(q, e)]
          PROVE  G
        <3>1. Made(q, e) \in Row /\ Made(q, e).event = e /\ Was(e, Made(q, e).etag, Made(q, e).base)
            BY <2>1, <2>4, AppliedRead, MadeFacts
        <3>2. RowOf(q.snap, e) \in RowIds /\ madeFor[RowOf(q.snap, e)] = e
            BY <2>1, <2>4, RowOfIn, SnapRow
        <3> QED
            BY <2>4, <3>1, <3>2 DEF RowWritten
    <2> HIDE DEF G, q, e
    <2> QED
        BY <1>0, <1>1, <2>2, <2>3, <2>4, ApplyFacts DEF q, e
<1>2. CASE SendConfirm
    <2>1. CASE UNCHANGED rows
        BY <2>1
    <2>2. CASE /\ rows[First.row] \in Row /\ rows[First.row] # NoRow
               /\ Confirmed(rows[First.row]) \in Row
               /\ rows' = [rows EXCEPT ![First.row] = Confirmed(rows[First.row])]
        <3>1. /\ Confirmed(rows[First.row]).event = rows[First.row].event
              /\ Confirmed(rows[First.row]).etag = sending.etag
              /\ Confirmed(rows[First.row]).base = Answer(First)
            BY <2>2 DEF Confirmed, Row
        <3>2. /\ First.row \in RowIds /\ UNCHANGED madeFor
              /\ Was(madeFor[First.row], sending.etag, Answer(First))
            BY <1>0, <1>2, ConfirmFacts DEF SendConfirm
        <3>3. RowWritten(First.row, Confirmed(rows[First.row]))
            BY <1>0, <2>2, <3>1, <3>2, Rebased
        <3> QED
            BY <2>2, <3>2, <3>3
    <2> QED
        BY <1>0, <1>2, <2>1, <2>2, ConfirmFacts
<1>3. ASSUME NEW r \in RowIds, NEW v, rows' = [rows EXCEPT ![r] = Edited(rows[r], v)], v \in Values,
             rows[r] # NoRow, UNCHANGED madeFor
      PROVE  G
    <2>1. /\ Edited(rows[r], v) \in Row /\ Edited(rows[r], v).event = rows[r].event
          /\ Edited(rows[r], v).etag = rows[r].etag /\ Edited(rows[r], v).base = rows[r].base
        BY <1>0, <1>3 DEF Edited, Row
    <2> QED
        BY <1>0, <1>3, <2>1, Rebased
<1>4. ASSUME NEW r \in RowIds, rows' = [rows EXCEPT ![r] = NoRow] PROVE G
    BY <1>4 DEF RowWritten
<1>5. ASSUME NEW r \in RowIds, HostEdit(r) PROVE G
    <2>1. rows[r] \in Row /\ rows[r] # NoRow /\ UNCHANGED madeFor
        BY <1>0, <1>5 DEF HostEdit, Bound
    <2>2. \A v \in EditsOf(rows[r].val) : v \in Values
        BY <2>1 DEF EditsOf, Row, Values
    <2>3. \A v : rows' = [rows EXCEPT ![r].val = v] => rows' = [rows EXCEPT ![r] = Edited(rows[r], v)]
        BY DEF Edited, TypeOK, Table
    <2> HIDE DEF G
    <2> QED
        BY <1>3, <1>4, <1>5, <2>1, <2>2, <2>3 DEF HostEdit
<1>6. ASSUME NEW r \in RowIds, NEW v \in ValidValues, SaveEvent(r, v) PROVE G
    <2> HIDE DEF G
    <2> QED
        BY <1>3, <1>6, Constants DEF SaveEvent, WriteRow, Bound
<1>7. ASSUME NEW p \in Reviewed, Discard(p) PROVE G
    <2>1. p \in Edit /\ EditOK(p)
        BY <1>0, <1>7, ReviewedFacts
    <2>2. p.row \in RowIds /\ p.remote \in ValidValues /\ p.remote \in Values /\ p.etag \in Nat
        BY <2>1, Constants DEF Edit
    <2>3. rows[p.row] \in Row /\ rows[p.row] # NoRow
        BY <1>0, <1>7, <2>2 DEF Discard
    <2>4. /\ Discarded(rows[p.row], p) \in Row /\ Discarded(rows[p.row], p).event = rows[p.row].event
          /\ Discarded(rows[p.row], p).etag = p.etag /\ Discarded(rows[p.row], p).base = p.remote
        BY <2>2, <2>3 DEF Discarded, Row
    <2>5. Was(madeFor[p.row], p.etag, p.remote)
        BY <2>1 DEF EditOK
    <2>6. rows' = [rows EXCEPT ![p.row] = Discarded(rows[p.row], p)] /\ UNCHANGED madeFor
        BY <1>7 DEF Discard, WriteRow
    <2>7. RowWritten(p.row, Discarded(rows[p.row], p))
        BY <1>0, <2>2, <2>3, <2>4, <2>5, <2>6, Rebased
    <2> QED
        BY <2>2, <2>4, <2>7
<1>8. ASSUME last # None, NEW c \in last.conflicts PROVE c \in Conflict /\ c.row \in RowIds /\ ConflictOK(c)
    BY <1>0, <1>8 DEF TypeOK, Preview, Conflict, LastOK, PreviewOK
<1>9. ASSUME last # None, NEW c \in last.conflicts, NEW mine, Resolve(c, mine) PROVE G
    <2>1. c \in Conflict /\ ConflictOK(c) /\ c.row \in RowIds /\ c.kind = "both"
        BY <1>8, <1>9 DEF Resolve
    <2>2. c.remote \in ValidValues /\ c.etag \in Nat /\ MergeOf(c, mine) \in Values
        BY <2>1, ResolveFacts
    <2>3. rows[c.row] \in Row /\ rows[c.row] # NoRow
        BY <1>0, <1>9, <2>1 DEF Resolve
    <2> DEFINE row == Resolved(rows[c.row], c, mine)
    <2>4. row \in Row /\ row.event = rows[c.row].event /\ row.etag = c.etag /\ row.base = c.remote
        BY <2>2, <2>3 DEF Resolved, Row
    <2>5. Was(madeFor[c.row], c.etag, c.remote)
        BY <2>1 DEF ConflictOK
    <2>6. rows' = [rows EXCEPT ![c.row] = row] /\ UNCHANGED madeFor
        BY <1>9 DEF Resolve, WriteRow
    <2> HIDE DEF row
    <2>7. RowWritten(c.row, row)
        BY <1>0, <2>1, <2>3, <2>4, <2>5, <2>6, Rebased
    <2> QED
        BY <2>1, <2>4, <2>7
<1>10. ASSUME last # None, NEW c \in last.conflicts, KeepAsLocal(c) \/ RemoveLocal(c) PROVE G
    <2>1. CASE RemoveLocal(c)
        <3> HIDE DEF G
        <3> QED
            BY <1>4, <1>8, <1>10, <2>1 DEF RemoveLocal, WriteRow
    <2>2. CASE KeepAsLocal(c)
        <3>1. rows[c.row] \in Row /\ 0 \in 0..N
            BY <1>0, <1>8, <1>10, <2>2, Constants DEF KeepAsLocal
        <3>2. KeptAsLocal(rows[c.row]) \in Row /\ KeptAsLocal(rows[c.row]).event = 0
            BY <3>1 DEF KeptAsLocal, Row
        <3>3. rows' = [rows EXCEPT ![c.row] = KeptAsLocal(rows[c.row])]
            BY <2>2 DEF KeepAsLocal, WriteRow
        <3> QED
            BY <1>8, <1>10, <3>2, <3>3 DEF RowWritten
    <2> QED
        BY <1>10, <2>1, <2>2
<1>11. CASE PersonSteps
    <2> HIDE DEF G
    <2> QED
        BY <1>6, <1>7, <1>9, <1>10, <1>11 DEF PersonSteps
<1>12. CASE OutsideSteps
    <2> HIDE DEF G
    <2>1. ASSUME UNCHANGED rows PROVE G
        BY <2>1 DEF G
    <2> QED
        BY <1>5, <1>12, <2>1 DEF OutsideSteps, GoogleEdit, GoogleCancel
<1>13. CASE Send \/ SendStep \/ SavedStep \/ UNCHANGED vars
    <2>1. UNCHANGED rows \/ SendConfirm
        BY <1>13, SavedSame DEF Send, SendStep, LayoutRead, SendPatch, SendRefused, SendLost, SendEnd, vars
    <2> QED
        BY <1>2, <2>1
<1>14. CASE ConnectSteps
    BY <1>14 DEF ConnectSteps, Load, Listed, Choose, Connect, Connected, ConnectFails, CancelConnect,
                Disconnect, Refresh, Retry, Reload
<1>15. ASSUME NEW j \in JobIds, RefreshStep(j) PROVE G
    <2>1. UNCHANGED rows \/ ApplyChange(j)
        BY <1>15 DEF RefreshStep, ReadPage, SpentConnection, RefreshFails, FinishRefresh, Reloaded
    <2> QED
        BY <1>1, <2>1
<1> HIDE DEF G
<1> QED
    BY <1>11, <1>12, <1>13, <1>14, <1>15, Steps

\* A refresh starts with a genuine copy of the rows and nothing read.
LEMMA NewJobOK ==
    ASSUME TypeOK, Genuine(rows)
    PROVE  JobOK(NewJob) /\ NewJob \in Job
<1>1. NewJob \in Job
    BY Constants DEF NewJob, Job, TypeOK
<1>2. \A e \in Events : NewJob.seen[e] = 0 /\ Len(versions[e]) \in Nat
    BY DEF NewJob, TypeOK
<1>3. NewJob.pc = "scan" /\ NewJob.at = 1 /\ NewJob.snap = rows /\ 1 <= N
    BY CalendarAssumption DEF NewJob
<1> QED
    BY <1>1, <1>2, <1>3 DEF JobOK

\* How a step changes the refreshes.
JobMoves ==
    \/ UNCHANGED jobs
    \/ \E j \in JobIds : \/ jobs' = [jobs EXCEPT ![j] = NewJob]
                         \/ Ended(j)
                         \/ ReadPage(j) \/ ApplyChange(j) \/ FinishRefresh(j)
    \/ Reload
\* Every step is one of these for the refreshes.
LEMMA JobsMove ==
    ASSUME TypeOK, [Next]_vars
    PROVE  JobMoves
<1> USE DEF google, table, view, ghosts, app
<1>1. CASE Send \/ SendStep \/ SavedStep \/ UNCHANGED vars
    BY <1>1, SavedSame DEF Send, SendStep, LayoutRead, SendPatch, SendRefused, SendLost, SendConfirm, SendEnd,
                           vars, JobMoves
<1>2. CASE ConnectSteps
    BY <1>2 DEF ConnectSteps, Load, Listed, Choose, Connect, Connected, ConnectFails, CancelConnect,
                Disconnect, Refresh, Retry, Begin, LoadWith, JobMoves
<1>3. CASE PersonSteps
    BY <1>3 DEF PersonSteps, SaveEvent, Discard, Resolve, KeepAsLocal, RemoveLocal, WriteRow, JobMoves
<1>4. CASE OutsideSteps
    BY <1>4 DEF OutsideSteps, HostEdit, GoogleEdit, GoogleCancel, JobMoves
<1>5. CASE \E j \in JobIds : RefreshStep(j)
    BY <1>5 DEF RefreshStep, SpentConnection, RefreshFails, Reloaded, JobMoves
<1> QED
    BY <1>1, <1>2, <1>3, <1>4, <1>5, Steps

\* A page read and a change applied, job by job.
LEMMA PageMove ==
    ASSUME TypeOK, JobsOK, NEW j \in JobIds, ReadPage(j)
    PROVE  /\ \A i \in JobIds \ {j} : jobs'[i] = jobs[i]
           /\ \/ jobs'[j] = NoJob /\ kind' = "error"
              \/ /\ jobs'[j] \in Job /\ jobs'[j].snap = jobs[j].snap /\ jobs'[j].seen = PageRead(j)
                 /\ UNCHANGED kind
                 /\ \/ jobs'[j].pc = "scan" /\ jobs'[j].at <= N
                    \/ /\ jobs'[j].pc = "apply" /\ jobs'[j].at = 1
                       /\ ~PreviewFails(jobs[j].snap, PageRead(j))
<1>1. /\ jobs[j] \in Job /\ jobs[j].pc = "scan" /\ jobs[j].at \in Events /\ PageRead(j) \in [Events -> Nat]
      /\ DOMAIN jobs = JobIds
    BY PageFacts DEF TypeOK
<1>2. CASE Ended(j) /\ Fail
    BY <1>1, <1>2 DEF Ended, Fail
<1>3. CASE /\ jobs[j].at < N /\ UNCHANGED kind
           /\ jobs' = [jobs EXCEPT ![j].seen = PageRead(j), ![j].at = jobs[j].at + 1]
    <2>1. \A i \in JobIds \ {j} : jobs'[i] = jobs[i]
        BY <1>1, <1>3
    <2>2. jobs'[j] = [jobs[j] EXCEPT !.seen = PageRead(j), !.at = jobs[j].at + 1]
        BY <1>1, <1>3
    <2>3. jobs[j].at + 1 \in 1..N+1 /\ jobs[j].at + 1 <= N
        BY <1>1, <1>3, Constants DEF Events
    <2>4. /\ jobs'[j] \in Job /\ jobs'[j].snap = jobs[j].snap /\ jobs'[j].seen = PageRead(j)
          /\ jobs'[j].pc = jobs[j].pc /\ jobs'[j].at = jobs[j].at + 1
        BY <1>1, <2>2, <2>3 DEF Job
    <2> QED
        BY <1>1, <1>3, <2>1, <2>3, <2>4
<1>4. CASE /\ ~PreviewFails(jobs[j].snap, PageRead(j)) /\ UNCHANGED kind
           /\ jobs' = [jobs EXCEPT ![j].seen = PageRead(j), ![j].at = 1, ![j].pc = "apply"]
    <2>1. \A i \in JobIds \ {j} : jobs'[i] = jobs[i]
        BY <1>1, <1>4
    <2>2. jobs'[j] = [jobs[j] EXCEPT !.seen = PageRead(j), !.at = 1, !.pc = "apply"]
        BY <1>1, <1>4
    <2>3. 1 \in 1..N+1
        BY Constants
    <2>4. /\ jobs'[j] \in Job /\ jobs'[j].snap = jobs[j].snap /\ jobs'[j].seen = PageRead(j)
          /\ jobs'[j].pc = "apply" /\ jobs'[j].at = 1
        BY <1>1, <2>2, <2>3 DEF Job
    <2> QED
        BY <1>4, <2>1, <2>4
<1> QED
    BY <1>2, <1>3, <1>4, PageFacts

\* An applied change moves its refresh one event on, and no other.
LEMMA ApplyMove ==
    ASSUME TypeOK, JobsOK, NEW j \in JobIds, ApplyChange(j)
    PROVE  /\ \A i \in JobIds \ {j} : jobs'[i] = jobs[i]
           /\ jobs'[j] \in Job /\ jobs'[j].snap = jobs[j].snap /\ jobs'[j].seen = jobs[j].seen
           /\ jobs'[j].pc = "apply" /\ jobs'[j].at = jobs[j].at + 1
<1>1. /\ jobs[j] \in Job /\ jobs[j].pc = "apply" /\ jobs[j].at \in Events /\ DOMAIN jobs = JobIds
      /\ jobs' = [jobs EXCEPT ![j].at = jobs[j].at + 1]
    BY ApplyFacts DEF TypeOK
<1>2. jobs[j].at + 1 \in 1..N+1
    BY <1>1, Constants DEF Events
<1>3. jobs'[j] = [jobs[j] EXCEPT !.at = jobs[j].at + 1]
    BY <1>1
<1> QED
    BY <1>1, <1>2, <1>3 DEF Job

\* A refresh whose preview is in place has only its rows left to read again.
LEMMA FinishMove ==
    ASSUME TypeOK, JobsOK, NEW j \in JobIds, FinishRefresh(j)
    PROVE  /\ jobs[j] \in Job /\ JobOK(jobs[j]) /\ jobs[j].pc = "apply" /\ jobs[j].at = N + 1 /\ Running(j)
           /\ \A i \in JobIds \ {j} : jobs'[i] = jobs[i]
           /\ jobs'[j] \in Job /\ jobs'[j].snap = jobs[j].snap /\ jobs'[j].seen = jobs[j].seen
           /\ jobs'[j].pc = "reload"
           /\ last' = Summary(j) /\ UNCHANGED <<versions, rows, madeFor, kind, offer, untracked, interrupted>>
<1>1. jobs[j] \in Job /\ JobOK(jobs[j]) /\ jobs[j].pc = "apply" /\ jobs[j].at = N + 1 /\ Running(j)
    BY JobKinds DEF FinishRefresh, JobsOK, Running
<1>2. jobs' = [jobs EXCEPT ![j].pc = "reload"] /\ DOMAIN jobs = JobIds
    BY DEF FinishRefresh, TypeOK
<1>3. jobs'[j] = [jobs[j] EXCEPT !.pc = "reload"] /\ \A i \in JobIds \ {j} : jobs'[i] = jobs[i]
    BY <1>2
<1>4. /\ jobs'[j] \in Job /\ jobs'[j].snap = jobs[j].snap /\ jobs'[j].seen = jobs[j].seen
      /\ jobs'[j].pc = "reload"
    BY <1>1, <1>3 DEF Job
<1> QED
    BY <1>1, <1>3, <1>4 DEF FinishRefresh, google, table, ghosts

\* Every refresh under way stays consistent with the history.
LEMMA JobsStep ==
    ASSUME TypeOK, History, Grows, [Next]_vars
    PROVE  JobsOK'
<1>0. Genuine(rows) /\ JobsOK
    BY DEF History
<1>1. \A j \in JobIds : jobs[j] = NoJob \/ \E q \in Job : q = jobs[j] /\ JobOK(q)
    BY <1>0, JobKinds DEF JobsOK
<1>2. \A j \in JobIds : jobs'[j] = NoJob \/ \E q \in Job : q = jobs'[j] /\ JobOK(q)
    <2>1. CASE UNCHANGED jobs
        BY <1>1, <2>1
    <2>2. ASSUME NEW j \in JobIds, ReadPage(j)
          PROVE  \A i \in JobIds : jobs'[i] = NoJob \/ \E q \in Job : q = jobs'[i] /\ JobOK(q)
        <3>1. JobOK(jobs[j]) /\ \A e \in Events : PageRead(j)[e] <= Len(versions[e])
            BY <1>0, <2>2, PageFacts
        <3>2. jobs'[j] = NoJob \/ (jobs'[j] \in Job /\ JobOK(jobs'[j]))
            BY <1>0, <2>2, <3>1, PageMove DEF JobOK
        <3> QED
            BY <1>0, <1>1, <2>2, <3>2, PageMove
    <2>3. ASSUME NEW j \in JobIds, ApplyChange(j)
          PROVE  \A i \in JobIds : jobs'[i] = NoJob \/ \E q \in Job : q = jobs'[i] /\ JobOK(q)
        <3>1. JobOK(jobs[j]) /\ jobs[j].pc = "apply"
            BY <1>0, <2>3, ApplyFacts
        <3>2. jobs'[j] \in Job /\ JobOK(jobs'[j])
            BY <1>0, <2>3, <3>1, ApplyMove DEF JobOK
        <3> QED
            BY <1>0, <1>1, <2>3, <3>2, ApplyMove
    <2>6. ASSUME NEW j \in JobIds, FinishRefresh(j)
          PROVE  \A i \in JobIds : jobs'[i] = NoJob \/ \E q \in Job : q = jobs'[i] /\ JobOK(q)
        <3>1. JobOK(jobs[j]) /\ jobs[j].pc = "apply"
            BY <1>0, <2>6, FinishMove
        <3>2. jobs'[j] \in Job /\ JobOK(jobs'[j])
            BY <1>0, <2>6, <3>1, FinishMove DEF JobOK
        <3> QED
            BY <1>0, <1>1, <2>6, <3>2, FinishMove
    <2>4. CASE Reload
        BY <2>4 DEF Reload
    <2>5. ASSUME NEW j \in JobIds, Ended(j) \/ jobs' = [jobs EXCEPT ![j] = NewJob], NEW i \in JobIds
          PROVE  jobs'[i] = NoJob \/ \E q \in Job : q = jobs'[i] /\ JobOK(q)
        <3>1. jobs'[i] = jobs[i] \/ jobs'[i] = NoJob \/ jobs'[i] = NewJob
            BY <2>5 DEF Ended, TypeOK
        <3> QED
            BY <1>0, <1>1, <3>1, NewJobOK
    <2> QED
        BY <2>1, <2>2, <2>3, <2>4, <2>5, <2>6, JobsMove DEF JobMoves
<1>3. \A q \in Job : JobOK(q) => JobOK(q)'
    BY JobLater
<1> SUFFICES ASSUME NEW j \in JobIds, Running(j)' PROVE JobOK(jobs[j])'
    BY DEF JobsOK
<1>4. jobs'[j] # NoJob
    BY DEF Running, NoJob
<1>5. PICK q \in Job : q = jobs'[j] /\ JobOK(q)
    BY <1>2, <1>4
<1>6. JobOK(q)'
    BY <1>3, <1>5
<1> QED
    BY <1>5, <1>6 DEF JobOK, Genuine, Bound, PreviewFails, Was

\* A step that leaves both previews alone, and does not show the state as ready.
Quiet == UNCHANGED <<last, offer>> /\ (kind' = "ready" => kind = "ready")

\* What is shown: it is left alone, dropped, replaced by a new preview or by
\* what is left after a send, or loses an entry.
LEMMA LastMoves ==
    ASSUME TypeOK, [Next]_vars
    PROVE  \/ Quiet \/ Reload \/ SendEnd \/ SavedStep
           \/ \E j \in JobIds : FinishRefresh(j) \/ Reloaded(j)
<1> USE DEF google, table, view, ghosts, app
<1>1. CASE Send \/ SendStep \/ UNCHANGED vars
    BY <1>1 DEF Send, SendStep, LayoutRead, SendPatch, SendRefused, SendLost, SendConfirm, Fail, vars, Quiet
<1>2. CASE ConnectSteps
    <2>1. CASE Listed \/ Choose \/ Connect \/ ConnectFails \/ CancelConnect \/ Disconnect \/ Refresh \/ Retry
        BY <2>1 DEF Listed, Choose, Connect, ConnectFails, CancelConnect, Disconnect, Refresh, Retry, Begin,
                    Fail, Quiet
    <2>2. CASE Load \/ Connected
        BY <2>2 DEF Load, Connected, LoadWith, Begin, Quiet
    <2> QED
        BY <1>2, <2>1, <2>2 DEF ConnectSteps
<1>3. CASE PersonSteps
    BY <1>3 DEF PersonSteps, SaveEvent, Discard, Resolve, KeepAsLocal, RemoveLocal, WriteRow, Quiet
<1>4. CASE OutsideSteps
    BY <1>4 DEF OutsideSteps, HostEdit, GoogleEdit, GoogleCancel, Quiet
<1>5. CASE \E j \in JobIds : RefreshStep(j)
    BY <1>5 DEF RefreshStep, ReadPage, SpentConnection, RefreshFails, ApplyChange, Fail, Quiet
<1> QED
    BY <1>1, <1>2, <1>3, <1>4, <1>5, Steps

\* A preview that is true of the history and lists an event once.
GoodPreview(v) == v \in Preview /\ PreviewOK(v.review, v.conflicts) /\ Once(v.review)

\* A preview that lost entries is as good.
LEMMA LosesGood ==
    ASSUME NEW v, NEW w, Loses(v, w), GoodPreview(v)
    PROVE  GoodPreview(w)
BY DEF Loses, GoodPreview, PreviewOK, Once

\* So does what is shown, and an event stays listed once.
LEMMA LastStep ==
    ASSUME TypeOK, TypeOK', History, Grows, ListedOnce, [Next]_vars
    PROVE  LastOK' /\ ListedOnce'
<1>0. JobsOK /\ LastOK /\ SendingOK
    BY DEF History
<1>1. /\ last # None => GoodPreview(last)
      /\ offer # None => GoodPreview(offer)
      /\ kind = "ready" => offer # None
    BY <1>0 DEF LastOK, ListedOnce, TypeOK, GoodPreview
<1>2. /\ last' # None => GoodPreview(last')
      /\ offer' # None => GoodPreview(offer')
      /\ kind' = "ready" => offer' # None
    <2>1. CASE Quiet
        BY <1>1, <2>1 DEF Quiet
    <2>2. CASE Reload
        BY <2>2 DEF Reload
    <2>3. CASE SendEnd
        <3>1. last' \in Preview /\ last'.review = {} /\ last'.conflicts = sending.conflicts
            BY <2>3 DEF SendEnd, TypeOK, Sending, Preview
        <3>2. GoodPreview(last')
            BY <1>0, <3>1 DEF SendingOK, PreviewOK, Once, GoodPreview
        <3>3. last' # None
            BY <3>1, NoPreviewAssumption
        <3>4. offer' = last' \/ UNCHANGED <<offer, kind>>
            BY <2>3 DEF SendEnd
        <3> QED
            BY <1>1, <3>2, <3>3, <3>4
    <2>4. ASSUME NEW i \in SaveIds, Saved(i)
          PROVE  /\ last' # None => GoodPreview(last')
                 /\ offer' # None => GoodPreview(offer')
                 /\ kind' = "ready" => offer' # None
        <3>1. UNCHANGED kind
            BY <2>4 DEF Saved
        <3>2. last # None => GoodPreview(last') /\ last' # None
            <4>1. CASE UNCHANGED last
                BY <1>1, <4>1
            <4>2. CASE Loses(last, last')
                <5>1. last # None => GoodPreview(last')
                    BY <1>1, <4>2, LosesGood
                <5>2. last' \in Preview
                    BY <4>2 DEF Loses
                <5> QED
                    BY <5>1, <5>2, NoPreviewAssumption
            <4> QED
                BY <2>4, <4>1, <4>2, SavedFacts
        <3>3. last = None => last' = None
            BY <2>4 DEF Saved, Dropped
        <3>4. UNCHANGED offer \/ (offer' = last' /\ last # None)
            BY <2>4, SavedFacts
        <3> QED
            BY <1>1, <3>1, <3>2, <3>3, <3>4
    <2>5. ASSUME NEW j \in JobIds, FinishRefresh(j)
          PROVE  GoodPreview(last') /\ UNCHANGED <<offer, kind>>
        <3>1. GoodPreview(Summary(j))
            BY <1>0, <2>5, FinishMove, SummaryFacts DEF GoodPreview
        <3> QED
            BY <1>0, <2>5, <3>1, FinishMove
    <2>6. ASSUME NEW j \in JobIds, Reloaded(j)
          PROVE  GoodPreview(offer') /\ offer' # None /\ UNCHANGED last
        <3>1. jobs[j] \in Job /\ JobOK(jobs[j]) /\ jobs[j].pc = "reload"
            BY <1>0, <2>6, JobKinds DEF Reloaded, JobsOK, Running
        <3>2. GoodPreview(Summary(j)) /\ Summary(j) # None
            BY <3>1, SummaryFacts, NoPreviewAssumption DEF GoodPreview
        <3> QED
            BY <2>6, <3>2 DEF Reloaded
    <2> QED
        BY <1>1, <2>1, <2>2, <2>3, <2>4, <2>5, <2>6, LastMoves DEF SavedStep
<1>3. \A p \in Edit : EditOK(p) => EditOK(p)'
    BY EditLater
<1>4. \A c \in Conflict : ConflictOK(c) => ConflictOK(c)'
    BY ConflictLater
<1>5. \A v : GoodPreview(v) => (PreviewOK(v.review, v.conflicts)' /\ Once(v.review))
    BY <1>3, <1>4 DEF GoodPreview, PreviewOK, Preview
<1>6. LastOK'
    BY <1>2, <1>5 DEF LastOK, PreviewOK
<1> QED
    BY <1>2, <1>6 DEF ListedOnce, GoodPreview, Once

\* What a send has in hand.
LEMMA SendingStep ==
    ASSUME TypeOK, TypeOK', History, Grows, [Next]_vars
    PROVE  SendingOK'
<1> USE DEF google, table, view, ghosts, app
<1>0. LastOK /\ SendingOK /\ sending \in Sending
    BY DEF History, TypeOK
<1>1. \A p \in Edit : EditOK(p) => EditOK(p)'
    BY EditLater
<1>2. \A c \in Conflict : ConflictOK(c) => ConflictOK(c)'
    BY ConflictLater
<1>3. ASSUME sending'.pc # "confirm",
             \A p \in sending'.queue : EditOK(p), \A c \in sending'.conflicts : ConflictOK(c)
      PROVE  SendingOK'
    BY <1>1, <1>2, <1>3 DEF SendingOK, PreviewOK, TypeOK, Sending
<1>4. /\ \A p \in sending.queue : EditOK(p)
      /\ \A c \in sending.conflicts : ConflictOK(c)
    BY <1>0 DEF SendingOK, PreviewOK
<1>5. CASE UNCHANGED sending
    <2>1. /\ \A p \in sending'.queue : EditOK(p)'
          /\ \A c \in sending'.conflicts : ConflictOK(c)'
        BY <1>0, <1>1, <1>2, <1>4, <1>5 DEF Sending
    <2>2. First' = First
        BY <1>5 DEF First
    <2>3. sending.pc = "confirm" => First \in Edit
        BY <1>0, FirstIn DEF SendingOK
    <2>4. sending'.pc = "confirm" => sending'.queue # {} /\ sending'.etag \in 1..Len(versions'[First'.event])
        BY <1>0, <1>5, <2>2, <2>3 DEF SendingOK, Grows, Edit
    <2> QED
        BY <2>1, <2>4 DEF SendingOK, PreviewOK
<1>6. Advance => /\ sending'.pc = "patch" /\ sending'.queue \subseteq sending.queue
                 /\ sending'.conflicts = sending.conflicts
    BY <1>0 DEF Advance, Sending
<1>7. CASE Advance
    BY <1>3, <1>4, <1>6, <1>7
<1>8. CASE Send
    <2>1. sending'.pc = "layout" /\ sending'.queue = offer.review /\ sending'.conflicts = offer.conflicts
        BY <1>8 DEF Send
    <2>2. offer # None
        BY <1>0, <1>8 DEF Send, CanSend, LastOK
    <2> QED
        BY <1>0, <1>3, <2>1, <2>2 DEF LastOK, PreviewOK
<1>18. CASE LayoutRead
    <2>1. sending'.pc \in {"patch", "idle"} /\ sending'.queue \subseteq sending.queue
          /\ sending'.conflicts \subseteq sending.conflicts
        BY <1>0, <1>18 DEF LayoutRead, NotSending, Sending
    <2> QED
        BY <1>3, <1>4, <2>1
<1>9. ASSUME Sends, Matches(First), Patch(First),
             sending' = [sending EXCEPT !.pc = "confirm", !.etag = Len(versions'[First.event])]
      PROVE  SendingOK'
    <2>1. First \in Edit /\ First.event \in Events /\ versions[First.event] \in Seq(ValidValues) /\ sending.queue # {}
        BY <1>0, <1>9, PatchFacts DEF Edit, Sends
    <2>2. versions'[First.event] = Append(versions[First.event], Patched(First))
        BY <1>9, <2>1 DEF Patch, TypeOK
    <2>3. Len(versions'[First.event]) = Len(versions[First.event]) + 1 /\ Len(versions[First.event]) \in Nat
        BY <2>1, <2>2
    <2>4. /\ sending'.queue = sending.queue /\ sending'.conflicts = sending.conflicts
          /\ sending'.etag = Len(versions'[First.event]) /\ sending'.pc = "confirm"
        BY <1>0, <1>9 DEF Sending
    <2>5. First' = First
        BY <2>4 DEF First
    <2>6. sending'.queue # {} /\ sending'.etag \in 1..Len(versions'[First'.event])
        BY <2>1, <2>3, <2>4, <2>5
    <2>7. /\ \A p \in sending'.queue : EditOK(p)'
          /\ \A c \in sending'.conflicts : ConflictOK(c)'
        BY <1>0, <1>1, <1>2, <1>4, <2>4 DEF Sending
    <2> QED
        BY <2>6, <2>7 DEF SendingOK, PreviewOK
<1>10. CASE SendPatch
    BY <1>7, <1>9, <1>10 DEF SendPatch
<1>11. CASE SendLost
    <2>1. sending'.pc = "patch" /\ sending'.queue = sending.queue /\ sending'.conflicts = sending.conflicts
        BY <1>0, <1>11 DEF SendLost, Sends, Sending
    <2> QED
        BY <1>3, <1>4, <2>1
<1>12. CASE SendEnd \/ Reload
    <2>1. sending'.pc # "confirm" /\ sending'.queue = {} /\ sending'.conflicts = {}
        BY <1>12 DEF SendEnd, Reload, NotSending
    <2> QED
        BY <1>3, <2>1
<1>13. CASE SendRefused \/ SendConfirm \/ SavedStep \/ UNCHANGED vars
    BY <1>5, <1>7, <1>13, SavedSame DEF SendRefused, SendConfirm, vars
<1>14. CASE ConnectSteps
    BY <1>5, <1>12, <1>14 DEF ConnectSteps, Load, Listed, Choose, Connect, Connected, ConnectFails, CancelConnect,
                Disconnect, Refresh, Retry
<1>15. CASE PersonSteps
    BY <1>5, <1>15 DEF PersonSteps, SaveEvent, Discard, Resolve, KeepAsLocal, RemoveLocal, WriteRow
<1>16. CASE OutsideSteps
    BY <1>5, <1>16 DEF OutsideSteps, HostEdit, GoogleEdit, GoogleCancel
<1>17. CASE \E j \in JobIds : RefreshStep(j)
    BY <1>5, <1>17 DEF RefreshStep, ReadPage, SpentConnection, RefreshFails, ApplyChange, FinishRefresh, Reloaded
<1> QED
    BY <1>8, <1>10, <1>11, <1>12, <1>13, <1>14, <1>15, <1>16, <1>17, <1>18, Steps DEF SendStep

\* All of it together.
LEMMA HistoryStep ==
    ASSUME TypeOK, History, ListedOnce, [Next]_vars
    PROVE  TypeOK' /\ Grows /\ History' /\ ListedOnce'
<1>1. TypeOK' /\ Grows
    BY TypeStep, GrowsStep DEF History
<1>2. Genuine(rows)'
    BY <1>1, RowsStep, GenuineStep DEF History
<1>3. JobsOK' /\ LastOK' /\ SendingOK' /\ ListedOnce'
    BY <1>1, JobsStep, LastStep, SendingStep
<1> QED
    BY <1>1, <1>2, <1>3 DEF History

-----------------------------------------------------------------------------
(* One operation at a time. *)

\* Which refreshes run after a step that begins none.
LEMMA RunningKept ==
    ASSUME TypeOK, JobsOK, NEW i \in JobIds, Running(i)',
           UNCHANGED jobs \/ \E j \in JobIds : RefreshStep(j)
    PROVE  Running(i)
<1>1. CASE UNCHANGED jobs
    BY <1>1 DEF Running
<1>2. ASSUME NEW j \in JobIds, RefreshStep(j) PROVE Running(i)
    <2>1. Running(j)
        BY <1>2 DEF RefreshStep, ReadPage, SpentConnection, RefreshFails, ApplyChange, FinishRefresh, Reloaded, Running
    <2>2. i # j => jobs'[i] = jobs[i]
        <3>1. CASE ReadPage(j)
            BY <3>1, PageMove
        <3>2. CASE ApplyChange(j)
            BY <3>2, ApplyMove
        <3>3. CASE SpentConnection(j) \/ RefreshFails(j) \/ Reloaded(j)
            BY <3>3 DEF SpentConnection, RefreshFails, Reloaded, Ended, TypeOK
        <3>4. CASE FinishRefresh(j)
            BY <3>4, FinishMove
        <3> QED
            BY <1>2, <3>1, <3>2, <3>3, <3>4 DEF RefreshStep
    <2> QED
        BY <2>1, <2>2 DEF Running
<1> QED
    BY <1>1, <1>2

\* Starting one adds at most that one.
LEMMA BeginRuns ==
    ASSUME TypeOK, NEW c, Begin(c)
    PROVE  /\ ~c => UNCHANGED <<jobs, untracked>>
           /\ c => \E j \in JobIds :
                     /\ ~Running(j) /\ jobs' = [jobs EXCEPT ![j] = NewJob]
                     /\ \A i \in JobIds \ {j} : jobs'[i] = jobs[i]
                     /\ jobs'[j] = NewJob
                     /\ \A i \in JobIds : Running(i)' => Running(i) \/ i = j
                     /\ untracked' = IF \E i \in JobIds : Running(i) THEN untracked ELSE {}
BY DEF Begin, TypeOK, Running

\* A refresh that stops, or ends the controller's "refreshing", no longer runs.
LEMMA EndedStops ==
    ASSUME TypeOK, NEW j \in JobIds, Ended(j)
    PROVE  ~Running(j)' /\ \A i \in JobIds \ {j} : jobs'[i] = jobs[i]
BY DEF Ended, TypeOK, Running, NoJob

\* Every step keeps one operation at a time, unless it interrupts one.
LEMMA OneAtATimeStep ==
    ASSUME TypeOK, JobsOK, OneAtATime, [Next]_vars
    PROVE  OneAtATime'
<1> USE DEF google, table, view, ghosts, app
<1>1. CASE UNCHANGED vars \/ PersonSteps \/ SavedStep \/ OutsideSteps
    <2>1. UNCHANGED <<jobs, kind, calendar, asked, sending, interrupted>>
        BY <1>1, SavedSame DEF vars, PersonSteps, OutsideSteps, SaveEvent, Discard, Resolve, KeepAsLocal,
                    RemoveLocal, WriteRow, HostEdit, GoogleEdit, GoogleCancel
    <2> QED
        BY <2>1 DEF OneAtATime, Running
<1>2. CASE Send
    <2>1. \A j \in JobIds : Running(j)' = Running(j)
        BY <1>2 DEF Send, Running
    <2>2. /\ kind = "ready" /\ kind' = "sending" /\ sending'.pc = "layout"
          /\ UNCHANGED <<calendar, asked, interrupted>>
        BY <1>2 DEF Send, CanSend
    <2> QED
        BY <2>1, <2>2 DEF OneAtATime
<1>3. CASE SendPatch \/ SendRefused \/ SendLost \/ SendConfirm
    <2>1. \A j \in JobIds : Running(j)' = Running(j)
        BY <1>3 DEF SendPatch, SendRefused, SendLost, SendConfirm, Running
    <2>2. sending.pc \in {"patch", "confirm"} /\ UNCHANGED <<kind, calendar, asked, interrupted>>
        BY <1>3 DEF SendPatch, SendRefused, SendLost, SendConfirm, Sends
    <2> QED
        BY <2>1, <2>2 DEF OneAtATime
<1>4. CASE SendEnd
    <2>1. \A j \in JobIds : Running(j)' = Running(j)
        BY <1>4 DEF SendEnd, Running
    <2>2. /\ sending.pc = "patch" /\ UNCHANGED <<calendar, asked, interrupted>>
          /\ sending'.pc \notin {"layout", "patch", "confirm"}
        BY <1>4 DEF SendEnd, NotSending
    <2> QED
        BY <2>1, <2>2 DEF OneAtATime
<1>15. CASE LayoutRead
    <2>1. \A j \in JobIds : Running(j)' = Running(j)
        BY <1>15 DEF LayoutRead, Running
    <2>2. /\ sending.pc = "layout" /\ UNCHANGED <<calendar, asked, interrupted>>
          /\ (sending'.pc = "patch" /\ UNCHANGED kind) \/ sending'.pc = "idle"
        BY <1>15 DEF LayoutRead, NotSending, TypeOK, Sending
    <2> QED
        BY <2>1, <2>2 DEF OneAtATime
<1>5. ASSUME NEW j \in JobIds, RefreshStep(j) PROVE OneAtATime'
    <2>1. \A i \in JobIds : Running(i)' => Running(i)
        BY <1>5, RunningKept
    <2>2. Running(j) /\ UNCHANGED <<calendar, asked, sending, interrupted>>
        BY <1>5 DEF RefreshStep, ReadPage, SpentConnection, RefreshFails, ApplyChange, FinishRefresh, Reloaded, Running
    <2>3. UNCHANGED kind \/ ~Running(j)'
        <3>1. CASE ReadPage(j)
            BY <3>1, PageMove DEF Running, NoJob
        <3>2. CASE ApplyChange(j)
            BY <3>2 DEF ApplyChange
        <3>3. CASE SpentConnection(j) \/ RefreshFails(j) \/ Reloaded(j)
            BY <3>3, EndedStops DEF SpentConnection, RefreshFails, Reloaded
        <3>4. CASE FinishRefresh(j)
            BY <3>4 DEF FinishRefresh
        <3> QED
            BY <1>5, <3>1, <3>2, <3>3, <3>4 DEF RefreshStep
    <2> QED
        BY <2>1, <2>2, <2>3 DEF OneAtATime
<1>6. CASE Reload
    <2>1. \A j \in JobIds : ~Running(j)'
        BY <1>6 DEF Reload, Running, NoJob
    <2>2. ~asked' /\ sending'.pc = "idle"
        BY <1>6 DEF Reload, NotSending
    <2> QED
        BY <2>1, <2>2 DEF OneAtATime
<1>7. CASE Connect \/ Disconnect
    <2>1. \A j \in JobIds : Running(j)' = Running(j)
        BY <1>7 DEF Connect, Disconnect, Running
    <2>2. UNCHANGED <<calendar, sending>> /\ kind' \in {"connecting", "disconnected"}
          /\ interrupted' = (interrupted \/ Working)
        BY <1>7 DEF Connect, Disconnect
    <2> QED
        BY <2>1, <2>2 DEF OneAtATime, Working
<1>8. CASE Listed \/ ConnectFails \/ CancelConnect
    <2>1. \A j \in JobIds : Running(j)' = Running(j)
        BY <1>8 DEF Listed, ConnectFails, CancelConnect, Running
    <2>2. /\ UNCHANGED <<calendar, sending, interrupted>>
          /\ \/ UNCHANGED asked /\ kind = "refreshing" /\ ~calendar
             \/ asked /\ ~asked'
             \/ kind = "connecting" /\ kind' = "disconnected" /\ UNCHANGED asked
        BY <1>8 DEF Listed, ConnectFails, CancelConnect, TypeOK
    <2> QED
        BY <2>1, <2>2 DEF OneAtATime
<1>9. ASSUME NEW c, Begin(c), c \in BOOLEAN, c => calendar', calendar => calendar', ~asked',
             UNCHANGED sending, interrupted => interrupted',
             ~interrupted => /\ \A j \in JobIds : ~Running(j)
                             /\ sending.pc \notin {"layout", "patch", "confirm"}
      PROVE  OneAtATime'
    <2>0. kind' = "refreshing"
        BY <1>9 DEF Begin
    <2>1. CASE ~c
        <3>1. \A j \in JobIds : Running(j)' = Running(j)
            BY <1>9, <2>1, BeginRuns DEF Running
        <3> QED
            BY <1>9, <2>0, <3>1 DEF OneAtATime
    <2>2. CASE c
        <3>1. PICK j \in JobIds : \A i \in JobIds : Running(i)' => Running(i) \/ i = j
            BY <1>9, <2>2, BeginRuns
        <3> QED
            BY <1>9, <2>0, <2>2, <3>1 DEF OneAtATime
    <2> QED
        BY <1>9, <2>1, <2>2
<1>10. ASSUME NEW n \in 0..2, LoadWith(n), ~asked', UNCHANGED <<onTable, sending, interrupted>>,
              ~interrupted => kind \in {"loading", "connecting", "disconnected"}
       PROVE  OneAtATime'
    <2>1. ~interrupted => /\ \A j \in JobIds : ~Running(j)
                          /\ sending.pc \notin {"layout", "patch", "confirm"}
        BY <1>10 DEF OneAtATime
    <2>2. CASE n = 0
        <3>1. \A j \in JobIds : Running(j)' = Running(j)
            BY <1>10, <2>2 DEF LoadWith, Running
        <3>2. UNCHANGED calendar
            BY <1>10, <2>2 DEF LoadWith
        <3> QED
            BY <1>10, <2>1, <3>1, <3>2 DEF OneAtATime
    <2>3. CASE n # 0 /\ onTable /\ Busy
        <3>1. \A j \in JobIds : Running(j)' = Running(j)
            BY <1>10, <2>3 DEF LoadWith, Running
        <3>2. calendar' = (calendar \/ onTable) /\ interrupted
            BY <1>10, <2>3 DEF LoadWith, Busy
        <3> QED
            BY <1>10, <3>1, <3>2 DEF OneAtATime
    <2>4. CASE n # 0 /\ ~(onTable /\ Busy)
        <3>1. Begin(onTable) /\ calendar' = (calendar \/ onTable) /\ onTable \in BOOLEAN
            BY <1>10, <2>4 DEF LoadWith, TypeOK
        <3> QED
            BY <1>9, <1>10, <2>1, <3>1
    <2> QED
        BY <2>2, <2>3, <2>4
<1>11. CASE Load
    <2>1. LoadWith(delegated) /\ delegated \in 0..2 /\ kind = "loading"
          /\ UNCHANGED <<asked, onTable, sending, interrupted>>
        BY <1>11 DEF Load, TypeOK
    <2>2. ~interrupted => ~asked
        BY <2>1 DEF OneAtATime
    <2>3. CASE ~asked
        BY <1>10, <2>1, <2>3
    <2>4. CASE interrupted
        <3>1. \A j \in JobIds : Running(j)' => calendar'
            <4>1. CASE delegated = 0 \/ (onTable /\ Busy)
                BY <2>1, <4>1 DEF LoadWith, OneAtATime, Running
            <4>2. CASE delegated # 0 /\ ~(onTable /\ Busy)
                <5>1. Begin(onTable) /\ calendar' = (calendar \/ onTable)
                    BY <2>1, <4>2 DEF LoadWith
                <5>2. onTable \/ \A j \in JobIds : Running(j)' = Running(j)
                    BY <5>1, BeginRuns DEF Running
                <5> QED
                    BY <5>1, <5>2 DEF OneAtATime
            <4> QED
                BY <4>1, <4>2
        <3> QED
            BY <2>1, <2>4, <3>1 DEF OneAtATime
    <2> QED
        BY <2>2, <2>3, <2>4
<1>12. CASE Connected
    <2>1. LoadWith(delegated') /\ delegated' \in 0..2 /\ asked /\ ~asked'
          /\ UNCHANGED <<onTable, sending, interrupted>>
        BY <1>12 DEF Connected, TypeOK
    <2>2. ~interrupted => kind \in {"loading", "connecting", "disconnected"}
        BY <2>1 DEF OneAtATime
    <2> QED
        BY <1>10, <2>1, <2>2
<1>13. CASE Refresh
    <2>1. Begin(calendar) /\ calendar \in BOOLEAN /\ ~Busy /\ UNCHANGED <<calendar, asked, sending, interrupted>>
          /\ kind # "disconnected" /\ kind # "connecting"
        BY <1>13 DEF Refresh, TypeOK, Shown
    <2>2. ~interrupted => /\ \A j \in JobIds : ~Running(j)
                          /\ sending.pc \notin {"layout", "patch", "confirm"} /\ ~asked
        BY <2>1 DEF OneAtATime, Busy
    <2>3. CASE ~asked
        BY <1>9, <2>1, <2>2, <2>3
    <2>4. CASE interrupted
        <3>1. calendar \/ \A j \in JobIds : Running(j)' = Running(j)
            BY <2>1, BeginRuns DEF Running
        <3> QED
            BY <2>1, <2>4, <3>1 DEF OneAtATime
    <2> QED
        BY <2>2, <2>3, <2>4
<1>14. CASE Choose
    <2>1. kind = "choosing" /\ UNCHANGED <<asked, sending, interrupted>>
        BY <1>14 DEF Choose
    <2>2. ~interrupted => /\ \A j \in JobIds : ~Running(j)
                          /\ sending.pc \notin {"layout", "patch", "confirm"} /\ ~asked
        BY <2>1 DEF OneAtATime
    <2>3. CASE calendar' = TRUE /\ Begin(TRUE)
        <3>1. CASE ~asked
            BY <1>9, <2>1, <2>2, <2>3, <3>1
        <3>2. CASE interrupted
            BY <2>1, <2>3, <3>2 DEF OneAtATime
        <3> QED
            BY <2>2, <3>1, <3>2
    <2>4. CASE Fail /\ UNCHANGED <<calendar, jobs>>
        <3>1. \A j \in JobIds : Running(j)' = Running(j)
            BY <2>4 DEF Running
        <3> QED
            BY <2>1, <2>2, <2>4, <3>1 DEF OneAtATime
    <2> QED
        BY <1>14, <2>3, <2>4 DEF Choose
<1>16. CASE Retry
    <2>1. CASE Busy
        <3>1. UNCHANGED <<jobs, kind, calendar, asked, sending, interrupted>>
            BY <1>16, <2>1 DEF Retry
        <3> QED
            BY <3>1 DEF OneAtATime, Running
    <2>2. CASE ~Busy
        <3>1. /\ Begin(calendar) /\ calendar \in BOOLEAN /\ interrupted' = (interrupted \/ asked)
              /\ UNCHANGED <<calendar, asked, sending>>
            BY <1>16, <2>2 DEF Retry, TypeOK
        <3>2. ~interrupted => /\ \A j \in JobIds : ~Running(j)
                              /\ sending.pc \notin {"layout", "patch", "confirm"}
            BY <2>2 DEF OneAtATime, Busy
        <3>3. CASE ~asked
            BY <1>9, <3>1, <3>2, <3>3
        <3>4. CASE asked
            <4>1. calendar \/ \A j \in JobIds : Running(j)' = Running(j)
                BY <3>1, BeginRuns DEF Running
            <4> QED
                BY <3>1, <3>4, <4>1 DEF OneAtATime
        <3> QED
            BY <3>3, <3>4
    <2> QED
        BY <2>1, <2>2
<1> QED
    BY <1>1, <1>2, <1>3, <1>4, <1>5, <1>6, <1>7, <1>8, <1>11, <1>12, <1>13, <1>14, <1>15, <1>16, Steps DEF ConnectSteps, SendStep

-----------------------------------------------------------------------------
(* What the rows keep of a refresh's copy of them. *)

\* An accepted preview found at most one row per event.
LEMMA SnapSingle ==
    ASSUME NEW q \in Job, JobOK(q), q.pc # "scan", NEW e \in Events,
           NEW x \in RowsOf(q.snap, e), NEW y \in RowsOf(q.snap, e)
    PROVE  x = y
<1>1. Cardinality(RowsOf(q.snap, e)) <= 1 /\ IsFiniteSet(RowsOf(q.snap, e))
    <2>1. ~(Cardinality(RowsOf(q.snap, e)) > 1)
        BY DEF JobOK, PreviewFails, Job
    <2>2. IsFiniteSet(RowIds)
        BY FS_Interval, CalendarAssumption DEF RowIds
    <2>3. RowsOf(q.snap, e) \subseteq RowIds
        BY DEF RowsOf
    <2>4. IsFiniteSet(RowsOf(q.snap, e))
        BY <2>2, <2>3, FS_Subset
    <2>5. Cardinality(RowsOf(q.snap, e)) \in Nat
        BY <2>4, FS_CardinalityType
    <2> QED
        BY <2>1, <2>4, <2>5
<1>2. SUFFICES ASSUME x # y PROVE FALSE
    OBVIOUS
<1>3. IsFiniteSet({x}) /\ Cardinality({x}) = 1
    BY FS_Singleton
<1>4. Cardinality({x} \cup {y}) = 2 /\ IsFiniteSet({x} \cup {y})
    <2>1. y \notin {x}
        BY <1>2
    <2>2. IsFiniteSet({x} \cup {y})
          /\ Cardinality({x} \cup {y}) = IF y \in {x} THEN Cardinality({x}) ELSE Cardinality({x}) + 1
        BY <1>3, FS_AddElement, Zenon
    <2>3. Cardinality({x} \cup {y}) = 1 + 1
        BY <1>3, <2>1, <2>2
    <2> QED
        BY <2>2, <2>3
<1>5. Cardinality({x} \cup {y}) <= Cardinality(RowsOf(q.snap, e))
    BY <1>1, FS_Subset
<1>6. Cardinality(RowsOf(q.snap, e)) \in Nat
    BY <1>1, FS_CardinalityType
<1> QED
    BY <1>1, <1>4, <1>5, <1>6

\* No step but a refresh's binds a row, and while a refresh runs every other
\* change of a row is recorded as one it cannot see.
LEMMA OtherRows ==
    ASSUME TypeOK, LastOK, SendingOK, [Next]_vars, ~\E j \in JobIds : ApplyChange(j)
    PROVE  /\ UNCHANGED madeFor
           /\ \A r \in RowIds : Bound(rows', r) => Bound(rows, r) /\ rows'[r].event = rows[r].event
           /\ (\E j \in JobIds : Running(j)) =>
                /\ untracked \subseteq untracked'
                /\ \A r \in RowIds : rows'[r] = rows[r] \/ r \in untracked'
<1> DEFINE Fine == /\ \A r \in RowIds : Bound(rows', r) => Bound(rows, r) /\ rows'[r].event = rows[r].event
                   /\ (\E j \in JobIds : Running(j)) =>
                        /\ untracked \subseteq untracked'
                        /\ \A r \in RowIds : rows'[r] = rows[r] \/ r \in untracked'
<1> USE DEF google, table, view, ghosts, app
<1>1. ASSUME UNCHANGED rows, (\E j \in JobIds : Running(j)) => untracked \subseteq untracked' PROVE Fine
    BY <1>1 DEF Bound
<1>2. ASSUME NEW r \in RowIds, NEW row, rows' = [rows EXCEPT ![r] = row],
             row = NoRow \/ row.event = 0 \/ (rows[r] # NoRow /\ row.event = rows[r].event),
             (\E j \in JobIds : Running(j)) => untracked \subseteq untracked' /\ r \in untracked'
      PROVE  Fine
    <2>1. \A x \in RowIds : rows'[x] = IF x = r THEN row ELSE rows[x]
        BY <1>2 DEF TypeOK, Table
    <2> QED
        BY <1>2, <2>1 DEF Bound
<1>3. ASSUME NEW r \in RowIds, NEW row, NEW does, NEW item, WriteRow(r, row, does, item),
             row = NoRow \/ row.event = 0 \/ (rows[r] # NoRow /\ row.event = rows[r].event)
      PROVE  Fine
    <2> HIDE DEF Fine
    <2> QED
        BY <1>2, <1>3 DEF WriteRow, Touched
<1>4. \A r \in RowIds : rows[r] # NoRow => rows[r] \in Row
    BY DEF TypeOK, Table
<1>5. CASE UNCHANGED vars
    BY <1>1, <1>5 DEF vars
<1>6. CASE Send \/ LayoutRead \/ SendPatch \/ SendRefused \/ SendLost \/ SendEnd
    BY <1>1, <1>6 DEF Send, LayoutRead, SendPatch, SendRefused, SendLost, SendEnd
<1>7. CASE SendConfirm
    <2>1. First.row \in RowIds /\ UNCHANGED madeFor
        BY <1>7, ConfirmFacts DEF SendConfirm
    <2>2. /\ (\E j \in JobIds : Running(j)) => untracked \subseteq untracked' /\ First.row \in untracked'
          /\ untracked \subseteq untracked'
        BY <1>7 DEF SendConfirm, Touched
    <2>3. CASE UNCHANGED rows
        BY <1>1, <2>1, <2>2, <2>3
    <2>4. CASE /\ rows[First.row] \in Row /\ rows[First.row] # NoRow
               /\ rows' = [rows EXCEPT ![First.row] = Confirmed(rows[First.row])]
        <3>1. Confirmed(rows[First.row]).event = rows[First.row].event
            BY <2>4 DEF Confirmed, Row
        <3>2. Fine
            <4> HIDE DEF Fine
            <4> QED
                BY <1>2, <2>1, <2>2, <2>4, <3>1
        <3> QED
            BY <2>1, <3>2
    <2> QED
        BY <1>7, <2>3, <2>4, ConfirmFacts
<1>8. CASE ConnectSteps
    <2>1. UNCHANGED <<rows, madeFor>>
        BY <1>8 DEF ConnectSteps, Load, Listed, Choose, Connect, Connected, ConnectFails, CancelConnect,
                    Disconnect, Refresh, Retry, Reload
    <2>2. (\E j \in JobIds : Running(j)) => UNCHANGED untracked
        BY <1>8 DEF ConnectSteps, Load, Listed, Choose, Connect, Connected, ConnectFails, CancelConnect,
                    Disconnect, Refresh, Retry, Reload, LoadWith, Begin
    <2> QED
        BY <1>1, <2>1, <2>2
<1>9. ASSUME NEW j \in JobIds, RefreshStep(j) PROVE UNCHANGED madeFor /\ Fine
    <2>1. UNCHANGED <<rows, madeFor, untracked>>
        BY <1>9 DEF RefreshStep, ReadPage, SpentConnection, RefreshFails, FinishRefresh, Reloaded
    <2> QED
        BY <1>1, <2>1
<1>10. CASE OutsideSteps
    <2>1. UNCHANGED madeFor
        BY <1>10 DEF OutsideSteps, HostEdit, GoogleEdit, GoogleCancel
    <2>2. ASSUME NEW r \in RowIds, HostEdit(r) PROVE Fine
        <3>1. rows[r] \in Row /\ rows[r] # NoRow /\ untracked \subseteq untracked' /\ r \in untracked'
            BY <1>4, <2>2 DEF HostEdit, Bound
        <3>2. \A v : rows' = [rows EXCEPT ![r].val = v] => rows' = [rows EXCEPT ![r] = Edited(rows[r], v)]
            BY DEF Edited, TypeOK, Table
        <3>3. \A v : Edited(rows[r], v).event = rows[r].event
            BY <3>1 DEF Edited, Row
        <3> HIDE DEF Fine
        <3> QED
            BY <1>2, <2>2, <3>1, <3>2, <3>3 DEF HostEdit
    <2>3. ASSUME NEW e \in Events, GoogleEdit(e) \/ GoogleCancel(e) PROVE Fine
        <3> HIDE DEF Fine
        <3> QED
            BY <1>1, <2>3 DEF GoogleEdit, GoogleCancel
    <2>4. Fine
        BY <1>10, <2>2, <2>3 DEF OutsideSteps
    <2> QED
        BY <2>1, <2>4
<1>11. CASE PersonSteps
    <2>1. UNCHANGED madeFor
        BY <1>11 DEF PersonSteps, SaveEvent, Discard, Resolve, KeepAsLocal, RemoveLocal, WriteRow
    <2>2. last # None => last \in Preview
        BY DEF TypeOK
    <2>3. ASSUME NEW r \in RowIds, NEW v, SaveEvent(r, v) PROVE Fine
        <3>1. rows[r] \in Row /\ rows[r] # NoRow /\ WriteRow(r, Edited(rows[r], v), "edit", None)
            BY <1>4, <2>3 DEF SaveEvent, Bound
        <3>2. Edited(rows[r], v).event = rows[r].event
            BY <3>1 DEF Edited, Row
        <3> HIDE DEF Fine
        <3> QED
            BY <1>3, <3>1, <3>2
    <2>4. ASSUME NEW p \in Reviewed, Discard(p) PROVE Fine
        <3>1. p.row \in RowIds
            BY <2>4, ReviewedFacts
        <3>2. rows[p.row] \in Row /\ rows[p.row] # NoRow /\ WriteRow(p.row, Discarded(rows[p.row], p), "discard", p)
            BY <1>4, <2>4, <3>1 DEF Discard
        <3>3. Discarded(rows[p.row], p).event = rows[p.row].event
            BY <3>2 DEF Discarded, Row
        <3> HIDE DEF Fine
        <3> QED
            BY <1>3, <3>1, <3>2, <3>3
    <2>5. ASSUME last # None, NEW c \in last.conflicts PROVE c.row \in RowIds
        BY <2>2, <2>5 DEF Preview, Conflict
    <2>6. ASSUME last # None, NEW c \in last.conflicts, NEW mine, Resolve(c, mine) PROVE Fine
        <3>1. /\ rows[c.row] \in Row /\ rows[c.row] # NoRow
              /\ WriteRow(c.row, Resolved(rows[c.row], c, mine), "settle", c)
            BY <1>4, <2>5, <2>6 DEF Resolve
        <3>2. Resolved(rows[c.row], c, mine).event = rows[c.row].event
            BY <3>1 DEF Resolved, Row
        <3> HIDE DEF Fine
        <3> QED
            BY <1>3, <2>5, <2>6, <3>1, <3>2
    <2>7. ASSUME last # None, NEW c \in last.conflicts, RemoveLocal(c) PROVE Fine
        <3> HIDE DEF Fine
        <3> QED
            BY <1>3, <2>5, <2>7 DEF RemoveLocal
    <2>8. ASSUME last # None, NEW c \in last.conflicts, KeepAsLocal(c) PROVE Fine
        <3>1. /\ rows[c.row] \in Row /\ WriteRow(c.row, KeptAsLocal(rows[c.row]), "settle", c)
            BY <1>4, <2>5, <2>8 DEF KeepAsLocal
        <3>2. KeptAsLocal(rows[c.row]).event = 0
            BY <3>1 DEF KeptAsLocal, Row
        <3> HIDE DEF Fine
        <3> QED
            BY <1>3, <2>5, <2>8, <3>1, <3>2
    <2>9. Fine
        <3> HIDE DEF Fine
        <3> QED
            BY <1>11, <2>3, <2>4, <2>6, <2>7, <2>8 DEF PersonSteps
    <2> QED
        BY <2>1, <2>9
<1>12. CASE SavedStep
    BY <1>1, <1>12, SavedSame
<1> QED
    BY <1>5, <1>6, <1>7, <1>8, <1>9, <1>10, <1>11, <1>12, Steps DEF SendStep

\* A copy just made, and the start of writing.
LEMMA TracksNew ==
    ASSUME NEW q \in Job, q.snap = rows, Handled(q) = {}
    PROVE  Tracks(q)
BY DEF Tracks

\* A step that writes no row of the refresh's own keeps it on track.
LEMMA TracksLater ==
    ASSUME TypeOK, Grows, NEW q \in Job, JobOK(q), Tracks(q), UNCHANGED madeFor,
           \A r \in RowIds : Bound(rows', r) => Bound(rows, r) /\ rows'[r].event = rows[r].event,
           untracked \subseteq untracked',
           \A r \in RowIds : rows'[r] = rows[r] \/ r \in untracked'
    PROVE  Tracks(q)'
<1>1. /\ Applied(q.snap, q.seen)' = Applied(q.snap, q.seen)
      /\ \A e \in Applied(q.snap, q.seen) : Made(q, e)' = Made(q, e)
    BY RemoteLater, JobLater
<1>2. \A r \in RowIds \ untracked' : rows'[r] = q.snap[r] \/ WrittenBy(q, r)'
    <2> SUFFICES ASSUME NEW r \in RowIds \ untracked' PROVE rows'[r] = q.snap[r] \/ WrittenBy(q, r)'
        OBVIOUS
    <2>1. rows'[r] = rows[r] /\ r \in RowIds \ untracked
        OBVIOUS
    <2>2. CASE rows[r] = q.snap[r]
        BY <2>1, <2>2
    <2>3. CASE WrittenBy(q, r)
        BY <1>1, <2>1, <2>3 DEF WrittenBy, Handled
    <2> QED
        BY <2>1, <2>2, <2>3 DEF Tracks
<1>3. \A e \in Handled(q) \cap Applied(q.snap, q.seen) :
        RowsOf(q.snap, e) # {} /\ RowOf(q.snap, e) \notin untracked' => rows'[RowOf(q.snap, e)] = Made(q, e)'
    BY <1>1, RowOfIn DEF Tracks
<1>4. \A e \in Events : RowsOf(rows', e) \subseteq RowsOf(rows, e)
    BY DEF RowsOf
<1>5. \A e \in Events \ Handled(q) : RowsOf(rows', e) \subseteq RowsOf(q.snap, e)
    BY <1>4 DEF Tracks
<1> QED
    BY <1>1, <1>2, <1>3, <1>5 DEF Tracks, Handled, RowsOf, RowOf, Bound

\* Applying a change does too: x is the refresh, y the same with the change
\* behind it.
LEMMA TracksApply ==
    ASSUME TypeOK, JobsOK, Grows, NEW j \in JobIds, ApplyChange(j), Tracks(jobs[j])
    PROVE  Tracks(jobs[j])'
<1> DEFINE q == jobs[j]
<1>0. PICK e \in Events : e = q.at
    BY ApplyFacts, Zenon
<1> DEFINE old == RowOf(q.snap, e)
<1>1. q \in Job /\ q.pc = "apply" /\ JobOK(q) /\ UNCHANGED <<versions, untracked>>
    BY ApplyFacts DEF google, ghosts
<1>2. PICK y \in Job : /\ y = jobs'[j] /\ y.snap = q.snap /\ y.seen = q.seen /\ y.pc = "apply" /\ y.at = e + 1
    <2>1. /\ jobs'[j] \in Job /\ jobs'[j].snap = q.snap /\ jobs'[j].seen = q.seen
          /\ jobs'[j].pc = "apply" /\ jobs'[j].at = e + 1
        BY <1>0, ApplyMove
    <2> QED
        BY <2>1, Zenon
<1>3. Handled(y) = Handled(q) \cup {e} /\ e \notin Handled(q)
    <2>1. \A n \in Nat \ {0} : \A m : m = n + 1 => 1..(m - 1) = (1..(n - 1)) \cup {n} /\ n \notin 1..(n - 1)
        OBVIOUS
    <2>2. e \in Nat \ {0}
        BY Constants
    <2>3. Handled(y) = 1..(y.at - 1) /\ Handled(q) = 1..(e - 1)
        BY <1>0, <1>1, <1>2, Zenon DEF Handled
    <2>4. 1..(y.at - 1) = (1..(e - 1)) \cup {e} /\ e \notin 1..(e - 1)
        BY <1>2, <2>1, <2>2
    <2> QED
        BY <2>3, <2>4
<1>4. /\ Applied(y.snap, y.seen)' = Applied(q.snap, q.seen)
      /\ \A x \in Applied(q.snap, q.seen) : Made(y, x)' = Made(q, x)
    <2>1. \A z \in Job : JobOK(z) => /\ Applied(z.snap, z.seen)' = Applied(z.snap, z.seen)
                                    /\ \A x \in Applied(z.snap, z.seen) : Made(z, x)' = Made(z, x)
        BY RemoteLater, JobLater
    <2>2. JobOK(y) /\ Applied(y.snap, y.seen) = Applied(q.snap, q.seen) /\ \A x : Made(y, x) = Made(q, x)
        BY <1>1, <1>2 DEF JobOK, Made
    <2> QED
        BY <2>1, <2>2
<1>5. \A x \in Events : \A r \in RowsOf(q.snap, x) : madeFor[r] = x
    BY <1>1, SnapRow
<1>6. \A x \in Events : RowsOf(q.snap, x) # {} => RowOf(q.snap, x) \in RowIds /\ madeFor[RowOf(q.snap, x)] = x
    BY <1>5, RowOfIn
<1>7. \A r \in RowIds : madeFor[r] # 0 => madeFor'[r] = madeFor[r]
    BY DEF Grows
<1>8. ASSUME e \in Applied(q.snap, q.seen) PROVE Made(q, e).event = e /\ Made(q, e) # NoRow
    BY <1>1, <1>8, AppliedRead, MadeFacts
<1>9. \A r \in RowIds \ untracked : rows[r] = q.snap[r] \/ WrittenBy(q, r)
    BY DEF Tracks
<1>10. \A x \in Handled(q) \cap Applied(q.snap, q.seen) :
         RowsOf(q.snap, x) # {} /\ RowOf(q.snap, x) \notin untracked => rows[RowOf(q.snap, x)] = Made(q, x)
    BY DEF Tracks
<1>11. \A x \in Events \ Handled(q) : RowsOf(rows, x) \subseteq RowsOf(q.snap, x)
    BY DEF Tracks
<1>12. \A x \in Handled(q) \cap Applied(q.snap, q.seen) : x \in Events /\ x # e /\ x # 0
    BY <1>3, AppliedRead, Constants
<1>13. \A r \in RowIds : WrittenBy(q, r) => madeFor[r] # 0 /\ madeFor[r] # e
    BY <1>12 DEF WrittenBy
<1>14. ASSUME NEW r \in RowIds, WrittenBy(q, r), rows'[r] = rows[r] PROVE WrittenBy(y, r)'
    <2>1. madeFor'[r] = madeFor[r] /\ madeFor[r] \in Handled(y) /\ madeFor[r] \in Applied(q.snap, q.seen)
        BY <1>3, <1>7, <1>13, <1>14 DEF WrittenBy
    <2>2. rows'[r] = Made(y, madeFor[r])' /\ (RowsOf(y.snap, madeFor[r]) = {} \/ RowOf(y.snap, madeFor[r]) = r)
        BY <1>2, <1>4, <1>14, <2>1 DEF WrittenBy
    <2> QED
        BY <1>4, <2>1, <2>2 DEF WrittenBy, Handled, Made, RowsOf, RowOf, Bound
<1>15. ASSUME \A r \in RowIds \ untracked : rows'[r] = y.snap[r] \/ WrittenBy(y, r)',
              \A x \in Handled(y) \cap Applied(q.snap, q.seen) :
                RowsOf(q.snap, x) # {} /\ RowOf(q.snap, x) \notin untracked => rows'[RowOf(q.snap, x)] = Made(q, x),
              \A x \in Events \ Handled(y) : RowsOf(rows', x) \subseteq RowsOf(q.snap, x)
       PROVE  Tracks(y)'
    <2>1. UNCHANGED untracked /\ Applied(y.snap, y.seen)' = Applied(q.snap, q.seen) /\ y.snap = q.snap
        BY <1>1, <1>2, <1>4
    <2>2. \A x \in Handled(y) \cap Applied(q.snap, q.seen) :
            RowsOf(y.snap, x) # {} /\ RowOf(y.snap, x) \notin untracked' => rows'[RowOf(y.snap, x)] = Made(y, x)'
        BY <1>4, <1>15, <2>1
    <2> HIDE DEF q, old
    <2> QED
        BY <1>15, <2>1, <2>2 DEF Tracks, Handled
<1>16. ASSUME UNCHANGED <<rows, madeFor>>,
              e \notin Applied(q.snap, q.seen) \/ q.snap[old] = Made(q, e)
       PROVE  Tracks(y)'
    <2>1. \A r \in RowIds \ untracked : rows'[r] = y.snap[r] \/ WrittenBy(y, r)'
        BY <1>2, <1>9, <1>14, <1>16
    <2>2. ASSUME NEW x \in Handled(y) \cap Applied(q.snap, q.seen), RowsOf(q.snap, x) # {},
                 RowOf(q.snap, x) \notin untracked
          PROVE  rows'[RowOf(q.snap, x)] = Made(q, x)
        <3>1. CASE x # e
            BY <1>3, <1>10, <1>16, <2>2, <3>1
        <3>2. CASE x = e
            <4>1. old \in RowIds /\ madeFor[old] = e
                BY <1>1, <1>6, <2>2, <3>2
            <4>2. rows[old] = q.snap[old]
                BY <1>9, <1>13, <2>2, <3>2, <4>1
            <4> QED
                BY <1>16, <2>2, <3>2, <4>2
        <3> QED
            BY <3>1, <3>2
    <2>3. \A x \in Events \ Handled(y) : RowsOf(rows', x) \subseteq RowsOf(q.snap, x)
        BY <1>3, <1>11, <1>16
    <2> QED
        BY <1>15, <2>1, <2>2, <2>3
<1>17. ASSUME e \in Applied(q.snap, q.seen), RowsOf(q.snap, e) = {}, NEW r \in RowIds, madeFor[r] = 0,
              rows' = [rows EXCEPT ![r] = Made(q, e)], madeFor' = [madeFor EXCEPT ![r] = e]
       PROVE  Tracks(y)'
    <2>0. /\ rows'[r] = Made(q, e) /\ madeFor'[r] = e
          /\ \A x \in RowIds \ {r} : rows'[x] = rows[x]
        BY <1>17 DEF TypeOK, Table
    <2>1. ASSUME NEW x \in RowIds \ untracked PROVE rows'[x] = y.snap[x] \/ WrittenBy(y, x)'
        <3>1. CASE x # r
            BY <1>2, <1>9, <1>14, <2>0, <3>1
        <3>2. CASE x = r
            <4>1. rows'[r] = Made(y, e)' /\ e \in Handled(y) /\ e \in Applied(y.snap, y.seen)'
                  /\ RowsOf(y.snap, e) = {}
                BY <1>2, <1>3, <1>4, <1>17, <2>0
            <4> QED
                BY <2>0, <3>2, <4>1 DEF WrittenBy, Handled
        <3> QED
            BY <3>1, <3>2
    <2>2. ASSUME NEW x \in Handled(y) \cap Applied(q.snap, q.seen), RowsOf(q.snap, x) # {},
                 RowOf(q.snap, x) \notin untracked
          PROVE  rows'[RowOf(q.snap, x)] = Made(q, x)
        <3>1. x # e /\ x \in Handled(q) /\ x \in Events /\ x # 0
            BY <1>3, <1>12, <1>17, <2>2
        <3>2. RowOf(q.snap, x) \in RowIds \ {r}
            BY <1>6, <1>17, <2>2, <3>1
        <3> QED
            BY <1>10, <2>0, <2>2, <3>1, <3>2
    <2>3. ASSUME NEW x \in Events \ Handled(y), NEW z \in RowsOf(rows', x) PROVE z \in RowsOf(q.snap, x)
        <3>1. z \in RowIds /\ z # r /\ x # e
            BY <1>3, <1>8, <1>17, <2>0, <2>3 DEF RowsOf
        <3>2. z \in RowsOf(rows, x)
            BY <2>0, <2>3, <3>1 DEF RowsOf, Bound
        <3> QED
            BY <1>3, <1>11, <2>3, <3>2
    <2> QED
        BY <1>15, <2>1, <2>2, <2>3
<1>18. ASSUME e \in Applied(q.snap, q.seen), RowsOf(q.snap, e) # {}, UNCHANGED madeFor,
              rows' = [rows EXCEPT ![old] = Made(q, e)]
       PROVE  Tracks(y)'
    <2>0. /\ old \in RowIds /\ madeFor'[old] = e /\ rows'[old] = Made(q, e)
          /\ \A x \in RowIds \ {old} : rows'[x] = rows[x]
        <3>1. old \in RowIds /\ madeFor[old] = e
            BY <1>1, <1>6, <1>18
        <3> HIDE DEF old, q
        <3> QED
            BY <1>18, <3>1 DEF TypeOK, Table
    <2>1. ASSUME NEW x \in RowIds \ untracked PROVE rows'[x] = y.snap[x] \/ WrittenBy(y, x)'
        <3>1. CASE x # old
            BY <1>2, <1>9, <1>14, <2>0, <3>1
        <3>2. CASE x = old
            <4>1. rows'[old] = Made(y, e)' /\ e \in Handled(y) /\ e \in Applied(y.snap, y.seen)'
                  /\ RowOf(y.snap, e) = old
                BY <1>2, <1>3, <1>4, <1>18, <2>0
            <4> QED
                BY <2>0, <3>2, <4>1 DEF WrittenBy, Handled
        <3> QED
            BY <3>1, <3>2
    <2>2. ASSUME NEW x \in Handled(y) \cap Applied(q.snap, q.seen), RowsOf(q.snap, x) # {},
                 RowOf(q.snap, x) \notin untracked
          PROVE  rows'[RowOf(q.snap, x)] = Made(q, x)
        <3>1. CASE x = e
            BY <2>0, <3>1
        <3>2. CASE x # e
            <4>1. x \in Handled(q) /\ x \in Events
                BY <1>3, <1>12, <2>2, <3>2
            <4>2. RowOf(q.snap, x) \in RowIds \ {old}
                BY <1>6, <1>18, <2>0, <2>2, <3>2, <4>1
            <4> QED
                BY <1>10, <2>0, <2>2, <4>1, <4>2
        <3> QED
            BY <3>1, <3>2
    <2>3. ASSUME NEW x \in Events \ Handled(y), NEW z \in RowsOf(rows', x) PROVE z \in RowsOf(q.snap, x)
        <3>1. z \in RowIds /\ z # old /\ x # e
            BY <1>3, <1>8, <1>18, <2>0, <2>3 DEF RowsOf
        <3>2. z \in RowsOf(rows, x)
            BY <2>0, <2>3, <3>1 DEF RowsOf, Bound
        <3> QED
            BY <1>3, <1>11, <2>3, <3>2
    <2> QED
        BY <1>15, <2>1, <2>2, <2>3
<1>19. Tracks(y)'
    BY <1>0, <1>16, <1>17, <1>18, ApplyFacts
<1> QED
    BY <1>2, <1>19 DEF Tracks, Handled, WrittenBy, Made, Applied, Changes

\* Being interrupted is for good, and a step writes rows or moves refreshes, and
\* both only when a refresh applies a change.
LEMMA RowsOrJobs ==
    ASSUME TypeOK, [Next]_vars
    PROVE  /\ interrupted => interrupted'
           /\ UNCHANGED jobs \/ UNCHANGED rows \/ \E j \in JobIds : ApplyChange(j)
<1> USE DEF google, table, view, ghosts, app
<1>1. CASE Send \/ SendStep \/ UNCHANGED vars
    BY <1>1 DEF Send, SendStep, LayoutRead, SendPatch, SendRefused, SendLost, SendConfirm, SendEnd, vars
<1>2. CASE ConnectSteps
    <2>1. UNCHANGED rows
        BY <1>2 DEF ConnectSteps, Load, Listed, Choose, Connect, Connected, ConnectFails, CancelConnect,
                    Disconnect, Refresh, Retry, Reload
    <2>2. interrupted' = interrupted \/ interrupted' = (interrupted \/ Working)
          \/ interrupted' = (interrupted \/ asked)
        BY <1>2 DEF ConnectSteps, Load, Listed, Choose, Connect, Connected, ConnectFails, CancelConnect,
                    Disconnect, Refresh, Retry, Reload
    <2>3. Working \in BOOLEAN /\ interrupted \in BOOLEAN /\ asked \in BOOLEAN
        BY DEF Working, TypeOK
    <2> QED
        BY <2>1, <2>2, <2>3
<1>3. CASE PersonSteps
    BY <1>3 DEF PersonSteps, SaveEvent, Discard, Resolve, KeepAsLocal, RemoveLocal, WriteRow
<1>4. CASE OutsideSteps
    BY <1>4 DEF OutsideSteps, HostEdit, GoogleEdit, GoogleCancel
<1>5. CASE \E j \in JobIds : RefreshStep(j)
    <2>1. UNCHANGED interrupted
        BY <1>5 DEF RefreshStep, ReadPage, SpentConnection, RefreshFails, ApplyChange, FinishRefresh, Reloaded
    <2>2. UNCHANGED rows \/ \E j \in JobIds : ApplyChange(j)
        BY <1>5 DEF RefreshStep, ReadPage, SpentConnection, RefreshFails, FinishRefresh, Reloaded
    <2> QED
        BY <2>1, <2>2
<1>6. CASE SavedStep
    BY <1>6, SavedSame
<1> QED
    BY <1>1, <1>2, <1>3, <1>4, <1>5, <1>6, Steps

\* What a running refresh was one step ago.
LEMMA JobWas ==
    ASSUME TypeOK, JobsOK, [Next]_vars, NEW j \in JobIds, Running(j)'
    PROVE  \/ jobs'[j] = jobs[j] /\ Running(j)
           \/ jobs'[j] = NewJob /\ UNCHANGED rows /\ ~\E i \in JobIds : ApplyChange(i)
           \/ ReadPage(j)
           \/ ApplyChange(j)
           \/ FinishRefresh(j) /\ jobs'[j].pc = "reload"
<1>0. jobs'[j] # NoJob
    BY DEF Running, NoJob
<1>1. jobs'[j] = jobs[j] => Running(j)
    BY DEF Running
<1>2. ASSUME NEW i \in JobIds, ReadPage(i) \/ ApplyChange(i) \/ FinishRefresh(i)
      PROVE  i = j \/ jobs'[j] = jobs[j]
    BY <1>2, PageMove, ApplyMove, FinishMove
<1>6. FinishRefresh(j) => jobs'[j].pc = "reload"
    BY FinishMove
<1>3. ASSUME NEW i \in JobIds, Ended(i) PROVE jobs'[j] = jobs[j]
    BY <1>0, <1>3, EndedStops
<1>4. CASE Reload
    BY <1>0, <1>4 DEF Reload
<1>5. ASSUME NEW i \in JobIds, jobs' = [jobs EXCEPT ![i] = NewJob], jobs'[j] # jobs[j]
      PROVE  jobs'[j] = NewJob
    BY <1>5 DEF TypeOK
<1> QED
    BY <1>1, <1>2, <1>3, <1>4, <1>5, <1>6, JobsMove, RowsOrJobs DEF JobMoves

\* A page read leaves the rows alone.
LEMMA TracksPage ==
    ASSUME TypeOK, JobsOK, NEW j \in JobIds, ReadPage(j), Running(j)', Tracks(jobs[j])
    PROVE  Tracks(jobs[j])'
<1>1. jobs'[j] # NoJob
    BY DEF Running, NoJob
<1>2. PICK q, y \in Job : /\ q = jobs[j] /\ y = jobs'[j] /\ y.snap = q.snap
                          /\ Handled(q) = {} /\ Handled(y) = {}
    <2>1. /\ jobs[j] \in Job /\ jobs'[j] \in Job /\ jobs'[j].snap = jobs[j].snap
          /\ jobs[j].pc = "scan"
          /\ jobs'[j].pc = "scan" \/ (jobs'[j].pc = "apply" /\ jobs'[j].at = 1)
        BY <1>1, PageMove, PageFacts
    <2>2. \A z : z.pc = "scan" => Handled(z) = {}
        BY DEF Handled
    <2>3. \A z : z.pc = "apply" /\ z.at = 1 => Handled(z) = {}
        BY DEF Handled
    <2> QED
        BY <2>1, <2>2, <2>3
<1>3. UNCHANGED <<rows, untracked>>
    BY PageFacts DEF table, ghosts
<1>4. Tracks(q)
    BY <1>2
<1>5. /\ \A r \in RowIds \ untracked : rows[r] = y.snap[r]
      /\ \A e \in Events : RowsOf(rows, e) \subseteq RowsOf(y.snap, e)
    BY <1>2, <1>4 DEF Tracks, WrittenBy
<1>6. Tracks(y)'
    BY <1>2, <1>3, <1>5 DEF Tracks, Handled, RowsOf, Bound
<1> QED
    BY <1>2, <1>6 DEF Tracks, Handled, WrittenBy, Made, Applied, Changes

\* A refresh that runs uninterrupted knows what became of every row.
LEMMA TrackingStep ==
    ASSUME TypeOK, History, OneAtATime, Tracking, Grows, [Next]_vars
    PROVE  Tracking'
<1> SUFFICES ASSUME ~interrupted', NEW j \in JobIds, jobs'[j].pc \in {"scan", "apply"}
             PROVE  Tracks(jobs[j])'
    BY DEF Tracking
<1>0. JobsOK /\ LastOK /\ SendingOK /\ Genuine(rows) /\ Running(j)'
    BY DEF History, Running
<1>1. ~interrupted
    BY RowsOrJobs
<1>2. CASE ReadPage(j)
    <2>1. Running(j) /\ Tracks(jobs[j])
        BY <1>1, <1>2 DEF ReadPage, Running, Tracking
    <2> QED
        BY <1>0, <1>2, <2>1, TracksPage
<1>3. CASE ApplyChange(j)
    <2>1. Running(j) /\ Tracks(jobs[j])
        BY <1>1, <1>3 DEF ApplyChange, Running, Tracking
    <2> QED
        BY <1>0, <1>3, <2>1, TracksApply
<1>4. CASE jobs'[j] = NewJob /\ UNCHANGED rows
    <2>1. PICK y \in Job : y = jobs'[j] /\ y.snap = rows' /\ Handled(y) = {}
        BY <1>0, <1>4, NewJobOK DEF NewJob, Handled
    <2>2. Tracks(y)'
        BY <2>1 DEF Tracks, Handled, RowsOf, Bound
    <2> QED
        BY <2>1, <2>2 DEF Tracks, Handled, WrittenBy, Made, Applied, Changes
<1>5. CASE jobs'[j] = jobs[j] /\ Running(j) /\ ~ApplyChange(j)
    <2>1. PICK q \in Job : q = jobs[j] /\ JobOK(q) /\ Tracks(q)
        BY <1>0, <1>1, <1>5, JobKinds DEF JobsOK, Tracking, Running
    <2>2. \A i \in JobIds : Running(i) => i = j
        BY <1>1, <1>5 DEF OneAtATime
    <2>3. ~\E i \in JobIds : ApplyChange(i)
        BY <1>5, <2>2 DEF ApplyChange, Running
    <2>4. /\ UNCHANGED madeFor /\ untracked \subseteq untracked'
          /\ \A r \in RowIds : Bound(rows', r) => Bound(rows, r) /\ rows'[r].event = rows[r].event
          /\ \A r \in RowIds : rows'[r] = rows[r] \/ r \in untracked'
        BY <1>0, <1>5, <2>3, OtherRows
    <2>5. Tracks(q)'
        BY <2>1, <2>4, TracksLater
    <2>6. q = jobs'[j]
        BY <1>5, <2>1
    <2> QED
        BY <2>5, <2>6 DEF Tracks, Handled, WrittenBy, Made, Applied, Changes
<1> QED
    BY <1>0, <1>2, <1>3, <1>4, <1>5, JobWas

\* And an event keeps one row.
LEMMA OneRowStep ==
    ASSUME TypeOK, History, OneAtATime, Tracking, OneRow, [Next]_vars
    PROVE  OneRow'
<1> SUFFICES ASSUME ~interrupted', NEW e \in Events, NEW x \in RowsOf(rows', e), NEW z \in RowsOf(rows', e)
             PROVE  x = z
    BY DEF OneRow, RowsOf, Bound
<1>0. JobsOK /\ LastOK /\ SendingOK /\ ~interrupted
    BY RowsOrJobs DEF History
<1>1. CASE ~\E j \in JobIds : ApplyChange(j)
    <2>1. \A r \in RowIds : Bound(rows', r) => Bound(rows, r) /\ rows'[r].event = rows[r].event
        BY <1>0, <1>1, OtherRows
    <2>2. RowsOf(rows', e) \subseteq RowsOf(rows, e)
        BY <2>1 DEF RowsOf
    <2> QED
        BY <1>0, <2>2 DEF OneRow
<1>2. ASSUME NEW j \in JobIds, ApplyChange(j) PROVE x = z
    <2>1. PICK q \in Job : q = jobs[j] /\ q.pc = "apply" /\ JobOK(q)
        BY <1>0, <1>2, ApplyFacts
    <2>2. PICK at \in Events : at = q.at
        BY <1>0, <1>2, <2>1, ApplyFacts, Zenon
    <2>3. Tracks(q)
        BY <1>0, <1>2, <2>1 DEF Tracking, Running, ApplyChange
    <2>4. at \notin Handled(q)
        <3>1. \A n \in Nat : n \notin 1..(n - 1)
            OBVIOUS
        <3> QED
            BY <2>1, <2>2, <3>1, Constants DEF Handled
    <2>5. RowsOf(rows, at) \subseteq RowsOf(q.snap, at)
        BY <2>3, <2>4 DEF Tracks
    <2>6. \/ UNCHANGED rows
          \/ /\ at \in Applied(q.snap, q.seen)
             /\ \E r \in RowIds : /\ rows' = [rows EXCEPT ![r] = Made(q, at)]
                                  /\ RowsOf(q.snap, at) \subseteq {r}
        <3>1. ASSUME RowsOf(q.snap, at) # {}
              PROVE  RowOf(q.snap, at) \in RowIds /\ RowsOf(q.snap, at) \subseteq {RowOf(q.snap, at)}
            BY <2>1, <3>1, RowOfIn, SnapSingle
        <3> QED
            BY <1>0, <1>2, <2>1, <2>2, <3>1, ApplyFacts
    <2>7. CASE UNCHANGED rows
        BY <1>0, <2>7 DEF OneRow
    <2>8. ASSUME at \in Applied(q.snap, q.seen),
                 NEW r \in RowIds, rows' = [rows EXCEPT ![r] = Made(q, at)], RowsOf(q.snap, at) \subseteq {r}
          PROVE  x = z
        <3>1. /\ rows'[r] = Made(q, at) /\ Made(q, at).event = at
              /\ \A i \in RowIds \ {r} : rows'[i] = rows[i]
            <4>1. Made(q, at).event = at
                BY <2>1, <2>8, AppliedRead, MadeFacts
            <4> QED
                BY <2>8, <4>1 DEF TypeOK, Table
        <3>2. ASSUME NEW i \in RowsOf(rows', e) PROVE (e = at /\ i = r) \/ (e # at /\ i \in RowsOf(rows, e))
            <4>1. i \in RowIds /\ Bound(rows', i) /\ rows'[i].event = e
                BY <3>2 DEF RowsOf
            <4>2. i = r => e = at
                BY <3>1, <4>1
            <4>3. i # r => i \in RowsOf(rows, e)
                BY <3>1, <4>1 DEF RowsOf, Bound
            <4> QED
                BY <2>5, <2>8, <4>2, <4>3
        <3> QED
            BY <1>0, <3>2 DEF OneRow
    <2> QED
        BY <2>6, <2>7, <2>8
<1> QED
    BY <1>1, <1>2

-----------------------------------------------------------------------------
(* What the preview shows of the rows. *)

\* What a refresh would show does not change with Google's history.
LEMMA SummaryLater ==
    ASSUME TypeOK, JobsOK, Grows, NEW j \in JobIds, Reads(j),
           jobs'[j].snap = jobs[j].snap, jobs'[j].seen = jobs[j].seen
    PROVE  Summary(j)' = Summary(j)
<1>1. PICK q \in Job : q = jobs[j] /\ JobOK(q)
    BY JobKinds DEF JobsOK, Reads
<1>2. \A e \in Applied(q.snap, q.seen) : e \in Events /\ q.seen[e] # 0
    BY AppliedRead
<1>3. Review(q.snap, q.seen)' = Review(q.snap, q.seen)
    BY <1>1, <1>2, RemoteLater DEF Review
<1>4. Conflicts(q.snap, q.seen)' = Conflicts(q.snap, q.seen)
    <2> DEFINE Bad == {e \in Events : BothChanged(q.snap, q.seen, e) \/ MissingRemote(q.snap, q.seen, e)}
    <2>1. Bad' = Bad
        BY <1>1, RemoteLater DEF MissingRemote
    <2>2. \A e \in Bad : q.seen[e] # 0 => Remote(q.seen, e)' = Remote(q.seen, e)
        BY <1>1, RemoteLater
    <2> QED
        BY <2>1, <2>2 DEF Conflicts
<1>5. Summary(j) = [review |-> Review(q.snap, q.seen), conflicts |-> Conflicts(q.snap, q.seen), sent |-> FALSE]
    BY <1>1 DEF Summary
<1>6. q.snap = jobs'[j].snap /\ q.seen = jobs'[j].seen
    BY <1>1
<1>7. Summary(j)' = [review |-> Review(q.snap, q.seen)', conflicts |-> Conflicts(q.snap, q.seen)', sent |-> FALSE]
    BY <1>6 DEF Summary, Review, Conflicts, Applied, Changes, MissingRemote, BothChanged, Desired, Remote
<1> QED
    BY <1>3, <1>4, <1>5, <1>7

\* A row of which something waits, or that changed where P could not see it.
LEMMA UnseenIs ==
    \A r : r \in Unseen <=> r \in untracked \/ \E i \in SaveIds : Waits(i) /\ saved[i].row = r
BY DEF Unseen

\* A preview stays true of rows, operations and a last preview that stay.
LEMMA ShowsSame ==
    ASSUME NEW P, ShowsRows(P), UNCHANGED <<rows, untracked, saved, last>>
    PROVE  ShowsRows(P)'
BY DEF ShowsRows, Agrees, Discards, Leaves, Outdates, Unseen, Waits, Pending, Bound

\* One row is written, where the preview cannot see it or by an operation that
\* has still to go on: one that outdates the preview, or a discard, which takes
\* the row back to Google's value.
LEMMA ShowsWrite ==
    ASSUME TypeOK, NEW P \in Preview, ShowsRows(P), UNCHANGED last, untracked \subseteq untracked',
           NEW r \in RowIds, \A x \in RowIds \ {r} : rows'[x] = rows[x],
           \A i \in SaveIds : Waits(i) => saved'[i] = saved[i],
           r \in untracked' \/ \E i \in SaveIds : Waits(i)' /\ saved'[i].row = r,
           r \in untracked' \/ ~Pending(r)' \/ \E i \in SaveIds : Outdates(i)' /\ saved'[i].row = r,
           \A i \in SaveIds : ~Waits(i) /\ saved'[i].does = "discard" =>
              /\ saved'[i].row = r
              /\ r \in untracked' \/ \A x \in P.review : x.row = r => x = saved'[i].item
    PROVE  ShowsRows(P)'
<1>1. \A x : x \in Unseen => x \in Unseen'
    BY UnseenIs DEF Unseen, Waits
<1>2. r \in Unseen'
    BY DEF Unseen
<1>3. \A x \in RowIds : x \notin Unseen' => x \notin Unseen /\ x # r /\ rows'[x] = rows[x]
    BY <1>1, <1>2
<1>4. Agrees(P)'
    <2>1. \A p \in P.review : p.row \in RowIds
        BY DEF Preview, Edit
    <2>2. ASSUME NEW x \in RowIds, x \notin Unseen', Pending(x)', Valid(rows'[x].val)
          PROVE  \E z \in P.review \cup P.conflicts : z.row = x
        BY <1>3, <2>2 DEF ShowsRows, Agrees, Pending, Bound
    <2>3. ASSUME NEW p \in P.review, p.row \notin Unseen'
          PROVE  rows'[p.row] = [event |-> p.event, val |-> p.desired, base |-> p.remote, etag |-> p.etag]
        BY <1>3, <2>1, <2>3 DEF ShowsRows, Agrees
    <2> QED
        BY <2>2, <2>3 DEF Agrees
<1>5. ASSUME NEW i \in SaveIds, saved'[i].does = "discard", NEW s, s = saved'[i].row
      PROVE  \/ s \in untracked'
             \/ /\ ~Pending(s)' \/ \E k \in SaveIds : Outdates(k)' /\ saved'[k].row = s
                /\ \A x \in P.review : x.row = s => x = saved'[i].item
    <2>1. CASE Waits(i)
        <3>1. /\ saved'[i] = saved[i] /\ saved[i].does = "discard" /\ saved[i].row = s
              /\ \/ s \in untracked
                 \/ /\ ~Pending(s) \/ \E k \in SaveIds : Outdates(k) /\ saved[k].row = s
                    /\ \A x \in P.review : x.row = s => x = saved[i].item
            BY <1>5, <2>1 DEF ShowsRows, Discards
        <3>2. \A k \in SaveIds : Outdates(k) => saved'[k] = saved[k] /\ Outdates(k)'
            BY DEF Outdates, Waits
        <3>3. CASE s = r
            BY <3>1, <3>3
        <3>4. CASE s # r
            <4>1. ~Pending(s) => ~Pending(s)'
                <5>1. s \in RowIds
                    BY <3>1 DEF TypeOK, Save
                <5> QED
                    BY <3>1, <3>4, <5>1 DEF Pending, Bound
            <4> QED
                BY <3>1, <3>2, <4>1
        <3> QED
            BY <3>3, <3>4
    <2>2. CASE ~Waits(i)
        BY <1>5, <2>2
    <2> QED
        BY <2>1, <2>2
<1>6. Discards(P)'
    BY <1>5 DEF Discards, Pending, Bound, Outdates
<1>7. Leaves(P)'
    BY DEF ShowsRows, Leaves
<1> QED
    BY <1>4, <1>6, <1>7 DEF ShowsRows

Items == Edit \cup Conflict \cup {None}
\* The write of an operation of the person: its row, and the operation.
LEMMA PersonWrites ==
    ASSUME TypeOK, LastOK, PersonSteps
    PROVE  \E r \in RowIds, i \in SaveIds, does \in {"edit", "discard", "settle"}, item \in Items :
             /\ ~Waits(i)
             /\ saved' = [saved EXCEPT ![i] = [does |-> does, row |-> r, item |-> item]]
             /\ \A x \in RowIds \ {r} : rows'[x] = rows[x]
             /\ does = "discard" => item \in Reviewed /\ item.row = r /\ ~Pending(r)'
             /\ Touched(r) /\ UNCHANGED <<versions, kind, last, offer, stale, jobs, interrupted>>
<1> USE DEF google, view
<1>1. ASSUME NEW r \in RowIds, NEW row, NEW does \in {"edit", "discard", "settle"}, NEW item \in Items,
             WriteRow(r, row, does, item),
             does = "discard" => item \in Reviewed /\ item.row = r /\ row # NoRow /\ row.val = row.base
      PROVE  \E i \in SaveIds :
             /\ ~Waits(i)
             /\ saved' = [saved EXCEPT ![i] = [does |-> does, row |-> r, item |-> item]]
             /\ \A x \in RowIds \ {r} : rows'[x] = rows[x]
             /\ does = "discard" => item \in Reviewed /\ item.row = r /\ ~Pending(r)'
             /\ Touched(r) /\ UNCHANGED <<versions, kind, last, offer, stale, jobs, interrupted>>
    <2>1. rows'[r] = row /\ \A x \in RowIds \ {r} : rows'[x] = rows[x]
        BY <1>1 DEF WriteRow, TypeOK, Table
    <2>2. does = "discard" => ~Pending(r)'
        BY <1>1, <2>1 DEF Pending
    <2> QED
        BY <1>1, <2>1, <2>2 DEF WriteRow
<1>2. ASSUME NEW r \in RowIds, NEW v \in ValidValues, SaveEvent(r, v)
      PROVE  WriteRow(r, Edited(rows[r], v), "edit", None)
    BY <1>2 DEF SaveEvent
<1>3. ASSUME NEW p \in Reviewed, Discard(p)
      PROVE  /\ p \in Items /\ p.row \in RowIds /\ WriteRow(p.row, Discarded(rows[p.row], p), "discard", p)
             /\ Discarded(rows[p.row], p) # NoRow
             /\ Discarded(rows[p.row], p).val = Discarded(rows[p.row], p).base
    <2>1. /\ p \in Items /\ p.row \in RowIds /\ p.remote \in ValidValues /\ p.remote \in Values
          /\ p.etag \in Nat
        BY ReviewedFacts, Constants DEF Items
    <2>2. rows[p.row] \in Row /\ WriteRow(p.row, Discarded(rows[p.row], p), "discard", p)
        BY <1>3, <2>1 DEF Discard, TypeOK, Table
    <2>3. Discarded(rows[p.row], p) \in Row
        BY <2>1, <2>2, RowTypes DEF Discarded
    <2>4. \A row \in Row : Discarded(row, p).val = p.remote /\ Discarded(row, p).base = p.remote
        BY DEF Discarded, Row
    <2> QED
        BY <2>1, <2>2, <2>3, <2>4, Constants
<1>4. ASSUME last # None, NEW c \in last.conflicts PROVE c \in Items /\ c.row \in RowIds
    BY <1>4 DEF TypeOK, Preview, Conflict, Items
<1>5. ASSUME last # None, NEW c \in last.conflicts,
             KeepAsLocal(c) \/ RemoveLocal(c) \/ \E mine \in SUBSET Fields : Resolve(c, mine)
      PROVE  \E row : WriteRow(c.row, row, "settle", c)
    BY <1>5 DEF KeepAsLocal, RemoveLocal, Resolve
<1>6. CASE \E r \in RowIds, v \in ValidValues : SaveEvent(r, v)
    <2>1. None \in Items
        BY DEF Items
    <2>2. PICK r \in RowIds, v \in ValidValues : WriteRow(r, Edited(rows[r], v), "edit", None)
        BY <1>2, <1>6
    <2>3. \E i \in SaveIds :
             /\ ~Waits(i)
             /\ saved' = [saved EXCEPT ![i] = [does |-> "edit", row |-> r, item |-> None]]
             /\ \A x \in RowIds \ {r} : rows'[x] = rows[x]
             /\ Touched(r) /\ UNCHANGED <<versions, kind, last, offer, stale, jobs, interrupted>>
        BY <1>1, <2>1, <2>2
    <2> QED
        BY <2>1, <2>3
<1>7. CASE \E p \in Reviewed : Discard(p)
    <2>1. PICK p \in Reviewed : Discard(p)
        BY <1>7
    <2>2. /\ p \in Items /\ p.row \in RowIds /\ WriteRow(p.row, Discarded(rows[p.row], p), "discard", p)
          /\ Discarded(rows[p.row], p) # NoRow
          /\ Discarded(rows[p.row], p).val = Discarded(rows[p.row], p).base
        BY <1>3, <2>1
    <2>3. \E i \in SaveIds :
             /\ ~Waits(i)
             /\ saved' = [saved EXCEPT ![i] = [does |-> "discard", row |-> p.row, item |-> p]]
             /\ \A x \in RowIds \ {p.row} : rows'[x] = rows[x]
             /\ p \in Reviewed /\ ~Pending(p.row)'
             /\ Touched(p.row) /\ UNCHANGED <<versions, kind, last, offer, stale, jobs, interrupted>>
        BY <1>1, <2>1, <2>2
    <2> QED
        BY <2>2, <2>3
<1>8. CASE last # None /\ \E c \in last.conflicts :
             KeepAsLocal(c) \/ RemoveLocal(c) \/ \E mine \in SUBSET Fields : Resolve(c, mine)
    <2>1. PICK c \in last.conflicts : \E row : WriteRow(c.row, row, "settle", c)
        BY <1>5, <1>8
    <2>2. c \in Items /\ c.row \in RowIds
        BY <1>4, <1>8
    <2>3. \E i \in SaveIds :
             /\ ~Waits(i)
             /\ saved' = [saved EXCEPT ![i] = [does |-> "settle", row |-> c.row, item |-> c]]
             /\ \A x \in RowIds \ {c.row} : rows'[x] = rows[x]
             /\ Touched(c.row) /\ UNCHANGED <<versions, kind, last, offer, stale, jobs, interrupted>>
        BY <1>1, <2>1, <2>2
    <2> QED
        BY <2>2, <2>3
<1> QED
    BY <1>6, <1>7, <1>8 DEF PersonSteps

\* Which steps change the operations under way.
LEMMA SavesMove ==
    ASSUME [Next]_vars
    PROVE  UNCHANGED saved \/ PersonSteps \/ SavedStep \/ Reload \/ \E j \in JobIds : FinishRefresh(j)
<1> USE DEF google, table, view, ghosts, app
<1>1. CASE Send \/ SendStep \/ UNCHANGED vars
    BY <1>1 DEF Send, SendStep, LayoutRead, SendPatch, SendRefused, SendLost, SendConfirm, SendEnd, vars
<1>2. CASE ConnectSteps
    BY <1>2 DEF ConnectSteps, Load, Listed, Choose, Connect, Connected, ConnectFails, CancelConnect,
                Disconnect, Refresh, Retry
<1>3. CASE OutsideSteps
    BY <1>3 DEF OutsideSteps, HostEdit, GoogleEdit, GoogleCancel
<1>4. CASE \E j \in JobIds : RefreshStep(j)
    BY <1>4 DEF RefreshStep, ReadPage, SpentConnection, RefreshFails, ApplyChange, Reloaded
<1> QED
    BY <1>1, <1>2, <1>3, <1>4, Steps

\* After a new preview no operation under way would drop an edit.
LEMMA Superseding ==
    ASSUME TypeOK, NEW j \in JobIds, FinishRefresh(j), NEW i \in SaveIds
    PROVE  saved'[i].does # "discard"
<1>1. saved'[i] = Superseded(saved[i]) /\ saved[i] \in Save
    BY SaveTypes DEF FinishRefresh
<1>2. \A s \in Save : s.does = "settle" => [s EXCEPT !.does = "edit", !.item = None].does = "edit"
    BY DEF Save
<1> QED
    BY <1>1, <1>2 DEF Superseded, NoSave

\* An operation that drops an edit keeps dropping the one its row had.
LEMMA SavesStep ==
    ASSUME TypeOK, LastOK, SavesOK, [Next]_vars
    PROVE  SavesOK'
<1>1. CASE UNCHANGED saved
    BY <1>1 DEF SavesOK
<1>2. CASE PersonSteps
    <2>1. PICK r \in RowIds, i \in SaveIds, does \in {"edit", "discard", "settle"}, item \in Items :
             /\ saved' = [saved EXCEPT ![i] = [does |-> does, row |-> r, item |-> item]]
             /\ does = "discard" => item \in Reviewed /\ item.row = r
        BY <1>2, PersonWrites
    <2>2. does = "discard" => item \in Edit
        BY <2>1, ReviewedFacts
    <2>3. \A k \in SaveIds : saved'[k] = IF k = i THEN [does |-> does, row |-> r, item |-> item] ELSE saved[k]
        BY <2>1 DEF TypeOK
    <2> QED
        BY <2>1, <2>2, <2>3 DEF SavesOK
<1>3. ASSUME NEW i \in SaveIds, Saved(i) PROVE SavesOK'
    <2>1. \A k \in SaveIds : saved'[k] = IF k = i THEN NoSave ELSE saved[k]
        BY <1>3 DEF Saved, TypeOK
    <2> QED
        BY <2>1 DEF SavesOK, NoSave
<1>4. CASE Reload
    BY <1>4 DEF Reload, NoSaves, NoSave, SavesOK
<1>5. ASSUME NEW j \in JobIds, FinishRefresh(j) PROVE SavesOK'
    BY <1>5, Superseding DEF SavesOK
<1> QED
    BY <1>1, <1>2, <1>3, <1>4, <1>5, SavesMove DEF SavedStep

\* A discard goes on while its preview is shown: the preview loses the edit, and
\* its row, which holds Google's value or waits for another operation, is seen.
LEMMA ShowsDropped ==
    ASSUME TypeOK, SavesOK, NEW P \in Preview, ShowsRows(P), NEW i \in SaveIds, Saved(i),
           saved[i].does = "discard", NEW Q, last' = Q
    PROVE  Q \in Preview /\ ~Q.sent /\ ShowsRows(Q)'
<1>1. /\ last \in Preview /\ last # None /\ ~last.sent /\ last.conflicts = P.conflicts
      /\ last.review \subseteq P.review
      /\ \A x \in P.review \ last.review : x.row \in untracked
    BY DEF ShowsRows, Leaves, TypeOK
<1>2. Q = [last EXCEPT !.review = last.review \ {saved[i].item}]
    BY <1>1 DEF Saved, Dropped
<1>3. /\ Q \in Preview /\ ~Q.sent /\ Q.conflicts = P.conflicts
      /\ Q.review = last.review \ {saved[i].item}
    BY <1>1, <1>2 DEF Preview
<1>4. /\ UNCHANGED <<rows, untracked>>
      /\ \A k \in SaveIds : saved'[k] = IF k = i THEN NoSave ELSE saved[k]
    BY DEF Saved, table, ghosts, TypeOK
<1>5. \A x : x \in untracked => x \in Unseen'
    BY <1>4 DEF Unseen
<1>6. \A x : x \in Unseen => x \in Unseen' \/ x = saved[i].row
    BY <1>4, UnseenIs DEF Unseen, Waits
<1>7. \A k \in SaveIds : Outdates(k) => saved[k].row \in Unseen' /\ Outdates(k)' /\ k # i
    BY <1>4 DEF Unseen, Waits, Outdates
<1>8. saved[i].row \notin Unseen' =>
         ~Pending(saved[i].row) /\ \A x \in P.review : x.row = saved[i].row => x = saved[i].item
    BY <1>5, <1>7 DEF ShowsRows, Discards
<1>9. saved[i].item.row = saved[i].row
    BY DEF SavesOK
<1>10. \A x \in RowIds : Pending(x)' = Pending(x)
    BY <1>4 DEF Pending, Bound
<1>11. ASSUME NEW x \in RowIds, x \notin Unseen', Pending(x)', Valid(rows'[x].val)
       PROVE  \E z \in Q.review \cup Q.conflicts : z.row = x
    <2>1. x # saved[i].row /\ x \notin Unseen /\ x \notin untracked
        BY <1>5, <1>6, <1>8, <1>10, <1>11
    <2>2. PICK z \in P.review \cup P.conflicts : z.row = x
        BY <1>4, <1>10, <1>11, <2>1 DEF ShowsRows, Agrees
    <2>3. z \in Q.review \cup Q.conflicts
        BY <1>1, <1>3, <1>9, <2>1, <2>2
    <2> QED
        BY <2>2, <2>3
<1>12. ASSUME NEW p \in Q.review, p.row \notin Unseen'
       PROVE  rows'[p.row] = [event |-> p.event, val |-> p.desired, base |-> p.remote, etag |-> p.etag]
    <2>1. p \in P.review /\ p # saved[i].item
        BY <1>1, <1>3, <1>12
    <2>2. p.row \notin Unseen
        BY <1>6, <1>8, <1>12, <2>1
    <2> QED
        BY <1>4, <2>1, <2>2 DEF ShowsRows, Agrees
<1>13. Agrees(Q)'
    BY <1>11, <1>12 DEF Agrees
<1>14. ASSUME NEW k \in SaveIds, saved'[k].does = "discard", NEW s, s = saved'[k].row
       PROVE  \/ s \in untracked'
              \/ /\ ~Pending(s)' \/ \E n \in SaveIds : Outdates(n)' /\ saved'[n].row = s
                 /\ \A x \in Q.review : x.row = s => x = saved'[k].item
    <2>1. saved'[k] = saved[k] /\ saved[k].row = s /\ s \in RowIds
        BY <1>4, <1>14 DEF NoSave, TypeOK, Save
    <2>2. \/ s \in untracked
          \/ /\ ~Pending(s) \/ \E n \in SaveIds : Outdates(n) /\ saved[n].row = s
             /\ \A x \in P.review : x.row = s => x = saved[k].item
        BY <1>14, <2>1 DEF ShowsRows, Discards
    <2>3. \A x \in Q.review : x \in P.review
        BY <1>1, <1>3
    <2>4. \A n \in SaveIds : Outdates(n) => Outdates(n)' /\ saved'[n] = saved[n]
        BY <1>4, <1>7
    <2> QED
        BY <1>4, <1>10, <2>1, <2>2, <2>3, <2>4
<1>15. Discards(Q)'
    BY <1>14 DEF Discards, Pending, Bound, Outdates
<1>16. Leaves(Q)'
    <2>1. Q # None
        BY <1>3, NoPreviewAssumption
    <2> QED
        BY <1>3, <2>1 DEF Leaves
<1> QED
    BY <1>3, <1>13, <1>15, <1>16 DEF ShowsRows

\* A discard goes on while the rows are read again for a newer preview, which
\* could not see its row and is shown whole.
LEMMA ShowsWhole ==
    ASSUME TypeOK, SavesOK, NEW P \in Preview, ShowsRows(P), NEW i \in SaveIds, Saved(i),
           saved[i].does = "discard", saved[i].row \in untracked
    PROVE  ShowsRows(P)'
<1>1. /\ last \in Preview /\ last # None /\ ~last.sent /\ last.conflicts = P.conflicts
      /\ last.review \subseteq P.review
      /\ \A x \in P.review \ last.review : x.row \in untracked
    BY DEF ShowsRows, Leaves, TypeOK
<1>2. last' = [last EXCEPT !.review = last.review \ {saved[i].item}]
    BY <1>1 DEF Saved, Dropped
<1>3. /\ last' \in Preview /\ ~last'.sent /\ last'.conflicts = P.conflicts
      /\ last'.review = last.review \ {saved[i].item}
    BY <1>1, <1>2 DEF Preview
<1>4. /\ UNCHANGED <<rows, untracked>>
      /\ \A k \in SaveIds : saved'[k] = IF k = i THEN NoSave ELSE saved[k]
    BY DEF Saved, table, ghosts, TypeOK
<1>5. \A x : x \in Unseen <=> x \in Unseen'
    BY <1>4, UnseenIs DEF Unseen, Waits, NoSave
<1>6. \A x \in RowIds : Pending(x)' = Pending(x)
    BY <1>4 DEF Pending, Bound
<1>7. Agrees(P)'
    BY <1>4, <1>5, <1>6 DEF ShowsRows, Agrees
<1>8. ASSUME NEW k \in SaveIds, saved'[k].does = "discard", NEW s, s = saved'[k].row
      PROVE  \/ s \in untracked'
             \/ /\ ~Pending(s)' \/ \E n \in SaveIds : Outdates(n)' /\ saved'[n].row = s
                /\ \A x \in P.review : x.row = s => x = saved'[k].item
    <2>1. saved'[k] = saved[k] /\ saved[k].row = s /\ s \in RowIds
        BY <1>4, <1>8 DEF NoSave, TypeOK, Save
    <2>2. \A n \in SaveIds : Outdates(n) => Outdates(n)' /\ saved'[n] = saved[n]
        BY <1>4 DEF Outdates
    <2>3. \/ s \in untracked
          \/ /\ ~Pending(s) \/ \E n \in SaveIds : Outdates(n) /\ saved[n].row = s
             /\ \A x \in P.review : x.row = s => x = saved[k].item
        BY <1>8, <2>1 DEF ShowsRows, Discards
    <2> QED
        BY <1>4, <1>6, <2>1, <2>2, <2>3
<1>9. Discards(P)'
    BY <1>8 DEF Discards, Pending, Bound, Outdates
<1>10. Leaves(P)'
    <2>1. last' # None
        BY <1>3, NoPreviewAssumption
    <2>2. \A x \in P.review \ last'.review : x.row \in untracked'
        BY <1>1, <1>3, <1>4 DEF SavesOK
    <2> QED
        BY <1>1, <1>3, <2>1, <2>2 DEF Leaves
<1> QED
    BY <1>7, <1>9, <1>10 DEF ShowsRows

\* A refresh that ends shows every row that differs and every edit as it is.
LEMMA FinishShows ==
    ASSUME TypeOK, JobsOK, Tracking, ~interrupted, NEW j \in JobIds, FinishRefresh(j)
    PROVE  ShowsRows(last)' /\ last' \in Preview
<1>0. PICK P : P = last'
    OBVIOUS
<1>1. PICK q \in Job : /\ q = jobs[j] /\ JobOK(q) /\ q.pc = "apply" /\ q.at = N + 1 /\ Running(j)
                       /\ P \in Preview /\ ~P.sent
                       /\ P.review = Review(q.snap, q.seen)
                       /\ P.conflicts = Conflicts(q.snap, q.seen)
    BY <1>0, FinishMove, SummaryFacts
<1>2. UNCHANGED <<rows, untracked>>
    BY DEF FinishRefresh, table, ghosts
<1>3. Handled(q) = Events
    <2>1. \A n \in Nat : 1..((n + 1) - 1) = 1..n
        OBVIOUS
    <2> QED
        BY <1>1, <2>1, Constants DEF Handled, Events
<1>4. Tracks(q)
    BY <1>1 DEF Tracking
<1>5. \A e \in Applied(q.snap, q.seen) : e \in Handled(q)
    BY <1>3, AppliedRead
<1>6. \A e \in Applied(q.snap, q.seen) :
        RowsOf(q.snap, e) # {} /\ RowOf(q.snap, e) \notin untracked => rows[RowOf(q.snap, e)] = Made(q, e)
    BY <1>4, <1>5 DEF Tracks
<1>7. ASSUME NEW e \in Applied(q.snap, q.seen), RowsOf(q.snap, e) # {},
             Desired(q.snap, q.seen, e) # Remote(q.seen, e)
      PROVE  \E x \in P.review : x.row = RowOf(q.snap, e)
    <2>1. [row |-> RowOf(q.snap, e), event |-> e, etag |-> q.seen[e], remote |-> Remote(q.seen, e),
           desired |-> Desired(q.snap, q.seen, e)] \in Review(q.snap, q.seen)
        BY <1>7 DEF Review
    <2> QED
        BY <1>1, <2>1
<1>8. ASSUME NEW e \in Events, BothChanged(q.snap, q.seen, e) \/ MissingRemote(q.snap, q.seen, e)
      PROVE  \E x \in P.conflicts : x.row = RowOf(q.snap, e)
    <2>1. [row |-> RowOf(q.snap, e), etag |-> q.seen[e],
           kind |-> IF q.seen[e] = 0 THEN "missing-remote" ELSE "both",
           base |-> q.snap[RowOf(q.snap, e)].base, local |-> Card(q.snap[RowOf(q.snap, e)]),
           remote |-> IF q.seen[e] = 0 THEN None ELSE Remote(q.seen, e)] \in Conflicts(q.snap, q.seen)
        BY <1>8, Zenon DEF Conflicts
    <2> QED
        BY <1>1, <2>1
<1>9. ASSUME NEW r \in RowIds \ untracked, Bound(rows, r), rows[r].val # rows[r].base, Valid(rows[r].val)
      PROVE  \E x \in P.review \cup P.conflicts : x.row = r
    <2>1. ASSUME NEW e \in Applied(q.snap, q.seen), rows[r] = Made(q, e),
                 RowsOf(q.snap, e) = {} \/ RowOf(q.snap, e) = r
          PROVE  \E x \in P.review \cup P.conflicts : x.row = r
        <3>1. e \in Events /\ q.seen[e] # 0
            BY AppliedRead
        <3>2. Desired(q.snap, q.seen, e) # Remote(q.seen, e)
            BY <1>1, <1>9, <2>1, <3>1, MadeFacts
        <3>3. RowsOf(q.snap, e) # {}
            BY <1>1, <3>1, <3>2, DesiredFacts
        <3> QED
            BY <1>7, <2>1, <3>2, <3>3
    <2>2. CASE WrittenBy(q, r)
        BY <2>1, <2>2 DEF WrittenBy
    <2>3. CASE rows[r] = q.snap[r]
        <3>1. Bound(q.snap, r)
            BY <1>9, <2>3 DEF Bound
        <3>2. rows[r] \in Row /\ rows[r].event # 0
            BY <1>9 DEF Bound, TypeOK, Table
        <3>3. PICK e \in Events : e = q.snap[r].event
            <4>1. rows[r].event \in 0..N
                BY <3>2 DEF Row
            <4> QED
                BY <2>3, <3>2, <4>1, Constants DEF Events
        <3>4. r \in RowsOf(q.snap, e) /\ RowOf(q.snap, e) = r
            <4>1. r \in RowsOf(q.snap, e)
                BY <3>1, <3>3 DEF RowsOf
            <4> QED
                BY <1>1, <4>1, RowOfIn, SnapSingle
        <3>5. CASE BothChanged(q.snap, q.seen, e) \/ MissingRemote(q.snap, q.seen, e)
            BY <1>8, <3>4, <3>5
        <3>6. CASE ~BothChanged(q.snap, q.seen, e) /\ ~MissingRemote(q.snap, q.seen, e)
            <4>1. e \in Changes(q.snap, q.seen)
                BY <3>4, <3>6 DEF Changes, MissingRemote
            <4>2. e \in Applied(q.snap, q.seen)
                BY <1>9, <2>3, <3>4, <4>1 DEF Applied
            <4>3. rows[r] = Made(q, e)
                BY <1>6, <3>4, <4>2
            <4> QED
                BY <2>1, <3>4, <4>2, <4>3
        <3> QED
            BY <3>5, <3>6
    <2> QED
        BY <1>4, <2>2, <2>3 DEF Tracks
<1>10. ASSUME NEW x \in P.review, x.row \notin untracked
       PROVE  rows[x.row] = [event |-> x.event, val |-> x.desired, base |-> x.remote, etag |-> x.etag]
    <2>1. x \in Review(q.snap, q.seen)
        BY <1>1, <1>10
    <2>2. /\ x.event \in Applied(q.snap, q.seen) /\ RowsOf(q.snap, x.event) # {}
          /\ x.row = RowOf(q.snap, x.event) /\ x.etag = q.seen[x.event]
          /\ x.remote = Remote(q.seen, x.event) /\ x.desired = Desired(q.snap, q.seen, x.event)
        BY <1>1, <2>1, ReviewFacts
    <2>3. rows[x.row] = Made(q, x.event)
        BY <1>6, <1>10, <2>2
    <2> QED
        BY <2>2, <2>3 DEF Made
<1>11. \A x : x \notin Unseen' => x \notin untracked
    BY <1>2 DEF Unseen
<1>12. Agrees(P)'
    BY <1>2, <1>9, <1>10, <1>11 DEF Agrees, Pending, Bound
<1>13. Discards(P)'
    BY Superseding DEF Discards
<1>14. Leaves(P)'
    BY <1>0, <1>1, NoPreviewAssumption DEF Leaves
<1> QED
    BY <1>0, <1>1, <1>12, <1>13, <1>14 DEF ShowsRows, Agrees, Discards, Leaves

\* What holds of the value of the state's summary, or of a refresh's, holds of it.
LEMMA ShowsOffer ==
    ASSUME NEW P, ShowsRows(P)'
    PROVE  /\ P = offer' => ShowsRows(offer)'
           /\ \A j \in JobIds : P = Summary(j)' => ShowsRows(Summary(j))'
<1>1. P = offer' => ShowsRows(offer)'
    BY DEF ShowsRows, Agrees, Discards, Leaves
<1>2. ASSUME NEW j \in JobIds, P = Summary(j)' PROVE ShowsRows(Summary(j))'
    BY <1>2 DEF ShowsRows, Agrees, Discards, Leaves
<1> QED
    BY <1>1, <1>2

\* So a preview that is shown as current stays true of the rows.
LEMMA FreshStep ==
    ASSUME TypeOK, History, Grows, OneAtATime, Tracking, ListedOnce, SavesOK, Fresh, [Next]_vars
    PROVE  Fresh'
<1> DEFINE Offered == /\ kind' = "ready" /\ ~offer'.sent => ShowsRows(offer)'
                      /\ kind' = "ready" /\ last' # None => offer'.sent = last'.sent
           Read(j) == /\ ShowsRows(Summary(j))'
                      /\ \A i \in SaveIds : saved'[i].does = "discard" => saved'[i].row \in untracked'
<1> SUFFICES ASSUME ~stale', ~interrupted'
             PROVE  Offered /\ \A j \in JobIds : Reads(j)' => Read(j)
    BY DEF Fresh
<1> HIDE DEF Offered, Read
<1> USE DEF google, table, view, ghosts, app
<1>1. ~interrupted /\ JobsOK /\ LastOK /\ SendingOK
    BY RowsOrJobs DEF History
<1>2. /\ \A j \in JobIds : Running(j) => kind = "refreshing" /\ ~asked /\ calendar
      /\ \A j \in JobIds : Running(j) => sending.pc \notin {"layout", "patch", "confirm"}
      /\ \A i, j \in JobIds : Running(i) /\ Running(j) => i = j
      /\ sending.pc \in {"layout", "patch", "confirm"} => kind = "sending"
      /\ asked => kind \in {"connecting", "disconnected"}
      /\ \A j \in JobIds : Reads(j) => Running(j)
    BY <1>1, JobKinds DEF OneAtATime, Reads
<1>3. kind = "ready" => offer \in Preview
    BY <1>1 DEF LastOK, TypeOK
<1>4. ASSUME NEW j \in JobIds, Reads(j) PROVE Summary(j) \in Preview
    BY <1>1, <1>2, <1>4, JobKinds, SummaryFacts DEF JobsOK, Reads
<1>5. ASSUME kind' # "ready", \A j \in JobIds : ~Reads(j)'
      PROVE  Offered /\ \A j \in JobIds : Reads(j)' => Read(j)
    BY <1>5 DEF Offered
<1>6. ASSUME UNCHANGED <<last, offer, kind, stale>>, ~stale, kind' = "ready",
             NEW P, P = offer, ~P.sent => ShowsRows(P)'
      PROVE  Offered
    <2>1. kind = "ready" /\ last # None => offer.sent = last.sent
        BY <1>1, <1>6 DEF Fresh
    <2>2. ~offer'.sent => ShowsRows(offer)'
        BY <1>6, ShowsOffer
    <2> QED
        BY <1>6, <2>1, <2>2 DEF Offered
<1>7. ASSUME NEW j \in JobIds, Reads(j), UNCHANGED jobs, ~stale,
             NEW P, P = Summary(j), ShowsRows(P)',
             \A i \in SaveIds : saved'[i].does = "discard" => saved'[i].row \in untracked'
      PROVE  Read(j)
    <2>1. Summary(j)' = P
        BY <1>1, <1>7, SummaryLater
    <2> QED
        BY <1>7, <2>1, ShowsOffer DEF Read
<1>8. ~stale /\ kind = "ready" /\ ~offer.sent => ShowsRows(offer)
    BY <1>1 DEF Fresh
<1>9. ~stale => \A j \in JobIds : Reads(j) =>
         /\ ShowsRows(Summary(j))
         /\ \A i \in SaveIds : saved[i].does = "discard" => saved[i].row \in untracked
    BY <1>1 DEF Fresh
<1>10. ASSUME UNCHANGED <<rows, untracked, saved, last, offer, kind, stale, jobs>>
       PROVE  Offered /\ \A j \in JobIds : Reads(j)' => Read(j)
    <2>1. ASSUME kind' = "ready" PROVE Offered
        <3>1. PICK P : P = offer
            OBVIOUS
        <3>2. ~P.sent => ShowsRows(P)'
            BY <1>8, <1>10, <2>1, <3>1, ShowsSame
        <3> QED
            BY <1>6, <1>10, <2>1, <3>1, <3>2
    <2>2. ASSUME NEW j \in JobIds, Reads(j)' PROVE Read(j)
        <3>1. Reads(j)
            BY <1>10, <2>2 DEF Reads
        <3>2. PICK P : P = Summary(j)
            OBVIOUS
        <3>3. ShowsRows(P)'
            BY <1>9, <1>10, <3>1, <3>2, ShowsSame
        <3> QED
            BY <1>7, <1>9, <1>10, <3>1, <3>2, <3>3
    <2>3. kind' # "ready" => Offered
        BY DEF Offered
    <2> QED
        BY <2>1, <2>2, <2>3
<1>11. ASSUME UNCHANGED <<last, offer, kind, stale, jobs>>, untracked \subseteq untracked',
              NEW r \in RowIds, \A x \in RowIds \ {r} : rows'[x] = rows[x],
              (\E j \in JobIds : Running(j)) => r \in untracked',
              \A i \in SaveIds : Waits(i) => saved'[i] = saved[i],
              r \in untracked' \/ \E i \in SaveIds : Waits(i)' /\ saved'[i].row = r,
              r \in untracked' \/ ~Pending(r)' \/ \E i \in SaveIds : Outdates(i)' /\ saved'[i].row = r,
              \A i \in SaveIds : ~Waits(i) /\ saved'[i].does = "discard" =>
                 /\ saved'[i].row = r
                 /\ r \in untracked' \/ (saved'[i].item \in Reviewed /\ saved'[i].item.row = r)
       PROVE  Offered /\ \A j \in JobIds : Reads(j)' => Read(j)
    <2>1. ASSUME kind' = "ready" PROVE Offered
        <3>1. PICK P \in Preview : P = offer
            BY <1>3, <1>11, <2>1
        <3>2. \A x \in P.review : EditOK(x) /\ \A y \in P.review : x.event = y.event => x = y
            BY <1>1, <1>3, <1>11, <2>1, <3>1, NoPreviewAssumption DEF LastOK, PreviewOK, ListedOnce, Once
        <3>3. \A x, y \in P.review : x.row = r /\ y.row = r => x = y
            BY <3>2 DEF EditOK
        <3>4. Reviewed = P.review
            BY <1>11, <2>1, <3>1 DEF Reviewed
        <3>5. \A i \in SaveIds : ~Waits(i) /\ saved'[i].does = "discard" =>
                 /\ saved'[i].row = r
                 /\ r \in untracked' \/ \A x \in P.review : x.row = r => x = saved'[i].item
            BY <1>11, <3>3, <3>4
        <3>6. ~P.sent => ShowsRows(P)
            BY <1>8, <1>11, <2>1, <3>1
        <3>7. ~P.sent => ShowsRows(P)'
            BY <1>11, <3>5, <3>6, ShowsWrite
        <3> QED
            BY <1>6, <1>11, <2>1, <3>1, <3>7
    <2>2. ASSUME NEW j \in JobIds, Reads(j)' PROVE Read(j)
        <3>1. Reads(j) /\ r \in untracked'
            BY <1>2, <1>11, <2>2 DEF Reads
        <3>2. PICK P \in Preview : P = Summary(j)
            BY <1>4, <3>1
        <3>3. ShowsRows(P) /\ \A i \in SaveIds : saved[i].does = "discard" => saved[i].row \in untracked
            BY <1>9, <1>11, <3>1, <3>2
        <3>4. ShowsRows(P)'
            BY <1>11, <3>1, <3>3, ShowsWrite
        <3>5. \A i \in SaveIds : saved'[i].does = "discard" => saved'[i].row \in untracked'
            BY <1>11, <3>1, <3>3
        <3> QED
            BY <1>7, <1>11, <3>1, <3>2, <3>4, <3>5
    <2>3. kind' # "ready" => Offered
        BY DEF Offered
    <2> QED
        BY <2>1, <2>2, <2>3
<1>12. ASSUME NEW r \in RowIds, HostEdit(r)
       PROVE  Offered /\ \A j \in JobIds : Reads(j)' => Read(j)
    <2>1. /\ UNCHANGED <<last, offer, kind, stale, jobs, saved>> /\ untracked' = untracked \cup {r}
          /\ \A x \in RowIds \ {r} : rows'[x] = rows[x]
        BY <1>12 DEF HostEdit, TypeOK, Table
    <2>2. \A i \in SaveIds : ~(~Waits(i) /\ saved'[i].does = "discard")
        BY <2>1 DEF Waits
    <2> QED
        BY <1>11, <2>1, <2>2
<1>13. CASE OutsideSteps
    <2>1. ASSUME NEW e \in Events, GoogleEdit(e) \/ GoogleCancel(e)
          PROVE  UNCHANGED <<rows, untracked, saved, last, offer, kind, stale, jobs>>
        BY <2>1 DEF GoogleEdit, GoogleCancel
    <2> QED
        BY <1>10, <1>12, <1>13, <2>1 DEF OutsideSteps
<1>14. CASE PersonSteps
    <2>1. PICK r \in RowIds, k \in SaveIds, does \in {"edit", "discard", "settle"}, item \in Items :
             /\ ~Waits(k)
             /\ saved' = [saved EXCEPT ![k] = [does |-> does, row |-> r, item |-> item]]
             /\ \A x \in RowIds \ {r} : rows'[x] = rows[x]
             /\ does = "discard" => item \in Reviewed /\ item.row = r /\ ~Pending(r)'
             /\ Touched(r) /\ UNCHANGED <<versions, kind, last, offer, stale, jobs, interrupted>>
        BY <1>1, <1>14, PersonWrites
    <2>2. \A i \in SaveIds : saved'[i] = IF i = k THEN [does |-> does, row |-> r, item |-> item] ELSE saved[i]
        BY <2>1 DEF TypeOK
    <2>3. saved'[k].does = does /\ saved'[k].row = r /\ saved'[k].item = item
        BY <2>2
    <2>4. untracked \subseteq untracked' /\ ((\E j \in JobIds : Running(j)) => r \in untracked')
        BY <2>1 DEF Touched
    <2>5. \A i \in SaveIds : Waits(i) => saved'[i] = saved[i]
        BY <2>1, <2>2
    <2>6. Waits(k)' /\ saved'[k].row = r
        BY <2>1, <2>3 DEF Waits
    <2>7. ~Pending(r)' \/ Outdates(k)'
        BY <2>1, <2>3 DEF Outdates
    <2>8. \A i \in SaveIds : ~Waits(i) /\ saved'[i].does = "discard" =>
             saved'[i].row = r /\ saved'[i].item \in Reviewed /\ saved'[i].item.row = r
        BY <2>1, <2>2, <2>3 DEF Waits
    <2> QED
        BY <1>11, <2>1, <2>3, <2>4, <2>5, <2>6, <2>7, <2>8
<1>15. ASSUME NEW i \in SaveIds, Saved(i)
       PROVE  Offered /\ \A j \in JobIds : Reads(j)' => Read(j)
    <2>1. saved[i].does = "discard" /\ UNCHANGED <<stale, kind, jobs, untracked>> /\ ~stale
        BY <1>15 DEF Saved, Outdate
    <2>2. \A k \in SaveIds : saved'[k].does = "discard" => saved'[k] = saved[k]
        BY <1>15 DEF Saved, TypeOK, NoSave
    <2>3. ASSUME kind' = "ready" PROVE Offered
        <3>1. offer \in Preview /\ (last # None => offer' = last')
            BY <1>3, <1>15, <2>1, <2>3 DEF Saved
        <3>2. CASE last = None
            <4>1. last' = None /\ offer' = offer
                BY <1>15, <3>2 DEF Saved, Dropped
            <4>2. offer.sent
                BY <1>8, <2>1, <2>3, <3>2 DEF ShowsRows, Leaves
            <4> QED
                BY <4>1, <4>2 DEF Offered
        <3>3. CASE last # None /\ ~last.sent
            <4>1. ~offer.sent /\ ShowsRows(offer)
                BY <1>1, <1>8, <2>1, <2>3, <3>3 DEF Fresh
            <4>2. PICK P \in Preview : P = offer /\ ShowsRows(P)
                BY <3>1, <4>1
            <4>5. PICK Q : Q = last'
                OBVIOUS
            <4>3. ShowsRows(Q)'
                BY <1>15, <2>1, <4>2, <4>5, ShowsDropped
            <4>4. offer' = Q /\ ShowsRows(offer)'
                BY <3>1, <3>3, <4>3, <4>5, ShowsOffer
            <4> QED
                BY <3>1, <3>3, <4>4 DEF Offered
        <3>4. CASE last # None /\ last.sent
            <4>1. last'.sent /\ offer' = last'
                <5>1. last \in Preview /\ last' = [last EXCEPT !.review = last.review \ {saved[i].item}]
                    BY <1>15, <2>1, <3>4 DEF Saved, Dropped, TypeOK
                <5> QED
                    BY <3>1, <3>4, <5>1 DEF Preview
            <4> QED
                BY <4>1 DEF Offered
        <3> QED
            BY <3>2, <3>3, <3>4
    <2>4. ASSUME NEW j \in JobIds, Reads(j)' PROVE Read(j)
        <3>1. Reads(j)
            BY <2>1, <2>4 DEF Reads
        <3>2. PICK P \in Preview : P = Summary(j)
            BY <1>4, <3>1
        <3>3. ShowsRows(P) /\ \A k \in SaveIds : saved[k].does = "discard" => saved[k].row \in untracked
            BY <1>9, <2>1, <3>1, <3>2
        <3>4. ShowsRows(P)'
            BY <1>15, <2>1, <3>3, ShowsWhole
        <3>5. \A k \in SaveIds : saved'[k].does = "discard" => saved'[k].row \in untracked'
            BY <2>1, <2>2, <3>3
        <3> QED
            BY <1>7, <2>1, <3>1, <3>2, <3>4, <3>5
    <2>5. kind' # "ready" => Offered
        BY DEF Offered
    <2> QED
        BY <2>3, <2>4, <2>5
<1>16. CASE Send
    <2>1. kind = "ready" /\ kind' = "sending" /\ UNCHANGED jobs
        BY <1>16 DEF Send, CanSend
    <2> QED
        BY <1>2, <1>5, <2>1 DEF Reads
<1>17. CASE SendStep
    <2>1. kind = "sending" /\ UNCHANGED jobs
        BY <1>2, <1>17 DEF SendStep, LayoutRead, SendPatch, SendRefused, SendLost, SendConfirm, SendEnd, Sends
    <2>2. \A j \in JobIds : ~Reads(j)'
        BY <1>2, <2>1 DEF Reads
    <2>3. CASE ~SendEnd
        <3>1. kind' # "ready"
            BY <1>17, <2>1, <2>3 DEF SendStep, LayoutRead, SendPatch, SendRefused, SendLost, SendConfirm, Fail
        <3> QED
            BY <1>5, <2>2, <3>1
    <2>4. CASE SendEnd
        <3>1. kind' = "ready" => offer' = last' /\ last'.sent
            BY <2>1, <2>4 DEF SendEnd
        <3> QED
            BY <2>2, <3>1 DEF Offered
    <2> QED
        BY <2>3, <2>4
<1>18. CASE ConnectSteps
    <2>1. kind' # "ready" \/ (Retry /\ Busy)
        BY <1>18 DEF ConnectSteps, Load, Listed, Choose, Connect, Connected, ConnectFails, CancelConnect, Disconnect,
                     Refresh, Retry, Reload, LoadWith, Begin, Busy, Fail
    <2>2. CASE Retry /\ Busy
        BY <1>10, <2>2 DEF Retry
    <2>3. CASE Reload
        BY <1>5, <2>1, <2>3 DEF Reload, Reads, NoJob, Retry
    <2>4. CASE ~Reload /\ ~(Retry /\ Busy)
        <3>1. \A j \in JobIds : ~Running(j)
            <4>1. CASE Connect \/ Disconnect
                BY <1>1, <4>1 DEF Connect, Disconnect, Working
            <4>2. CASE Load \/ Listed \/ Choose \/ Connected \/ ConnectFails \/ CancelConnect
                BY <1>2, <4>2 DEF Load, Listed, Choose, Connected, ConnectFails, CancelConnect
            <4>3. CASE Refresh \/ Retry
                BY <1>2, <2>4, <4>3 DEF Refresh, Busy
            <4> QED
                BY <1>18, <2>4, <4>1, <4>2, <4>3 DEF ConnectSteps
        <3>2. ASSUME NEW j \in JobIds, Reads(j)' PROVE FALSE
            <4>1. Running(j)' /\ jobs'[j] # NewJob /\ ~FinishRefresh(j) /\ ~ReadPage(j) /\ ~ApplyChange(j)
                BY <3>1, <3>2 DEF Reads, Running, NewJob, FinishRefresh, ReadPage, ApplyChange
            <4> QED
                BY <1>1, <3>1, <4>1, JobWas
        <3> QED
            BY <1>5, <2>1, <2>4, <3>2
    <2> QED
        BY <2>2, <2>3, <2>4
<1>19. ASSUME NEW j \in JobIds, FinishRefresh(j)
       PROVE  Offered /\ \A i \in JobIds : Reads(i)' => Read(i)
    <2>1. /\ Running(j) /\ kind' = "refreshing" /\ last' = Summary(j)
          /\ jobs'[j].snap = jobs[j].snap /\ jobs'[j].seen = jobs[j].seen
          /\ \A i \in JobIds \ {j} : jobs'[i] = jobs[i]
        BY <1>1, <1>2, <1>19, FinishMove
    <2>2. UNCHANGED versions
        BY <1>19 DEF FinishRefresh
    <2>3. Summary(j)' = last'
        BY <2>1, <2>2 DEF Summary, Review, Conflicts, Applied, Changes, BothChanged, MissingRemote, Desired, Remote
    <2>4. PICK P : P = last' /\ ShowsRows(P)'
        <3>1. ShowsRows(last)'
            BY <1>1, <1>19, FinishShows
        <3> QED
            BY <3>1 DEF ShowsRows, Agrees, Discards, Leaves
    <2>5. Read(j)
        BY <1>19, <2>3, <2>4, ShowsOffer, Superseding DEF Read
    <2>6. \A i \in JobIds \ {j} : ~Reads(i)'
        BY <1>2, <2>1 DEF Reads
    <2> QED
        BY <2>1, <2>5, <2>6 DEF Offered
<1>20. ASSUME NEW j \in JobIds, Reloaded(j)
       PROVE  Offered /\ \A i \in JobIds : Reads(i)' => Read(i)
    <2>1. /\ Reads(j) /\ Running(j) /\ Ended(j) /\ offer' = Summary(j)
          /\ UNCHANGED <<rows, untracked, saved, last, stale>>
        BY <1>2, <1>20 DEF Reloaded, Reads
    <2>2. \A i \in JobIds : ~Reads(i)'
        BY <1>2, <2>1, EndedStops DEF Reads, Running
    <2>3. PICK P : P = Summary(j) /\ ShowsRows(P)
        BY <1>9, <2>1
    <2>4. ShowsRows(P)'
        BY <2>1, <2>3, ShowsSame
    <2>5. ShowsRows(offer)' /\ last # None /\ ~last.sent
        BY <2>1, <2>3, <2>4, ShowsOffer DEF ShowsRows, Leaves
    <2>6. ~offer'.sent
        BY <2>1 DEF Summary
    <2>7. offer'.sent = last'.sent
        BY <2>1, <2>5, <2>6 DEF Summary, TypeOK, Preview
    <2> QED
        BY <2>2, <2>5, <2>7 DEF Offered
<1>21. ASSUME NEW j \in JobIds, RefreshStep(j)
       PROVE  Offered /\ \A i \in JobIds : Reads(i)' => Read(i)
    <2>1. CASE FinishRefresh(j) \/ Reloaded(j)
        BY <1>19, <1>20, <2>1
    <2>2. CASE ~(FinishRefresh(j) \/ Reloaded(j))
        <3>1. (jobs[j].pc # "reload" /\ Running(j)) \/ RefreshFails(j)
            BY <1>21, <2>2 DEF RefreshStep, ReadPage, SpentConnection, ApplyChange, Running
        <3>2. Running(j) /\ kind = "refreshing"
            BY <1>2, <3>1 DEF RefreshFails
        <3>3. kind' # "ready"
            BY <1>21, <2>2, <3>2 DEF RefreshStep, ReadPage, SpentConnection, RefreshFails, ApplyChange, Fail
        <3>4. \A i \in JobIds : i # j => ~Reads(i)'
            BY <1>1, <1>2, <1>21, <3>2, RunningKept DEF Reads, Running
        <3>5. ~Reads(j)'
            <4>1. CASE ReadPage(j)
                BY <1>1, <4>1, PageMove DEF Reads, NoJob
            <4>2. CASE ApplyChange(j)
                BY <1>1, <4>2, ApplyMove DEF Reads, ApplyChange
            <4>3. CASE SpentConnection(j) \/ RefreshFails(j)
                BY <4>3 DEF SpentConnection, RefreshFails, Ended, Reads, NewJob, NoJob, TypeOK
            <4> QED
                BY <1>21, <2>2, <4>1, <4>2, <4>3 DEF RefreshStep
        <3> QED
            BY <1>5, <3>3, <3>4, <3>5
    <2> QED
        BY <2>1, <2>2
<1>22. CASE UNCHANGED vars
    BY <1>10, <1>22 DEF vars
<1> QED
    BY <1>13, <1>14, <1>15, <1>16, <1>17, <1>18, <1>21, <1>22, Steps DEF SavedStep

-----------------------------------------------------------------------------
(* The theorems. *)

\* A new app, and one whose import is complete.
LEMMA InitInv == Init => CalendarInv
<1> SUFFICES ASSUME Init PROVE CalendarInv
    OBVIOUS
<1>1. Original \in ValidValues /\ Original \in Values
    <2>1. 0 \in 0..Clock /\ Clock \in 0..Clock /\ 0 < Clock
        BY CalendarAssumption
    <2>2. Original \in Values /\ Original.start = 0 /\ Original.end = Clock
        BY <2>1 DEF Original, Values, Fields
    <2> QED
        BY <2>1, <2>2 DEF ValidValues, Valid
<1>2. \A e \in Events : versions[e] = <<Original>> /\ Len(versions[e]) = 1 /\ versions[e][1] = Original
    BY DEF Init
<1>3. versions \in [Events -> Seq(ValidValues)]
    BY <1>1 DEF Init
<1>4. \A r \in Events : /\ Imported(r) \in Row /\ Imported(r) # NoRow /\ Imported(r).event = r
                        /\ Imported(r).etag = 1 /\ Imported(r).base = Original
    BY <1>1, Constants DEF Imported, Row
<1>5. ASSUME NEW r \in RowIds
      PROVE  \/ rows[r] = NoRow /\ madeFor[r] = 0
             \/ r \in Events /\ rows[r] = Imported(r) /\ madeFor[r] = r
    <2>0. rows = [x \in RowIds |-> IF onTable /\ x \in Events \ gone THEN Imported(x) ELSE NoRow]
        BY DEF Init
    <2>1. rows[r] = NoRow \/ (r \in Events /\ rows[r] = Imported(r))
        BY <2>0
    <2>2. madeFor[r] = IF rows[r] = NoRow THEN 0 ELSE r
        BY DEF Init
    <2> QED
        BY <1>4, <2>1, <2>2
<1>6. rows \in Table /\ madeFor \in [RowIds -> 0..N]
    <2>1. rows = [r \in RowIds |-> rows[r]] /\ madeFor = [r \in RowIds |-> madeFor[r]]
        BY DEF Init
    <2>2. 0 \in 0..N /\ \A e \in Events : e \in 0..N /\ Imported(e) \in Row
        BY <1>4, Constants
    <2>3. \A r \in RowIds : rows[r] \in Row \cup {NoRow} /\ madeFor[r] \in 0..N
        BY <1>5, <2>2, Zenon
    <2> QED
        BY <2>1, <2>3 DEF Table
<1>7. Genuine(rows)
    <2> SUFFICES ASSUME NEW r \in RowIds, Bound(rows, r)
                 PROVE  madeFor[r] = rows[r].event /\ Was(rows[r].event, rows[r].etag, rows[r].base)
        BY DEF Genuine
    <2>1. r \in Events /\ rows[r] = Imported(r) /\ madeFor[r] = r
        BY <1>5 DEF Bound
    <2> QED
        BY <1>2, <1>4, <2>1 DEF Was
<1>8. /\ kind = "loading" /\ last = None /\ sending = NotSending /\ \A j \in JobIds : jobs[j] = NoJob
      /\ ~asked /\ offer = None /\ saved = NoSaves
    BY DEF Init
<1>9. \A j \in JobIds : ~Running(j)
    BY <1>8 DEF Running, NoJob
<1>10. sending \in Sending /\ sending.queue = {} /\ sending.conflicts = {} /\ sending.pc = "idle"
    BY <1>8 DEF NotSending, Sending
<1>11. TypeOK
    <2>1. MaxEvents \in Nat /\ MaxEvents - 1 \in Nat
        BY CalendarAssumption
    <2>2. left \in Nat /\ delegated \in 0..2 /\ connections \in 0..2 /\ gone \subseteq Events
        BY <2>1 DEF Init
    <2>3. jobs \in [JobIds -> Job \cup {NoJob}] /\ kind \in Kinds /\ last \in Preview \cup {None}
        BY DEF Init, Kinds
    <2>4. /\ onTable \in BOOLEAN /\ stale \in BOOLEAN /\ calendar \in BOOLEAN /\ asked \in BOOLEAN
          /\ interrupted \in BOOLEAN /\ countdown \in BOOLEAN /\ untracked \subseteq RowIds
        BY DEF Init
    <2>5. saved \in [SaveIds -> Save]
        <3>1. 1 \in RowIds
            BY CalendarAssumption DEF RowIds
        <3> QED
            BY <1>8, <3>1 DEF NoSaves, NoSave, Save
    <2> QED
        BY <1>3, <1>6, <1>8, <1>10, <2>2, <2>3, <2>4, <2>5 DEF TypeOK
<1>12. History
    BY <1>7, <1>8, <1>9, <1>10 DEF History, JobsOK, LastOK, SendingOK, PreviewOK
<1>13. OneRow
    <2> SUFFICES ASSUME NEW e \in Events, NEW x \in RowsOf(rows, e) PROVE x = e
        BY DEF OneRow
    <2>1. x \in RowIds /\ Bound(rows, x) /\ rows[x].event = e
        BY DEF RowsOf
    <2> QED
        BY <1>4, <1>5, <2>1 DEF Bound
<1>14. OneAtATime /\ Tracking /\ ListedOnce
    BY <1>8, <1>9, <1>10 DEF OneAtATime, Tracking, ListedOnce, NoJob
<1>15. SavesOK /\ Fresh
    BY <1>8 DEF SavesOK, Fresh, NoSaves, NoSave, Reads, NoJob
<1> QED
    BY <1>11, <1>12, <1>13, <1>14, <1>15 DEF CalendarInv

\* The inductive invariant of the Calendar plugin.
THEOREM CalendarInvariant == Spec => []CalendarInv
<1>1. ASSUME CalendarInv, [Next]_vars PROVE CalendarInv'
    <2>1. /\ TypeOK /\ History /\ OneAtATime /\ Tracking /\ OneRow /\ ListedOnce /\ SavesOK
          /\ Fresh
        BY <1>1 DEF CalendarInv
    <2>2. JobsOK /\ LastOK
        BY <2>1 DEF History
    <2>3. TypeOK' /\ Grows /\ History' /\ ListedOnce'
        BY <1>1, <2>1, HistoryStep
    <2>4. OneAtATime' /\ SavesOK'
        BY <1>1, <2>1, <2>2, OneAtATimeStep, SavesStep
    <2>5. Tracking' /\ OneRow'
        BY <1>1, <2>1, <2>3, TrackingStep, OneRowStep
    <2>6. Fresh'
        BY <1>1, <2>1, <2>3, FreshStep
    <2> QED
        BY <2>3, <2>4, <2>5, <2>6 DEF CalendarInv
<1> QED
    BY InitInv, <1>1, PTL DEF Spec

\* What a row keeps as its baseline is what Google had under the ETag it keeps.
THEOREM BaselinesAreReal == Spec => []BaselineWasGoogle
<1>1. CalendarInv => BaselineWasGoogle
    BY DEF CalendarInv, History, Genuine, Was, BaselineWasGoogle
<1> QED
    BY CalendarInvariant, <1>1, PTL

\* An event has at most one row, unless a reconnection let two refreshes run.
THEOREM RowsStayUnique == Spec => []OneRowPerEvent
<1>1. ASSUME CalendarInv PROVE OneRowPerEvent
    <2> SUFFICES ASSUME ~interrupted, NEW e \in Events PROVE Cardinality(RowsOf(rows, e)) <= 1
        BY DEF OneRowPerEvent
    <2>1. \A x, y \in RowsOf(rows, e) : x = y
        BY <1>1 DEF CalendarInv, OneRow
    <2>2. ASSUME NEW x \in RowsOf(rows, e) PROVE RowsOf(rows, e) = {x}
        BY <2>1
    <2>3. Cardinality({}) = 0 /\ \A x : Cardinality({x}) = 1
        BY FS_EmptySet, FS_Singleton
    <2> QED
        BY <2>2, <2>3
<1> QED
    BY CalendarInvariant, <1>1, PTL

\* Ready and not stale: the review list is the rows.
THEOREM ReviewIsTrue == Spec => []ReviewReflectsRows
<1>1. CalendarInv => ReviewReflectsRows
    BY DEF CalendarInv, Fresh, ShowsRows, Agrees, ReviewReflectsRows, InPreview
<1> QED
    BY CalendarInvariant, <1>1, PTL

\* A change the app makes in Google leads from the value the review showed to
\* the value it showed.
THEOREM SendsWhatWasReviewed == Spec => NoBlindWrite
<1>1. ASSUME CalendarInv, [Next]_vars, NEW e \in Events, versions'[e] # versions[e], sending' # sending
      PROVE  \E p \in sending.queue : /\ p.event = e /\ p.remote = Current(e)
                                      /\ versions'[e] = Append(versions[e], p.desired)
    <2> USE DEF google, table, view, ghosts, app
    <2>0. TypeOK /\ SendingOK
        BY <1>1 DEF CalendarInv, History
    <2>1. Sends /\ Matches(First) /\ Patch(First)
        <3>1. ~ConnectSteps
            BY <1>1 DEF ConnectSteps, Load, Listed, Choose, Connect, Connected, ConnectFails, CancelConnect,
                        Disconnect, Refresh, Retry, Reload
        <3>2. ~PersonSteps /\ ~SavedStep /\ ~OutsideSteps /\ ~Send
            BY <1>1, SavedSame DEF PersonSteps, SaveEvent, Discard, Resolve, KeepAsLocal, RemoveLocal, WriteRow, OutsideSteps, HostEdit,
                        GoogleEdit, GoogleCancel, Send
        <3>3. ~(\E j \in JobIds : RefreshStep(j)) /\ ~UNCHANGED vars
            BY <1>1 DEF RefreshStep, ReadPage, SpentConnection, RefreshFails, ApplyChange, FinishRefresh, Reloaded, vars
        <3>4. ASSUME SendStep PROVE Sends /\ Matches(First) /\ Patch(First)
            BY <1>1, <3>4 DEF SendStep, LayoutRead, SendPatch, SendRefused, SendLost, SendConfirm, SendEnd
        <3> QED
            BY <1>1, <3>1, <3>2, <3>3, <3>4, Steps
    <2>2. /\ First \in sending.queue /\ First \in Edit
          /\ First.remote = Current(First.event) /\ Patched(First) = First.desired
        BY <2>0, <2>1, PatchFacts
    <2>3. versions' = [versions EXCEPT ![First.event] = Append(versions[First.event], First.desired)]
        BY <2>1, <2>2 DEF Patch
    <2>4. e = First.event /\ versions'[e] = Append(versions[e], First.desired)
        BY <1>1, <2>0, <2>2, <2>3 DEF TypeOK, Edit
    <2> QED
        BY <2>2, <2>4
<1>2. CalendarInv /\ [Next]_vars =>
        [\A e \in Events : versions'[e] # versions[e] /\ sending' # sending =>
           \E p \in sending.queue :
              /\ p.event = e /\ p.remote = Current(e)
              /\ versions'[e] = Append(versions[e], p.desired)]_vars
    BY <1>1
<1> QED
    BY CalendarInvariant, <1>2, PTL DEF Spec, NoBlindWrite

\* A refresh never changes a field that carries a local edit its copy of the
\* rows shows.
THEOREM LocalEditsSurvive == Spec => LocalEditKept
<1>1. ASSUME CalendarInv, [Next]_vars, NEW r \in RowIds \ untracked, Bound(rows, r), rows'[r] # rows[r],
             jobs' # jobs, ~interrupted, NEW f \in Fields, rows[r].val[f] # rows[r].base[f]
      PROVE  rows'[r] # NoRow /\ rows'[r].val[f] = rows[r].val[f]
    <2>0. TypeOK /\ JobsOK /\ Tracking /\ Genuine(rows)
        BY <1>1 DEF CalendarInv, History
    <2>1. PICK j \in JobIds : ApplyChange(j)
        BY <1>1, <2>0, RowsOrJobs
    <2>2. PICK q \in Job : q = jobs[j] /\ q.pc = "apply" /\ JobOK(q)
        BY <2>0, <2>1, ApplyFacts
    <2>3. PICK at \in Events : at = q.at
        BY <2>0, <2>1, <2>2, ApplyFacts, Zenon
    <2>4. Tracks(q)
        BY <1>1, <2>0, <2>1, <2>2 DEF Tracking, Running, ApplyChange
    <2>5. at \notin Handled(q)
        <3>1. \A n \in Nat : n \notin 1..(n - 1)
            OBVIOUS
        <3> QED
            BY <2>2, <2>3, <3>1, Constants DEF Handled
    <2>6. madeFor[r] = rows[r].event /\ madeFor[r] # 0
        BY <1>1, <2>0 DEF Genuine, Bound
    <2>7. \A x \in RowIds : \A v : rows' = [rows EXCEPT ![x] = v] => x = r /\ rows'[r] = v
        BY <1>1, <2>0 DEF TypeOK, Table
    <2>8. /\ at \in Applied(q.snap, q.seen) /\ RowsOf(q.snap, at) # {} /\ RowOf(q.snap, at) = r
          /\ rows'[r] = Made(q, at)
        <3>1. RowsOf(q.snap, at) # {} => RowOf(q.snap, at) \in RowIds
            BY RowOfIn
        <3>2. \/ at \notin Applied(q.snap, q.seen) /\ UNCHANGED rows
              \/ \E x \in RowIds : madeFor[x] = 0 /\ rows' = [rows EXCEPT ![x] = Made(q, at)]
              \/ /\ at \in Applied(q.snap, q.seen) /\ RowsOf(q.snap, at) # {}
                 /\ UNCHANGED rows \/ rows' = [rows EXCEPT ![RowOf(q.snap, at)] = Made(q, at)]
            BY <2>0, <2>1, <2>2, <2>3, ApplyFacts
        <3> QED
            BY <1>1, <2>6, <2>7, <3>1, <3>2
    <2>9. r \in RowsOf(q.snap, at) /\ q.snap[r].event = at /\ madeFor[r] = at
        BY <2>0, <2>2, <2>8, RowOfIn, SnapRow
    <2>10. rows[r] = q.snap[r]
        BY <1>1, <2>4, <2>5, <2>9 DEF Tracks, WrittenBy
    <2>11. q.snap[r].base \in Values /\ q.snap[r].val \in Values /\ Valid(q.snap[r].val)
        BY <2>0, <2>2, <2>8, <2>9, SnapRow, Constants DEF Applied
    <2>12. Card(q.snap[r]) = q.snap[r].val
        BY <2>11 DEF Card
    <2>13. q.seen[at] # 0 /\ ~BothChanged(q.snap, q.seen, at)
        BY <2>8, AppliedRead
    <2>14. Remote(q.seen, at) \in Values
        BY <2>0, <2>2, <2>13, RemoteFacts, Constants
    <2>15. ~R!Decision(q.snap[r].base, q.snap[r].val, Remote(q.seen, at)).conflict
        BY <2>8, <2>12, <2>13 DEF BothChanged
    <2>16. R!Merged(q.snap[r].base, q.snap[r].val, Remote(q.seen, at))[f] = q.snap[r].val[f]
        BY <1>1, <2>10, <2>11, <2>14, <2>15, MergeFacts
    <2>17. Desired(q.snap, q.seen, at) = R!Merged(q.snap[r].base, q.snap[r].val, Remote(q.seen, at))
        BY <2>8, <2>12 DEF Desired
    <2>18. Made(q, at) # NoRow /\ Made(q, at).val = Desired(q.snap, q.seen, at)
        BY <2>0, <2>2, <2>13, MadeFacts
    <2> QED
        BY <2>8, <2>10, <2>16, <2>17, <2>18
<1>2. CalendarInv /\ [Next]_vars =>
        [\A r \in RowIds \ untracked :
           Bound(rows, r) /\ rows'[r] # rows[r] /\ jobs' # jobs /\ ~interrupted =>
             \A f \in Fields : rows[r].val[f] # rows[r].base[f]
                                => rows'[r] # NoRow /\ rows'[r].val[f] = rows[r].val[f]]_vars
    BY <1>1
<1> QED
    BY CalendarInvariant, <1>2, PTL DEF Spec, LocalEditKept

=============================================================================
