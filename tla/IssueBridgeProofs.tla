-------------------------- MODULE IssueBridgeProofs --------------------------
(***************************************************************************)
(* What holds of the issue tracker's passes for issues, rows, titles and    *)
(* outside events of any number: proofs for IssueBridge.                    *)
(***************************************************************************)
EXTENDS IssueBridge, TLAPS

-----------------------------------------------------------------------------
(* The inductive invariant.                                                 *)

\* A record is bound to a side, or kept here only; it is bound to the id it was
\* first seen under, unless its issue was forgotten.
RecordOK(s, rec) ==
    /\ rec.local # None \/ rec.remote # None \/ rec.localOnly
    /\ s[1] = "local" => rec.local = s[2]
    /\ s[1] = "remote" => rec.remote = s[2] \/ (rec.remote = None /\ rec.localOnly)
    /\ rec.localOnly => rec.pending = None
RecordsOK(records) == \A s \in Known(records) : RecordOK(s, records[s])

\* A create with a receipt knows its issue.
ReceiptsOK(j) ==
    \A s \in Subjects :
        j[s].create # None /\ j[s].create.state = "receipt" => j[s].create.id \in Numbers

\* The records of a pass are those of the last checkpoint, but for what was held
\* before it began and is dropped, and for what is not confirmed.
SameRecord(l, c) ==
    /\ l.local = c.local /\ l.remote = c.remote /\ l.base = c.base
    /\ l.localOnly = c.localOnly
    /\ l.pending = c.pending \/ (l.pending = None /\ IsHeld(c))
Mirrored ==
    /\ \A s \in Subjects : live[s] = None <=> snap[s] = None
    /\ \A s \in Known(live) : SameRecord(live[s], snap[s])
    /\ Idle => live = snap
    /\ hasPending(snap) => disk.records = snap

\* Where the pass is.
Listing == {"resume", "listRemote", "listLocal"}
Busy == {"check", "remote", "flight", "answered", "local", "bind", "verify"}
Updates == {"fields", "label"}
PassOK ==
    /\ Idle => pass = NoPass
    /\ pass.pc \in Busy <=> pass.cur # None
    /\ pass.pc \in Listing => ~(pass.phase = "plan")
    /\ pass.pc \in {"listRemote", "listLocal"} => pass.todo = {}
    /\ pass.pc = "plan" => pass.phase = "plan"
    /\ pass.pc = "listLocal" \/ pass.phase = "plan" => pass.remote \in ListedIssues
    /\ pass.phase = "plan" => pass.local \in ListedRows
    /\ pass.pc \in Listing \cup {"plan", "check", "remote"} => pass.id = None
    /\ pass.phase = "resume" =>
          \A s \in pass.todo : live[s] # None /\ live[s].pending # None
\* The operation under way.
OperationOK ==
    pass.cur # None =>
      /\ Cur # None /\ Op # None /\ ~Op.held /\ pass.cur \notin pass.todo
      /\ pass.pc \in {"flight", "answered"} =>
            /\ pass.step # None
            /\ pass.step \in Updates => Cur.remote # None /\ pass.id = None
            /\ pass.step \notin Updates => Cur.remote = None
            /\ (pass.step \notin Updates \cup {"create"} \/ (At("answered") /\ pass.step = "create"))
               => pass.id \in Numbers
            /\ At("flight") /\ pass.step = "create" => pass.id = None
            /\ journal[pass.cur][pass.step] # None
      /\ At("flight") => disk.journal[pass.cur][pass.step] # None
      /\ pass.pc \in {"local", "bind", "verify"} => Cur.remote # None
      /\ At("bind") => Cur.local = None /\ pass.id \in RowIds
      /\ At("verify") => Cur.local # None

MissingKnown ==
    Idle /\ problem # None /\ problem.kind = "missing" =>
        problem.subject # None /\ snap[problem.subject] # None

Core == /\ TypeOK /\ PassOK /\ OperationOK /\ Mirrored /\ MissingKnown
        /\ RecordsOK(live) /\ RecordsOK(snap) /\ RecordsOK(disk.records)
        /\ ReceiptsOK(journal) /\ ReceiptsOK(disk.journal)

\* Whatever is sent was approved.
Reviewed ==
    /\ ReviewedOnly /\ pass.approved \subseteq reviewed
    /\ pass.pc \in {"flight", "answered"} => Key(Cur.remote, Op.desired) \in reviewed

\* An issue the app created is journalled; a create under way has none yet.
Journalled ==
    /\ CreatedOnce
    /\ \A n \in Numbers : issues[n] # None /\ issues[n].by # None =>
          /\ journal[issues[n].by].create # None
          /\ disk.journal[issues[n].by].create # None
    /\ At("flight") /\ pass.step = "create" =>
          \A n \in Numbers : issues[n] # None => issues[n].by # pass.cur

\* What finish() checked is still so, on a side that nobody changed since.
Observed ==
    /\ pass.pc \in {"remote", "flight", "answered", "local"} /\ "local" \notin unseen
         /\ Cur.local # None =>
            Cur.local \in InTable /\ LocalValue \in {Op.local, Op.desired}
    /\ At("remote") \/ (At("flight") /\ pass.step = "fields") =>
         ("remote" \notin unseen /\ Cur.remote # None =>
            Cur.remote \in OnGitHub /\ RemoteValue \in {Op.remote, Op.desired})
    /\ At("flight") /\ pass.step = "fields" /\ "remote" \notin unseen =>
            RemoteValue # Op.desired

\* What this pass is done with is held and listed, or has no operation saved.
ListedAs(s, rec, held) ==
    IsHeld(rec) /\ \E h \in held : h.subject = s /\ h.key = Key(rec.remote, rec.pending.desired)
SettledAs(s, rec, held) ==
    rec.localOnly \/ ListedAs(s, rec, held) \/ (rec.pending = None /\ rec.base # None)
Shown ==
    /\ Idle /\ problem = None /\ shown # None =>
          \A s \in Known(snap) : SettledAs(s, snap[s], shown)
    /\ ~Idle => \A s \in Known(live) \ {pass.cur} :
          live[s].pending # None /\ ~(Resumed /\ s \in pass.todo) => ListedAs(s, live[s], pass.held)
    /\ pass.phase = "plan" => \A s \in Known(live) \ ({pass.cur} \cup pass.todo) :
          SettledAs(s, live[s], pass.held)
    /\ pass.phase = "plan" => \A s \in Known(live) : live[s].pending = snap[s].pending

\* A row with an issue number, that is no stray, is owned by the record of that issue.
RowsOf(table) == {r \in RowIds : table[r] \notin {None, Null}}
Numbered(table, out) == {r \in RowsOf(table) \ out : table[r].number # None}
OneRecord(records) ==
    \A s, t \in Known(records) : records[s].remote # None /\ records[s].remote = records[t].remote
                                 => s = t
Owns(s, rec, r, row) ==
    /\ rec.remote = row.number /\ ~rec.localOnly
    /\ rec.local = r \/ (rec.local = None /\ row.localId = s)
Linked(records, table, out) ==
    \A r \in Numbered(table, out) : \E s \in Known(records) : Owns(s, records[s], r, table[r])
OneCreated(table) ==
    \A q, r \in RowsOf(table) : table[q].localId # None /\ table[q].localId = table[r].localId => q = r
\* In the plan phase it is bound to it too, unless it was just made.
Settles(records, table, out, new) ==
    \A r \in Numbered(table, out) : \A s \in Known(records) \ new :
        records[s].remote = table[r].number => records[s].local = r
PlanSettles ==
    pass.phase = "plan" => Settles(live, rows, strays, IF At("bind") THEN {pass.cur} ELSE {})
Created == At("bind") => \A r \in RowsOf(rows) : rows[r].localId = pass.cur => r = pass.id
MissingSettles ==
    Idle /\ problem # None /\ problem.kind = "missing" =>
      \A r \in Numbered(rows, strays) :
        rows[r].number = snap[problem.subject].remote => snap[problem.subject].local = r
Bound ==
    /\ OneRecord(snap) /\ OneRecord(disk.records)
    /\ Linked(snap, rows, strays) /\ Linked(disk.records, rows, strays)
    /\ OneCreated(rows) /\ PlanSettles /\ Created /\ MissingSettles

-----------------------------------------------------------------------------
(* The operators.                                                           *)

\* "No such thing" is no number, no row and no record.
LEMMA NoId == None \notin Numbers /\ None \notin RowIds /\ None \notin Subjects /\ None \notin Nat
BY ModelValuesAssumption DEF Numbers, RowIds

LEMMA SubjectIds ==
    ASSUME NEW s \in Subjects
    PROVE  /\ s[1] \in {"local", "remote"}
           /\ s[1] = "local" => s[2] \in RowIds /\ s = <<"local", s[2]>>
           /\ s[1] = "remote" => s[2] \in Numbers /\ s = <<"remote", s[2]>>
BY DEF Subjects

\* What GitHub holds of an issue is a value the app knows: project().
LEMMA Projected ==
    ASSUME NEW i \in IssueSet
    PROVE  project(i) \in Values
<1>1. i.closed => "Done" \in Statuses
  BY DEF IssueSet, Flags
<1>2. i.doing => "Doing" \in Statuses
  BY DEF IssueSet, Flags
<1>3. i.title \in Titles
  BY DEF IssueSet
<1> QED BY <1>1, <1>2, <1>3, IssueAssumption DEF project, Values

\* A merge of two values is a value, whatever the baseline: reconcileRecord().
LEMMA MergedIsValue ==
    ASSUME NEW b, NEW l \in Values, NEW r \in Values
    PROVE  R!Merged(b, l, r) \in Values
<1> DEFINE D == R!Decision(b, l, r).remote
<1> HIDE DEF D
<1>1. ASSUME NEW p \in Fields PROVE R!At(l, p) = l[p] /\ R!At(r, p) = r[p]
  BY ModelValuesAssumption DEF R!At
<1>2. R!Merged(b, l, r) = [p \in Fields |-> IF p \in D THEN l[p] ELSE r[p]]
  BY <1>1 DEF R!Merged, D
<1>3. R!Merged(b, l, r) = [title |-> IF "title" \in D THEN l["title"] ELSE r["title"],
                           status |-> IF "status" \in D THEN l["status"] ELSE r["status"]]
  BY <1>2 DEF Fields
<1> QED BY <1>3 DEF Values

\* Settling a conflict leaves a baseline: resolveConflict().
LEMMA SettledIsBase ==
    ASSUME NEW rec \in RecordSet, NEW l \in Values, NEW r \in Values,
           NEW keep \in [Fields -> {"local", "remote"}]
    PROVE  Settled(rec, l, r, keep) \in Bases \cup {None}
<1> DEFINE C == R!Clashing(rec.base, l, r)
<1>1. \A f \in Fields : R!At(l, f) = l[f] /\ R!At(r, f) = r[f]
  BY ModelValuesAssumption DEF R!At
<1>2. rec.base \in Bases \cup {None}
  BY DEF RecordSet
<1>3. R!At(rec.base, "title") \in Titles \cup {None} /\ R!At(rec.base, "status") \in Statuses \cup {None}
  BY <1>2, ModelValuesAssumption DEF R!At, Bases
<1>4. /\ l["title"] \in Titles /\ r["title"] \in Titles
      /\ l["status"] \in Statuses /\ r["status"] \in Statuses
  BY DEF Values
<1> HIDE DEF C
<1>5. Settled(rec, l, r, keep) =
        IF C = {} THEN rec.base
        ELSE [title  |-> IF "title" \in C
                         THEN IF keep["title"] = "local" THEN R!At(r, "title") ELSE R!At(l, "title")
                         ELSE R!At(rec.base, "title"),
              status |-> IF "status" \in C
                         THEN IF keep["status"] = "local" THEN R!At(r, "status") ELSE R!At(l, "status")
                         ELSE R!At(rec.base, "status")]
  BY DEF Settled, C
<1> QED BY <1>1, <1>2, <1>3, <1>4, <1>5 DEF Bases, Fields

\* A record that is known, a record that is not.
LEMMA KnownRecord ==
    ASSUME NEW M \in RecordMaps, NEW s \in Subjects
    PROVE  /\ s \in Known(M) => M[s] \in RecordSet
           /\ s \notin Known(M) => M[s] = None
           /\ s \in Known(M) <=> M[s] # None
           /\ None \notin RecordSet
BY ModelValuesAssumption DEF RecordMaps, Known

\* One record replaced.
LEMMA OneReplaced ==
    ASSUME NEW M \in RecordMaps, RecordsOK(M), NEW s \in Subjects, NEW q \in RecordSet, RecordOK(s, q),
           NEW N, N = [M EXCEPT ![s] = q]
    PROVE  /\ N \in RecordMaps /\ RecordsOK(N) /\ N[s] = q
           /\ \A t \in Subjects \ {s} : N[t] = M[t]
           /\ Known(N) = Known(M) \cup {s}
<1>1. N \in RecordMaps /\ N[s] = q /\ \A t \in Subjects \ {s} : N[t] = M[t]
  BY DEF RecordMaps
<1>2. Known(N) = Known(M) \cup {s}
  BY <1>1, KnownRecord DEF Known
<1>3. ASSUME NEW t \in Known(N) PROVE RecordOK(t, N[t])
  <2>1. t = s \/ (t \in Known(M) /\ t # s /\ t \in Subjects)
    BY <1>2 DEF Known
  <2> QED BY <1>1, <2>1 DEF RecordsOK
<1> QED BY <1>1, <1>2, <1>3 DEF RecordsOK

\* A held operation is dropped, the rest of its record is as it was.
LEMMA HeldDropped ==
    ASSUME NEW M \in RecordMaps, RecordsOK(M), NEW s \in Subjects, s \in Known(M), IsHeld(M[s]),
           NEW N \in RecordMaps, N[s] \in RecordSet, N[s].pending = None,
           N[s].local = M[s].local, N[s].remote = M[s].remote,
           N[s].base = M[s].base, N[s].localOnly = M[s].localOnly,
           \A t \in Subjects \ {s} : N[t] = M[t]
    PROVE  RecordsOK(N) /\ Known(N) = Known(M)
<1>1. M[s] \in RecordSet /\ RecordOK(s, M[s])
  BY KnownRecord DEF RecordsOK
<1>2. RecordOK(s, N[s])
  BY <1>1 DEF RecordOK
<1>3. Known(N) = Known(M)
  BY <1>1, KnownRecord DEF Known
<1>4. ASSUME NEW t \in Known(N) PROVE RecordOK(t, N[t])
  <2>1. t = s \/ (t \in Known(M) /\ t # s /\ t \in Subjects)
    BY <1>3 DEF Known
  <2> QED BY <1>2, <2>1 DEF RecordsOK
<1> QED BY <1>3, <1>4 DEF RecordsOK

\* The sync resource.
Disks == [records : RecordMaps, journal : Journals]
LEMMA Flushed ==
    ASSUME NEW M \in RecordMaps, NEW j \in Journals, flush(M, j)
    PROVE  disk' \in Disks /\ disk'.records = M /\ disk'.journal = j
BY DEF flush, Disks

\* What a checkpoint leaves: the session's records, and the saved ones if they
\* carry an operation.
LEMMA Checkpointed ==
    ASSUME Core, NEW M \in RecordMaps, RecordsOK(M), checkpoint(M),
           journal' \in Journals, ReceiptsOK(journal)'
    PROVE  /\ live' = M /\ snap' = M /\ disk' \in Disks
           /\ RecordsOK(live)' /\ RecordsOK(snap)' /\ RecordsOK(disk.records)'
           /\ ReceiptsOK(disk.journal)'
           /\ hasPending(snap)' => disk'.records = snap' /\ disk'.journal = journal'
           /\ disk'.records = M \/ disk' = disk
<1>1. live' = M /\ snap' = M
  BY DEF checkpoint
<1>2. CASE hasPending(M)
  <2>1. flush(M, journal')
    BY <1>2 DEF checkpoint
  <2>2. disk' \in Disks /\ disk'.records = M /\ disk'.journal = journal'
    BY <2>1, Flushed
  <2> QED BY <1>1, <2>2 DEF RecordsOK, ReceiptsOK, Known
<1>3. CASE ~hasPending(M)
  <2>1. disk' = disk
    BY <1>3 DEF checkpoint
  <2>2. disk \in Disks /\ RecordsOK(disk.records) /\ ReceiptsOK(disk.journal)
    BY DEF Core, TypeOK, Disks
  <2>3. ~hasPending(snap)'
    BY <1>1, <1>3 DEF hasPending, Known
  <2> QED BY <1>1, <2>1, <2>2, <2>3 DEF RecordsOK, ReceiptsOK, Known
<1> QED BY <1>2, <1>3

\* The state outside the app, and the ghosts, of the right type.
Around ==
    /\ issues \in [Numbers -> IssueSet \cup {None}]
    /\ rows \in [RowIds -> RowSet \cup {None, Null}]
    /\ reviewed \subseteq Keys /\ unseen \subseteq {"local", "remote"}
    /\ strays \subseteq RowIds \cup {None} /\ left \in 0..MaxEvents
\* The session and what is saved of it.
Saved ==
    /\ snap \in RecordMaps /\ RecordsOK(snap) /\ journal \in Journals /\ ReceiptsOK(journal)
    /\ disk \in Disks /\ RecordsOK(disk.records) /\ ReceiptsOK(disk.journal)
    /\ hasPending(snap) => disk.records = snap

LEMMA CoreParts == ASSUME Core PROVE Around /\ Saved
BY DEF Core, TypeOK, Around, Saved, Mirrored, Disks

LEMMA NoPassOK ==
    ASSUME TRUE
    PROVE  /\ NoPass \in PassSet /\ NoPass.pc = "idle" /\ NoPass.cur = None /\ NoPass.phase = "resume"
           /\ NoPass.todo = {} /\ NoPass.id = None /\ NoPass.approved = {} /\ NoPass.step = None
           /\ NoPass.held = {} /\ NoPass.local = None /\ NoPass.remote = None
<1>1. /\ NoPass.pc = "idle" /\ NoPass.cur = None /\ NoPass.phase = "resume"
      /\ NoPass.todo = {} /\ NoPass.id = None /\ NoPass.approved = {} /\ NoPass.step = None
      /\ NoPass.held = {} /\ NoPass.local = None /\ NoPass.remote = None
  BY DEF NoPass
<1>2. {} \in SUBSET Subjects /\ {} \in SUBSET Keys /\ {} \in SUBSET HeldSet /\ "idle" \in Pcs
  BY DEF Pcs
<1>3. NoPass \in PassSet
  BY <1>2 DEF NoPass, PassSet
<1> QED BY <1>1, <1>3

\* A pass that stops, whatever it was doing.
LEMMA Stopped ==
    ASSUME Core, NEW p \in Kinds, NEW about \in Subjects \cup {None}, Stop(p, about),
           p = "missing" => about # None /\ snap'[about] # None,
           Around', Saved'
    PROVE  Core'
<1>1. /\ problem' = [kind |-> p, subject |-> about] /\ pass' = NoPass /\ live' = snap'
      /\ conflict' \in {conflict, about} /\ kind' = kind /\ shown' = shown
  BY DEF Stop
<1>2. problem' \in ProblemSet /\ problem'.kind = p /\ problem'.subject = about
  BY <1>1 DEF ProblemSet
<1>3. TypeOK'
  BY <1>1, <1>2, NoPassOK DEF Core, TypeOK, Around, Saved, Disks
<1>4. PassOK' /\ OperationOK'
  BY <1>1, NoPassOK DEF PassOK, OperationOK, Idle, Listing, Busy, Resumed, At
<1>5. RecordsOK(live)'
  BY <1>1 DEF Saved, RecordsOK, Known
<1>6. Mirrored'
  BY <1>1 DEF Saved, Mirrored, SameRecord
<1>7. MissingKnown'
  BY <1>1, <1>2 DEF MissingKnown
<1> QED BY <1>3, <1>4, <1>5, <1>6, <1>7 DEF Core, Saved

LEMMA StoppedFlushed ==
    ASSUME Core, NEW p \in Kinds, NEW about \in Subjects \cup {None}, StopFlushed(p, about),
           p = "missing" => about # None /\ snap[about] # None,
           Around'
    PROVE  Core' /\ disk'.journal = journal /\ disk'.records = snap
<1>1. snap' = snap /\ journal' = journal /\ flush(snap, journal) /\ Stop(p, about)
  BY DEF StopFlushed
<1>2. snap \in RecordMaps /\ journal \in Journals /\ RecordsOK(snap) /\ ReceiptsOK(journal)
  BY CoreParts DEF Saved
<1>3. disk' \in Disks /\ disk'.records = snap /\ disk'.journal = journal
  BY <1>1, <1>2, Flushed
<1>4. Saved'
  BY <1>1, <1>2, <1>3 DEF Saved, RecordsOK, ReceiptsOK, Known
<1> QED BY <1>1, <1>3, <1>4, Stopped

LEMMA StoppedFor ==
    ASSUME Core, NEW p \in Kinds, p # "missing", StopFlushed(p, None) \/ StopFlushed(p, pass.cur),
           Around'
    PROVE  Core' /\ disk'.journal = journal /\ disk'.records = snap
<1>1. pass.cur \in Subjects \cup {None} /\ None \in Subjects \cup {None}
  BY DEF Core, TypeOK, PassSet
<1> QED BY <1>1, StoppedFlushed

LEMMA SameAsSelf == ASSUME NEW rec PROVE SameRecord(rec, rec)
BY DEF SameRecord

\* A pass that begins.
LEMMA Begun ==
    ASSUME Core, Idle, NEW approved \in SUBSET Keys, RunPass(snap', approved), UNCHANGED view,
           Around', Saved'
    PROVE  /\ Core' /\ pass'.pc = "resume" /\ pass'.approved = approved
           /\ pass'.cur = None /\ pass'.phase = "resume" /\ pass'.held = {}
           /\ live' = snap' /\ pass'.todo = {s \in Known(snap') : snap'[s].pending # None}
<1> DEFINE todo == {s \in Known(snap') : snap'[s].pending # None}
<1>1. live' = snap'
      /\ pass' = [NoPass EXCEPT !.pc = "resume", !.approved = approved, !.todo = todo]
  BY DEF RunPass
<1>2. todo \subseteq Subjects
  BY DEF Known
<1>3. PICK q : q = pass'
  OBVIOUS
<1> HIDE DEF todo
<1>4. /\ q \in PassSet /\ q.pc = "resume" /\ q.approved = approved /\ q.todo = todo /\ q.cur = None
      /\ q.phase = "resume" /\ q.id = None /\ q.held = {}
  <2>1. "resume" \in Pcs
    BY DEF Pcs
  <2> QED BY <1>1, <1>2, <1>3, <2>1, NoPassOK DEF PassSet
<1>5. snap' \in RecordMaps /\ RecordsOK(snap)'
  BY DEF Saved
<1>6. RecordsOK(snap')
  BY <1>5 DEF RecordsOK, Known
<1>7. /\ live' \in RecordMaps /\ RecordsOK(live')
      /\ \A s \in Subjects : live'[s] = None <=> snap'[s] = None
      /\ \A s \in Known(snap') : SameRecord(live'[s], snap'[s])
  BY <1>1, <1>5, <1>6, SameAsSelf
<1>8. RecordsOK(live)'
  BY <1>7 DEF RecordsOK, Known
<1>9. TypeOK'
  BY <1>3, <1>4, <1>7 DEF view, Core, TypeOK, Around, Saved, Disks
<1>10. PassOK'
  <2>1. \A s \in todo : s \in Known(snap') /\ snap'[s].pending # None
    BY DEF todo
  <2>2. \A s \in todo : live'[s] # None /\ live'[s].pending # None
    BY <1>1, <2>1 DEF Known
  <2> QED BY <1>3, <1>4, <2>2 DEF PassOK, Idle, Listing, Busy, IsHeld
<1>11. OperationOK' /\ MissingKnown'
  BY <1>3, <1>4 DEF OperationOK, MissingKnown, Idle, At
<1>12. Mirrored'
  <2>1. ~Idle'
    BY <1>3, <1>4 DEF Idle
  <2>2. Known(live)' = Known(snap')
    BY <1>7 DEF Known
  <2>3. \A s \in Known(live)' : SameRecord(live[s], snap[s])'
    BY <1>7, <2>2 DEF SameRecord, IsHeld
  <2>4. (hasPending(snap) => disk.records = snap)'
    BY DEF Saved
  <2> QED BY <1>7, <2>1, <2>3, <2>4 DEF Mirrored
<1>13. Core'
  BY <1>8, <1>9, <1>10, <1>11, <1>12 DEF Core, Saved
<1> QED BY <1>1, <1>3, <1>4, <1>13 DEF todo

\* The journal has changed, and is saved or not.
LEMMA SavedAnew ==
    ASSUME Core, NEW j \in Journals, ReceiptsOK(j), journal' = j, UNCHANGED snap,
           UNCHANGED disk \/ flush(snap, j)
    PROVE  Saved'
<1>1. Saved /\ snap' = snap
  BY CoreParts
<1>2. CASE UNCHANGED disk
  BY <1>1, <1>2 DEF Saved, RecordsOK, ReceiptsOK, Known, hasPending
<1>3. CASE flush(snap, j)
  <2>1. snap \in RecordMaps
    BY <1>1 DEF Saved
  <2>2. disk' \in Disks /\ disk'.records = snap /\ disk'.journal = j
    BY <1>3, <2>1, Flushed
  <2> QED BY <1>1, <2>2 DEF Saved, RecordsOK, ReceiptsOK, Known, hasPending
<1> QED BY <1>2, <1>3

LEMMA AroundKept == ASSUME Core, UNCHANGED <<sides, ghosts, left>> PROVE Around'
BY CoreParts DEF sides, ghosts, Around

LEMMA SavedKept == ASSUME Core, UNCHANGED <<disk, session>> PROVE Saved'
<1>1. Saved /\ disk' = disk /\ snap' = snap /\ journal' = journal
  BY CoreParts DEF session
<1> QED BY <1>1 DEF Saved, RecordsOK, ReceiptsOK, Known, hasPending

\* A pass that goes on.
LEMMA Continued ==
    ASSUME Core, UNCHANGED view, Around', Saved', pass' \in PassSet, pass'.pc # "idle",
           live' \in RecordMaps, RecordsOK(live'),
           \A s \in Subjects : live'[s] = None <=> snap'[s] = None,
           \A s \in Known(live') : SameRecord(live'[s], snap'[s]),
           PassOK', OperationOK'
    PROVE  Core'
<1>1. TypeOK'
  BY DEF view, Core, TypeOK, Around, Saved, Disks
<1>2. Mirrored' /\ MissingKnown'
  <2>1. ~Idle'
    BY DEF Idle
  <2>2. \A s \in Known(live)' : SameRecord(live[s], snap[s])'
    BY DEF SameRecord, IsHeld, Known
  <2> QED BY <2>1, <2>2 DEF Mirrored, MissingKnown, Saved
<1>3. RecordsOK(live)'
  BY DEF RecordsOK, Known
<1> QED BY <1>1, <1>2, <1>3 DEF Core, Saved

\* The records stay as they are.
LEMMA RecordsKept ==
    ASSUME Core, UNCHANGED <<snap, view, live>>, Around', Saved', pass' \in PassSet, pass'.pc # "idle",
           PassOK', OperationOK'
    PROVE  Core'
<1>1. /\ live \in RecordMaps /\ RecordsOK(live) /\ live' = live /\ snap' = snap
      /\ \A s \in Subjects : live[s] = None <=> snap[s] = None
      /\ \A s \in Known(live) : SameRecord(live[s], snap[s])
  BY DEF Core, TypeOK, Mirrored
<1> QED BY <1>1, Continued

\* The records are checkpointed.
LEMMA RecordsWritten ==
    ASSUME Core, NEW M \in RecordMaps, RecordsOK(M), checkpoint(M), UNCHANGED view, Around',
           journal' \in Journals, ReceiptsOK(journal)',
           pass' \in PassSet, pass'.pc # "idle", PassOK', OperationOK'
    PROVE  Core'
<1>1. /\ live' = M /\ snap' = M /\ Saved'
  BY Checkpointed DEF Saved
<1>2. \A s \in Known(live') : SameRecord(live'[s], snap'[s])
  BY <1>1, SameAsSelf
<1> QED BY <1>1, <1>2, Continued

-----------------------------------------------------------------------------
(* Every step keeps the types, the shape of the pass and what its records   *)
(* are, one action at a time.                                               *)

LEMMA SyncCore == ASSUME Core, Sync PROVE Core'
<1>1. Around' /\ Saved'
  BY AroundKept, SavedKept DEF Sync
<1>2. RunPass(snap', {}) /\ Idle /\ UNCHANGED view /\ {} \in SUBSET Keys
  BY DEF Sync, CanRun, session
<1> QED BY <1>1, <1>2, Begun

LEMMA SendCore == ASSUME Core, Send PROVE Core'
<1> DEFINE keys == {h.key : h \in shown}
<1>1. keys \subseteq Keys
  BY DEF Send, Core, TypeOK, HeldSet
<1> HIDE DEF keys
<1>2. /\ RunPass(snap, keys) /\ reviewed' = reviewed \cup keys /\ Idle
      /\ UNCHANGED <<sides, disk, session, view, unseen, strays, left>>
  BY DEF Send, CanRun, keys
<1>3. Around'
  BY <1>1, <1>2, CoreParts DEF Around, sides
<1>4. Saved' /\ RunPass(snap', keys) /\ UNCHANGED view
  BY <1>2, SavedKept DEF session
<1> QED BY <1>1, <1>2, <1>3, <1>4, Begun

\* The fields of the pass, and its operation.
LEMMA PassFields ==
    ASSUME Core
    PROVE  /\ pass \in PassSet /\ pass.pc \in Pcs /\ pass.todo \subseteq Subjects
           /\ pass.cur \in Subjects \cup {None} /\ pass.id \in Nat \cup {None}
           /\ pass.step \in Steps \cup {None}
           /\ pass.cur # None => /\ pass.cur \in Known(live) /\ Cur \in RecordSet /\ Op \in OpSet
                                 /\ RecordOK(pass.cur, Cur)
<1>1. /\ pass \in PassSet /\ pass.pc \in Pcs /\ pass.todo \subseteq Subjects
      /\ pass.cur \in Subjects \cup {None} /\ pass.id \in Nat \cup {None}
      /\ pass.step \in Steps \cup {None}
  BY DEF Core, TypeOK, PassSet
<1>2. ASSUME pass.cur # None
      PROVE  pass.cur \in Known(live) /\ Cur \in RecordSet /\ Op \in OpSet /\ RecordOK(pass.cur, Cur)
  <2>1. pass.cur \in Known(live) /\ Op # None
    BY <1>1, <1>2 DEF Core, OperationOK, Known, Cur
  <2>2. Cur \in RecordSet
    BY <2>1, KnownRecord DEF Core, TypeOK, Cur, Known
  <2> QED BY <2>1, <2>2 DEF Core, RecordsOK, Op, RecordSet, Cur
<1> QED BY <1>1, <1>2

LEMMA ResumeCore == ASSUME Core, Resume PROVE Core'
<1>1. /\ At("resume") /\ UNCHANGED <<sides, disk, session, view, ghosts, left>>
      /\ Around' /\ Saved'
  BY AroundKept, SavedKept DEF Resume
<1>2. pass.cur = None /\ pass.id = None /\ pass.phase = "resume"
  BY <1>1 DEF Core, PassOK, At, Busy, Listing, TypeOK, PassSet
<1>3. PICK q : q = pass'
  OBVIOUS
<1>4. \A t \in pass.todo : live[t] # None /\ live[t].pending # None
  BY <1>2 DEF Core, PassOK
<1>5. CASE pass.todo = {} /\ Go("listRemote") /\ UNCHANGED live
  <2>1. q = [pass EXCEPT !.pc = "listRemote"]
    BY <1>3, <1>5 DEF Go
  <2>2. /\ q \in PassSet /\ q.pc = "listRemote" /\ q.cur = None /\ q.id = None /\ q.todo = {}
        /\ q.phase = "resume"
    BY <1>2, <1>5, <2>1, PassFields DEF PassSet, Pcs
  <2>3. PassOK' /\ OperationOK'
    BY <1>3, <2>2 DEF PassOK, OperationOK, Idle, Listing, Busy, At
  <2> QED BY <1>1, <1>3, <1>5, <2>2, <2>3, RecordsKept DEF session
<1>6. ASSUME NEW s \in pass.todo, IsHeld(live[s]), pass' = [pass EXCEPT !.todo = @ \ {s}],
             live' = [live EXCEPT ![s] = [live[s] EXCEPT !.pending = None]]
      PROVE  Core'
  <2>1. /\ live \in RecordMaps /\ RecordsOK(live) /\ snap' = snap
        /\ \A t \in Subjects : live[t] = None <=> snap[t] = None
        /\ \A t \in Known(live) : SameRecord(live[t], snap[t])
    BY <1>1 DEF Core, TypeOK, Mirrored, session
  <2>2. s \in Known(live) /\ s \in Subjects
    BY <1>4, PassFields DEF Known
  <2>3. /\ live' \in RecordMaps /\ RecordsOK(live') /\ Known(live') = Known(live)
        /\ live'[s].pending = None
        /\ live'[s].local = live[s].local /\ live'[s].remote = live[s].remote
        /\ live'[s].base = live[s].base /\ live'[s].localOnly = live[s].localOnly
        /\ \A t \in Subjects \ {s} : live'[t] = live[t]
    <3>1. PICK r : r = [live[s] EXCEPT !.pending = None]
      OBVIOUS
    <3>2. PICK N : N = live'
      OBVIOUS
    <3>3. N = [live EXCEPT ![s] = r]
      BY <1>6, <3>1, <3>2
    <3>5. /\ r \in RecordSet /\ r.pending = None /\ r.local = live[s].local /\ r.remote = live[s].remote
          /\ r.base = live[s].base /\ r.localOnly = live[s].localOnly
      <4>1. live[s] \in RecordSet
        BY <2>1, <2>2, KnownRecord
      <4> QED BY <3>1, <4>1 DEF RecordSet
    <3>6. /\ N \in RecordMaps /\ N[s] = r
          /\ \A t \in Subjects \ {s} : N[t] = live[t]
      BY <2>1, <2>2, <3>3, <3>5 DEF RecordMaps
    <3>7. RecordsOK(N) /\ Known(N) = Known(live)
      BY <1>6, <2>1, <2>2, <3>5, <3>6, HeldDropped
    <3>4. /\ N \in RecordMaps /\ RecordsOK(N) /\ Known(N) = Known(live)
          /\ N[s].pending = None
          /\ N[s].local = live[s].local /\ N[s].remote = live[s].remote
          /\ N[s].base = live[s].base /\ N[s].localOnly = live[s].localOnly
          /\ \A t \in Subjects \ {s} : N[t] = live[t]
      BY <3>5, <3>6, <3>7
    <3> QED BY <3>2, <3>4
  <2>4. SameRecord(live'[s], snap'[s])
    <3>1. SameRecord(live[s], snap[s])
      BY <2>1, <2>2
    <3> QED BY <1>6, <2>1, <2>3, <3>1 DEF SameRecord, IsHeld
  <2>5. \A t \in Known(live') : SameRecord(live'[t], snap'[t])
    BY <2>1, <2>3, <2>4 DEF Known
  <2>6. \A t \in Subjects : live'[t] = None <=> snap'[t] = None
    BY <2>1, <2>3 DEF Known
  <2>7. /\ q \in PassSet /\ q.pc = "resume" /\ q.cur = None /\ q.id = None
        /\ q.todo = pass.todo \ {s} /\ q.phase = "resume"
    BY <1>1, <1>2, <1>3, <1>6, PassFields DEF PassSet, At
  <2>8. \A t \in pass.todo \ {s} : live'[t] # None /\ live'[t].pending # None
    BY <1>4, <2>3, PassFields
  <2>9. PassOK' /\ OperationOK'
    BY <1>3, <2>7, <2>8 DEF PassOK, OperationOK, Idle, Listing, Busy, At
  <2> QED BY <1>1, <1>3, <2>3, <2>5, <2>6, <2>7, <2>9, Continued
<1>7. ASSUME NEW s \in pass.todo, ~IsHeld(live[s]), UNCHANGED live,
             pass' = [pass EXCEPT !.todo = @ \ {s}, !.cur = s, !.pc = "check"]
      PROVE  Core'
  <2>1. /\ q \in PassSet /\ q.pc = "check" /\ q.cur = s /\ q.id = None /\ q.todo = pass.todo \ {s}
        /\ q.phase = "resume" /\ s \in Subjects
    BY <1>2, <1>3, <1>7, PassFields DEF PassSet, Pcs
  <2>2. PassOK'
    BY <1>1, <1>3, <1>4, <1>7, <2>1, ModelValuesAssumption DEF PassOK, Idle, Listing, Busy, At
  <2>3. OperationOK'
    BY <1>1, <1>3, <1>4, <1>7, <2>1 DEF OperationOK, At, IsHeld, Cur, Op
  <2> QED BY <1>1, <1>3, <1>7, <2>1, <2>2, <2>3, RecordsKept DEF session
<1> QED BY <1>5, <1>6, <1>7 DEF Resume

LEMMA ListRemoteCore == ASSUME Core, ListRemote PROVE Core'
<1>1. /\ At("listRemote") /\ UNCHANGED <<sides, disk, session, view, live, ghosts, left>>
      /\ Around' /\ Saved'
  BY AroundKept, SavedKept DEF ListRemote
<1>2. pass.cur = None /\ pass.id = None /\ pass.phase = "resume" /\ pass.todo = {}
  BY <1>1 DEF Core, PassOK, At, Busy, Listing, TypeOK, PassSet
<1> DEFINE list == [n \in Numbers |-> IF n \in OnGitHub
                                      THEN [val |-> project(issues[n]), rev |-> issues[n].rev]
                                      ELSE None]
<1>3. list \in ListedIssues
  <2>1. ASSUME NEW n \in OnGitHub
        PROVE  [val |-> project(issues[n]), rev |-> issues[n].rev] \in [val : Values, rev : Nat]
    <3>1. issues[n] \in IssueSet
      BY CoreParts DEF OnGitHub, Around
    <3>2. issues[n].rev \in Nat
      BY <3>1 DEF IssueSet
    <3> QED BY <3>1, <3>2, Projected
  <2> QED BY <2>1 DEF ListedIssues
<1> HIDE DEF list
<1>5. PICK q : q = pass'
  OBVIOUS
<1>6. q = [pass EXCEPT !.pc = "listLocal", !.remote = list]
  BY <1>5 DEF ListRemote, list
<1>7. /\ q \in PassSet /\ q.pc = "listLocal" /\ q.cur = None /\ q.id = None /\ q.todo = {}
      /\ q.phase = "resume" /\ q.remote = list
  BY <1>2, <1>3, <1>6, PassFields DEF PassSet, Pcs
<1>8. PassOK' /\ OperationOK'
  BY <1>3, <1>5, <1>7 DEF PassOK, OperationOK, Idle, Listing, Busy, At
<1> QED BY <1>1, <1>5, <1>7, <1>8, RecordsKept DEF session

-----------------------------------------------------------------------------
(* What listing both sides does to the records.                             *)

LEMMA SubjectIs ==
    ASSUME NEW M, NEW n \in Numbers
    PROVE  /\ SubjectFor(M, n) \in Subjects
           /\ \/ SubjectFor(M, n) \in Known(M) /\ M[SubjectFor(M, n)].remote = n
              \/ SubjectFor(M, n) = <<"remote", n>> /\ BoundTo(M, "remote", n) = {}
<1>1. CASE BoundTo(M, "remote", n) = {}
  BY <1>1 DEF SubjectFor, Subjects
<1>2. CASE BoundTo(M, "remote", n) # {}
  <2>1. SubjectFor(M, n) \in BoundTo(M, "remote", n)
    BY <1>2 DEF SubjectFor
  <2> QED BY <2>1 DEF BoundTo, Known
<1> QED BY <1>1, <1>2

\* A row is bound by its number to the record of that issue, or to a new one.
LEMMA RowBound ==
    ASSUME NEW M \in RecordMaps, RecordsOK(M), NEW list \in ListedRows, ~ColumnClash(M, list),
           NEW r \in ByColumn(M, list)
    PROVE  LET s == SubjectFor(M, list[r].number)
           IN  /\ r \in RowIds /\ list[r] \in RowSet /\ list[r].number \in Numbers /\ s \in Subjects
               /\ \A q \in ByColumn(M, list) : SubjectFor(M, list[q].number) = s => q = r
               /\ s \in Known(M) => M[s].remote = list[r].number /\ M[s].local \in {None, r}
                                    /\ ~M[s].localOnly
               /\ s \notin Known(M) => s = <<"remote", list[r].number>>
                                       /\ BoundTo(M, "remote", list[r].number) = {}
<1>1. r \in RowIds /\ list[r] # None /\ list[r].number # None
  BY DEF ByColumn
<1>2. list[r] \in RowSet /\ list[r].number \in Numbers
  BY <1>1 DEF ListedRows, RowSet
<1>3. PICK s : s = SubjectFor(M, list[r].number)
  OBVIOUS
<1>4. ~(M[s] # None /\ M[s].localOnly)
  BY <1>3 DEF ByColumn
<1>5. /\ ~(M[s] # None /\ M[s].local \notin {None, r})
      /\ ~(M[s] # None /\ M[s].remote \notin {None, list[r].number})
      /\ \A q \in ByColumn(M, list) \ {r} : SubjectFor(M, list[q].number) # s
  BY <1>3 DEF ColumnClash
<1>6. /\ s \in Subjects
      /\ \/ s \in Known(M) /\ M[s].remote = list[r].number
         \/ s = <<"remote", list[r].number>> /\ BoundTo(M, "remote", list[r].number) = {}
  BY <1>2, <1>3, SubjectIs
<1>7. ASSUME s \in Known(M), s = <<"remote", list[r].number>>, BoundTo(M, "remote", list[r].number) = {}
      PROVE  FALSE
  <2>1. M[s] # None /\ RecordOK(s, M[s]) /\ ~M[s].localOnly
    BY <1>4, <1>7 DEF RecordsOK, Known
  <2>2. M[s].remote = list[r].number
    BY <1>7, <2>1 DEF RecordOK
  <2> QED BY <1>7, <2>2 DEF BoundTo
<1>8. s \in Known(M) => M[s].remote = list[r].number /\ M[s].local \in {None, r} /\ ~M[s].localOnly
  BY <1>4, <1>5, <1>6, <1>7 DEF Known
<1> QED BY <1>1, <1>2, <1>3, <1>5, <1>6, <1>8

LEMMA ColumnBound ==
    ASSUME NEW M \in RecordMaps, RecordsOK(M), NEW list \in ListedRows, ~ColumnClash(M, list),
           NEW s \in Subjects
    PROVE  LET C == ColumnBinds(M, list)[s]
           IN  \/ /\ C = M[s]
                  /\ \A r \in ByColumn(M, list) : SubjectFor(M, list[r].number) # s
               \/ \E r \in ByColumn(M, list) :
                     /\ SubjectFor(M, list[r].number) = s
                     /\ C \in RecordSet /\ RecordOK(s, C)
                     /\ C.local = r /\ C.remote = list[r].number /\ ~C.localOnly
                     /\ s \in Known(M) =>
                           /\ C.base = M[s].base /\ C.pending = M[s].pending
                           /\ C.unconfirmed = M[s].unconfirmed
                     /\ s \notin Known(M) => C.pending = None
<1> DEFINE rs == {r \in ByColumn(M, list) : SubjectFor(M, list[r].number) = s}
           r == CHOOSE r \in rs : TRUE
           from == IF M[s] = None THEN Record(r, None) ELSE M[s]
<1>0. ColumnBinds(M, list)[s] =
         IF rs = {} THEN M[s] ELSE [from EXCEPT !.local = r, !.remote = list[r].number]
  BY DEF ColumnBinds
<1>1. CASE rs = {}
  BY <1>0, <1>1
<1>2. CASE rs # {}
  <2>1. r \in rs
    BY <1>2
  <2>2. PICK q : q = r
    OBVIOUS
  <2>3. PICK C : C = ColumnBinds(M, list)[s]
    OBVIOUS
  <2>4. /\ q \in ByColumn(M, list) /\ SubjectFor(M, list[q].number) = s
        /\ C = [from EXCEPT !.local = q, !.remote = list[q].number]
    BY <1>0, <1>2, <2>1, <2>2, <2>3
  <2>5. /\ q \in RowIds /\ list[q].number \in Numbers
        /\ s \in Known(M) => M[s].remote = list[q].number /\ M[s].local \in {None, q} /\ ~M[s].localOnly
        /\ s \notin Known(M) => s = <<"remote", list[q].number>>
    BY <2>4, RowBound
  <2>6. CASE s \in Known(M)
    <3>1. from = M[s] /\ M[s] \in RecordSet /\ RecordOK(s, M[s])
      BY <2>6, KnownRecord DEF RecordsOK
    <3> HIDE DEF from, r, rs
    <3>2. /\ C \in RecordSet /\ C.local = q /\ C.remote = list[q].number /\ ~C.localOnly
          /\ C.base = M[s].base /\ C.pending = M[s].pending /\ C.unconfirmed = M[s].unconfirmed
      BY <2>4, <2>5, <2>6, <3>1 DEF RecordSet
    <3>3. q # None /\ list[q].number # None
      BY <2>5, NoId
    <3>4. s[1] = "local" => M[s].local = q /\ s[2] = q
      BY <2>5, <2>6, <3>1, SubjectIds, NoId DEF RecordOK
    <3>5. s[1] = "remote" => C.remote = s[2]
      BY <2>5, <2>6, <3>1, <3>2, <3>3 DEF RecordOK
    <3>6. RecordOK(s, C)
      BY <3>2, <3>3, <3>4, <3>5 DEF RecordOK
    <3> QED BY <2>3, <2>4, <2>6, <3>2, <3>6
  <2>7. CASE s \notin Known(M)
    <3>1. from = Record(q, None)
      BY <2>2, <2>7 DEF Known
    <3> HIDE DEF from, r, rs
    <3>2. /\ C \in RecordSet /\ C.local = q /\ C.remote = list[q].number /\ ~C.localOnly
          /\ C.base = None /\ C.pending = None
      BY <2>4, <2>5, <3>1 DEF RecordSet, Record
    <3>3. RecordOK(s, C)
      <4>1. s[1] = "remote" /\ s[2] = list[q].number
        BY <2>5, <2>7
      <4>2. list[q].number # None
        BY <2>5, NoId
      <4> QED BY <3>2, <4>1, <4>2 DEF RecordOK
    <3> QED BY <2>3, <2>4, <2>7, <3>2, <3>3
  <2> QED BY <2>6, <2>7
<1> QED BY <1>1, <1>2

\* An issue nobody is bound to gets a record of its own, or comes back to the one
\* that was kept here only.
LEMMA IssueIngested ==
    ASSUME NEW M \in RecordMaps, RecordsOK(M), NEW ids \in SUBSET Numbers, NEW s \in Subjects
    PROVE  LET I == IngestSide(M, "remote", ids)[s]
               new == s[1] = "remote" /\ s[2] \in ids /\ BoundTo(M, "remote", s[2]) = {}
           IN  \/ ~new /\ I = M[s]
               \/ /\ new /\ I \in RecordSet /\ RecordOK(s, I) /\ I.remote = s[2] /\ I.pending = None
                  /\ s \in Known(M) =>
                        /\ M[s].remote = None /\ M[s].localOnly /\ I.localOnly
                        /\ I.local = M[s].local /\ I.base = M[s].base /\ I.pending = M[s].pending
<1> DEFINE new == s[1] = "remote" /\ s[2] \in ids /\ BoundTo(M, "remote", s[2]) = {}
<1>1. CASE ~new
  BY <1>1 DEF IngestSide
<1>2. CASE new
  <2>1. PICK I : I = IngestSide(M, "remote", ids)[s]
    OBVIOUS
  <2>2. I = IF M[s] = None THEN [Record(None, None) EXCEPT !["remote"] = s[2]]
            ELSE [M[s] EXCEPT !["remote"] = s[2]]
    BY <1>2, <2>1 DEF IngestSide
  <2>3. s[2] \in Numbers /\ s[2] # None
    BY <1>2, NoId
  <2>4. CASE s \in Known(M)
    <3>1. M[s] \in RecordSet /\ RecordOK(s, M[s]) /\ M[s] # None
      BY <2>4, KnownRecord DEF RecordsOK
    <3>2. M[s].remote # s[2]
      BY <1>2, <2>4 DEF BoundTo
    <3>3. M[s].remote = None /\ M[s].localOnly /\ M[s].pending = None
      BY <1>2, <3>1, <3>2 DEF RecordOK
    <3>4. /\ I \in RecordSet /\ I.remote = s[2] /\ I.local = M[s].local /\ I.base = M[s].base
          /\ I.pending = M[s].pending /\ I.localOnly = M[s].localOnly
      BY <2>2, <2>3, <3>1 DEF RecordSet
    <3>5. RecordOK(s, I)
      BY <1>2, <3>3, <3>4 DEF RecordOK
    <3> QED BY <1>2, <2>1, <3>3, <3>4, <3>5
  <2>5. CASE s \notin Known(M)
    <3>1. I = [Record(None, None) EXCEPT !["remote"] = s[2]]
      BY <2>2, <2>5 DEF Known
    <3>2. /\ I \in RecordSet /\ I.remote = s[2] /\ I.local = None /\ I.base = None
          /\ I.pending = None /\ ~I.localOnly
      BY <2>3, <3>1 DEF RecordSet, Record
    <3>3. RecordOK(s, I)
      BY <1>2, <2>3, <3>2 DEF RecordOK
    <3> QED BY <1>2, <2>1, <2>5, <3>2, <3>3
  <2> QED BY <2>4, <2>5
<1> QED BY <1>1, <1>2

\* A row nobody is bound to gets a record of its own.
LEMMA RowIngested ==
    ASSUME NEW M \in RecordMaps, RecordsOK(M), NEW ids \in SUBSET RowIds, NEW s \in Subjects
    PROVE  LET I == IngestSide(M, "local", ids)[s]
           IN  \/ I = M[s]
               \/ /\ s \notin Known(M) /\ s[1] = "local" /\ I \in RecordSet /\ RecordOK(s, I)
                  /\ I.remote = None /\ I.pending = None /\ ~I.localOnly
<1> DEFINE new == s[1] = "local" /\ s[2] \in ids /\ BoundTo(M, "local", s[2]) = {}
<1>1. CASE ~new
  BY <1>1 DEF IngestSide
<1>2. CASE new
  <2>1. PICK I : I = IngestSide(M, "local", ids)[s]
    OBVIOUS
  <2>2. I = IF M[s] = None THEN [Record(None, None) EXCEPT !["local"] = s[2]]
            ELSE [M[s] EXCEPT !["local"] = s[2]]
    BY <1>2, <2>1 DEF IngestSide
  <2>3. s[2] \in RowIds /\ s[2] # None
    BY <1>2, NoId
  <2>4. s \notin Known(M)
    <3>1. SUFFICES ASSUME s \in Known(M) PROVE FALSE
      OBVIOUS
    <3>2. M[s].local = s[2]
      BY <1>2, <3>1 DEF RecordsOK, RecordOK
    <3> QED BY <1>2, <3>1, <3>2 DEF BoundTo
  <2>5. I = [Record(None, None) EXCEPT !["local"] = s[2]]
    BY <2>2, <2>4 DEF Known
  <2>6. /\ I \in RecordSet /\ I.local = s[2] /\ I.remote = None /\ I.base = None
        /\ I.pending = None /\ ~I.localOnly
    BY <2>3, <2>5 DEF RecordSet, Record
  <2>7. RecordOK(s, I)
    BY <1>2, <2>3, <2>6 DEF RecordOK
  <2> QED BY <1>2, <2>1, <2>4, <2>6, <2>7
<1> QED BY <1>1, <1>2

\* The three together.  Known records keep their operation and their issue.
Kept(l, m) ==
    /\ l.base = m.base /\ l.pending = m.pending /\ l.localOnly = m.localOnly
    /\ l.remote = m.remote \/ (m.remote = None /\ m.localOnly)
LEMMA DiscoveredRecords ==
    ASSUME NEW M \in RecordMaps, RecordsOK(M), NEW remote \in ListedIssues, NEW list \in ListedRows,
           ~ColumnClash(M, list)
    PROVE  /\ ColumnBinds(M, list) \in RecordMaps /\ RecordsOK(ColumnBinds(M, list))
           /\ IngestSide(ColumnBinds(M, list), "remote", {n \in Numbers : remote[n] # None}) \in RecordMaps
           /\ RecordsOK(IngestSide(ColumnBinds(M, list), "remote", {n \in Numbers : remote[n] # None}))
           /\ Discovered(M, remote, list) \in RecordMaps /\ RecordsOK(Discovered(M, remote, list))
           /\ \A s \in Known(M) : s \in Known(Discovered(M, remote, list))
                                  /\ Kept(Discovered(M, remote, list)[s], M[s])
           /\ \A s \in Known(Discovered(M, remote, list)) \ Known(M) :
                 Discovered(M, remote, list)[s].pending = None
<1>1. PICK C, A, D : /\ C = ColumnBinds(M, list)
                     /\ A = IngestSide(C, "remote", {n \in Numbers : remote[n] # None})
                     /\ D = Discovered(M, remote, list)
  OBVIOUS
<1>2. D = IngestSide(A, "local", {r \in RowIds : list[r] # None})
  BY <1>1 DEF Discovered
<1>3. C = [s \in Subjects |-> C[s]] /\ A = [s \in Subjects |-> A[s]] /\ D = [s \in Subjects |-> D[s]]
  BY <1>1, <1>2 DEF ColumnBinds, IngestSide
<1>4. /\ C \in RecordMaps /\ RecordsOK(C)
      /\ \A s \in Known(M) : s \in Known(C) /\ Kept(C[s], M[s])
      /\ \A s \in Known(C) \ Known(M) : C[s].pending = None
  <2>1. ASSUME NEW s \in Known(M)
        PROVE  C[s] \in RecordSet /\ RecordOK(s, C[s]) /\ Kept(C[s], M[s])
    <3>1. s \in Subjects /\ M[s] \in RecordSet /\ RecordOK(s, M[s])
      BY KnownRecord DEF RecordsOK, Known
    <3>2. CASE C[s] = M[s]
      BY <3>1, <3>2 DEF Kept
    <3>3. CASE C[s] # M[s]
      <4>1. PICK r \in ByColumn(M, list) :
              /\ SubjectFor(M, list[r].number) = s
              /\ C[s] \in RecordSet /\ RecordOK(s, C[s]) /\ C[s].remote = list[r].number /\ ~C[s].localOnly
              /\ C[s].base = M[s].base /\ C[s].pending = M[s].pending
        BY <1>1, <3>1, <3>3, ColumnBound
      <4>2. M[s].remote = list[r].number /\ ~M[s].localOnly
        BY <4>1, RowBound
      <4>3. M[s].localOnly \in BOOLEAN /\ C[s].localOnly \in BOOLEAN
        BY <3>1, <4>1 DEF RecordSet
      <4> QED BY <4>1, <4>2, <4>3 DEF Kept
    <3> QED BY <3>2, <3>3
  <2>2. ASSUME NEW s \in Subjects, s \notin Known(M)
        PROVE  C[s] = None \/ (C[s] \in RecordSet /\ RecordOK(s, C[s]) /\ C[s].pending = None)
    <3>1. M[s] = None
      BY <2>2 DEF Known
    <3> QED BY <1>1, <2>2, <3>1, ColumnBound
  <2>3. \A s \in Subjects : C[s] \in RecordSet \cup {None}
    BY <2>1, <2>2
  <2>4. C \in RecordMaps
    BY <1>3, <2>3 DEF RecordMaps
  <2>5. Known(M) \subseteq Subjects /\ Known(C) \subseteq Subjects
    BY DEF Known
  <2> QED BY <2>1, <2>2, <2>4, <2>5, KnownRecord DEF RecordsOK
<1>5. /\ A \in RecordMaps /\ RecordsOK(A)
      /\ \A s \in Known(C) : s \in Known(A) /\ Kept(A[s], C[s])
      /\ \A s \in Known(A) \ Known(C) : A[s].pending = None
  <2>0. {n \in Numbers : remote[n] # None} \in SUBSET Numbers
    OBVIOUS
  <2>1. ASSUME NEW s \in Known(C)
        PROVE  A[s] \in RecordSet /\ RecordOK(s, A[s]) /\ Kept(A[s], C[s])
    <3>1. s \in Subjects /\ C[s] \in RecordSet /\ RecordOK(s, C[s])
      BY <1>4, KnownRecord DEF RecordsOK, Known
    <3>2. CASE A[s] = C[s]
      BY <3>1, <3>2 DEF Kept
    <3>3. CASE A[s] # C[s]
      <4>1. /\ A[s] \in RecordSet /\ RecordOK(s, A[s]) /\ C[s].remote = None /\ C[s].localOnly
            /\ A[s].localOnly /\ A[s].base = C[s].base /\ A[s].pending = C[s].pending
        BY <1>1, <1>4, <2>0, <3>1, <3>3, IssueIngested
      <4>2. C[s].localOnly \in BOOLEAN /\ A[s].localOnly \in BOOLEAN
        BY <3>1, <4>1 DEF RecordSet
      <4> QED BY <4>1, <4>2 DEF Kept
    <3> QED BY <3>2, <3>3
  <2>2. ASSUME NEW s \in Subjects, s \notin Known(C)
        PROVE  A[s] = None \/ (A[s] \in RecordSet /\ RecordOK(s, A[s]) /\ A[s].pending = None)
    <3>1. C[s] = None
      BY <2>2 DEF Known
    <3> QED BY <1>1, <1>4, <2>0, <2>2, <3>1, IssueIngested
  <2>3. \A s \in Subjects : A[s] \in RecordSet \cup {None}
    BY <2>1, <2>2
  <2>4. A \in RecordMaps
    BY <1>3, <2>3 DEF RecordMaps
  <2>5. Known(C) \subseteq Subjects /\ Known(A) \subseteq Subjects
    BY DEF Known
  <2> QED BY <1>4, <2>1, <2>2, <2>4, <2>5, KnownRecord DEF RecordsOK
<1>6. /\ D \in RecordMaps /\ RecordsOK(D)
      /\ \A s \in Known(A) : s \in Known(D) /\ D[s] = A[s]
      /\ \A s \in Known(D) \ Known(A) : D[s].pending = None
  <2>0. {r \in RowIds : list[r] # None} \in SUBSET RowIds
    OBVIOUS
  <2>1. ASSUME NEW s \in Known(A)
        PROVE  D[s] \in RecordSet /\ RecordOK(s, D[s]) /\ D[s] = A[s]
    <3>1. s \in Subjects /\ A[s] \in RecordSet /\ RecordOK(s, A[s])
      BY <1>5, KnownRecord DEF RecordsOK, Known
    <3>2. D[s] = A[s]
      BY <1>2, <1>5, <2>0, <3>1, RowIngested
    <3> QED BY <3>1, <3>2
  <2>2. ASSUME NEW s \in Subjects, s \notin Known(A)
        PROVE  D[s] = None \/ (D[s] \in RecordSet /\ RecordOK(s, D[s]) /\ D[s].pending = None)
    <3>1. A[s] = None
      BY <2>2 DEF Known
    <3> QED BY <1>2, <1>5, <2>0, <2>2, <3>1, RowIngested
  <2>3. \A s \in Subjects : D[s] \in RecordSet \cup {None}
    BY <2>1, <2>2
  <2>4. D \in RecordMaps
    BY <1>3, <2>3 DEF RecordMaps
  <2>5. Known(A) \subseteq Subjects /\ Known(D) \subseteq Subjects
    BY DEF Known
  <2> QED BY <1>5, <2>1, <2>2, <2>4, <2>5, KnownRecord DEF RecordsOK
<1>7. \A s \in Known(M) : s \in Known(D) /\ Kept(D[s], M[s])
  BY <1>4, <1>5, <1>6 DEF Kept
<1>8. \A s \in Known(D) \ Known(M) : D[s].pending = None
  BY <1>4, <1>5, <1>6 DEF Kept
<1> QED BY <1>1, <1>4, <1>5, <1>6, <1>7, <1>8

-----------------------------------------------------------------------------
(* The plan phase.                                                          *)

LEMMA TableListed ==
    ASSUME Core
    PROVE  [r \in RowIds |-> IF r \in InTable THEN rows[r] ELSE None] \in ListedRows
BY CoreParts DEF Around, InTable, ListedRows

LEMMA ListLocalCore == ASSUME Core, ListLocal PROVE Core'
<1>1. PICK list : list = [r \in RowIds |-> IF r \in InTable THEN rows[r] ELSE None]
  OBVIOUS
<1>2. PICK found : found = Discovered(live, pass.remote, list)
  OBVIOUS
<1>3. list \in ListedRows
  BY <1>1, TableListed
<1>4. At("listLocal") /\ UNCHANGED <<sides, ghosts, left>> /\ Around'
  BY AroundKept DEF ListLocal
<1>5. CASE ColumnClash(live, list)
  <2>1. StopFlushed("failed", None)
    BY <1>1, <1>5 DEF ListLocal
  <2>2. "failed" \in Kinds /\ "failed" # "missing"
    BY DEF Kinds
  <2> QED BY <1>4, <2>1, <2>2, StoppedFor
<1>6. CASE ~ColumnClash(live, list)
  <2>1. /\ UNCHANGED <<journal, view>> /\ checkpoint(found)
        /\ pass' = [pass EXCEPT !.pc = "plan", !.phase = "plan", !.local = list, !.todo = Known(found)]
    BY <1>1, <1>2, <1>6 DEF ListLocal
  <2>2. pass.remote \in ListedIssues /\ live \in RecordMaps /\ RecordsOK(live)
    BY <1>4 DEF Core, PassOK, TypeOK, At
  <2>3. found \in RecordMaps /\ RecordsOK(found)
    BY <1>2, <1>3, <1>6, <2>2, DiscoveredRecords
  <2>4. pass.cur = None /\ pass.id = None
    BY <1>4 DEF Core, PassOK, At, Busy, Listing
  <2>5. PICK q : q = pass'
    OBVIOUS
  <2>6. Known(found) \subseteq Subjects
    BY DEF Known
  <2>7. /\ q \in PassSet /\ q.pc = "plan" /\ q.phase = "plan" /\ q.local = list /\ q.cur = None
        /\ q.todo = Known(found) /\ q.id = None /\ q.remote = pass.remote
    BY <1>3, <2>1, <2>4, <2>5, <2>6, PassFields DEF PassSet, Pcs
  <2>8. PassOK' /\ OperationOK'
    BY <1>3, <2>2, <2>5, <2>7 DEF PassOK, OperationOK, Idle, Listing, Busy, At
  <2>9. journal' \in Journals /\ ReceiptsOK(journal)'
    BY <2>1, CoreParts DEF Saved, ReceiptsOK
  <2> QED BY <1>4, <2>1, <2>3, <2>5, <2>7, <2>8, <2>9, RecordsWritten
<1> QED BY <1>5, <1>6

LEMMA PlanFacts ==
    ASSUME Core, At("plan"), NEW s \in Known(live)
    PROVE  /\ s \in Subjects /\ live[s] \in RecordSet /\ RecordOK(s, live[s])
           /\ snap[s] # None
           /\ pass.cur = None /\ pass.id = None /\ pass.phase = "plan"
           /\ pass.local \in ListedRows /\ pass.remote \in ListedIssues
           /\ Listed(s, "local") \in RowSet \cup {None}
           /\ Listed(s, "remote") \in [val : Values, rev : Nat] \cup {None}
           /\ live[s].local = None => Listed(s, "local") = None
           /\ live[s].remote = None => Listed(s, "remote") = None
<1>1. /\ s \in Subjects /\ live[s] \in RecordSet /\ RecordOK(s, live[s]) /\ snap[s] # None
      /\ live[s] # None
  BY KnownRecord DEF Core, TypeOK, RecordsOK, Mirrored, Known
<1>2. /\ pass.cur = None /\ pass.id = None /\ pass.phase = "plan"
      /\ pass.local \in ListedRows /\ pass.remote \in ListedIssues
  BY DEF Core, PassOK, Busy, At, Listing
<1>3. live[s].local \in RowIds \cup {None} /\ live[s].remote \in Numbers \cup {None}
  BY <1>1 DEF RecordSet
<1>4. Listed(s, "local") \in RowSet \cup {None} /\ (live[s].local = None => Listed(s, "local") = None)
  BY <1>2, <1>3 DEF Listed, ListedRows
<1>5. /\ Listed(s, "remote") \in [val : Values, rev : Nat] \cup {None}
      /\ live[s].remote = None => Listed(s, "remote") = None
  BY <1>2, <1>3 DEF Listed, ListedIssues
<1> QED BY <1>1, <1>2, <1>4, <1>5

LEMMA SkipCore == ASSUME Core, NEW s \in Known(live), Skip(s) PROVE Core'
<1>1. /\ At("plan") /\ UNCHANGED <<sides, disk, session, view, live, ghosts, left>>
      /\ Around' /\ Saved' /\ snap' = snap
  BY AroundKept, SavedKept DEF Skip, Planning, session
<1>2. PICK q : q = pass'
  OBVIOUS
<1>3. q = [pass EXCEPT !.todo = @ \ {s}]
  BY <1>2 DEF Skip
<1>4. /\ q \in PassSet /\ q.pc = "plan" /\ q.phase = "plan" /\ q.cur = None /\ q.id = None
      /\ q.local = pass.local /\ q.remote = pass.remote
  BY <1>1, <1>3, PassFields, PlanFacts DEF PassSet, At
<1>5. PassOK' /\ OperationOK'
  BY <1>1, <1>2, <1>4, PlanFacts DEF PassOK, OperationOK, Idle, Listing, Busy, At
<1> QED BY <1>1, <1>2, <1>4, <1>5, RecordsKept

LEMMA MissingCore == ASSUME Core, NEW s \in Known(live), Missing(s) PROVE Core'
<1>1. At("plan") /\ Around'
  BY AroundKept DEF Missing, Planning
<1>2. s \in Subjects /\ snap[s] # None /\ s # None
  BY <1>1, PlanFacts, NoId
<1>3. StopFlushed("missing-local", s) \/ StopFlushed("missing", s)
  BY DEF Missing
<1>4. CASE StopFlushed("missing-local", s)
  <2>1. "missing-local" \in Kinds
    BY DEF Kinds
  <2> QED BY <1>1, <1>2, <1>4, <2>1, StoppedFlushed
<1>5. CASE StopFlushed("missing", s)
  <2>1. "missing" \in Kinds
    BY DEF Kinds
  <2> QED BY <1>1, <1>2, <1>5, <2>1, StoppedFlushed
<1> QED BY <1>3, <1>4, <1>5

LEMMA ConflictingCore == ASSUME Core, NEW s \in Known(live), Conflicting(s) PROVE Core'
<1>1. At("plan") /\ Around'
  BY AroundKept DEF Conflicting, Plannable, Planning
<1>2. s \in Subjects /\ StopFlushed("conflict", s)
  BY <1>1, PlanFacts DEF Conflicting
<1>3. "conflict" \in Kinds /\ "conflict" # "missing" /\ s \in Subjects \cup {None}
  BY <1>2 DEF Kinds
<1> QED BY <1>1, <1>2, <1>3, StoppedFlushed

LEMMA ValuesAreBases == ASSUME NEW v \in Values PROVE v \in Bases
BY DEF Values, Bases

\* What the plan phase writes for a record.
LEMMA AcknowledgeWrites ==
    ASSUME Core, NEW s \in Known(live), Acknowledge(s)
    PROVE  \E q \in RecordSet :
              /\ checkpoint([live EXCEPT ![s] = q])
              /\ q = [live[s] EXCEPT !.base = Listed(s, "local").val]
              /\ q.base # None /\ q.pending = live[s].pending
              /\ q.local = live[s].local /\ q.remote = live[s].remote
              /\ q.localOnly = live[s].localOnly /\ ~q.localOnly
<1>1. At("plan") /\ OnBoth(s) /\ ~live[s].localOnly
  BY DEF Acknowledge, Plannable, Planning, Agreed
<1>2. PICK v : v = Listed(s, "local").val
  OBVIOUS
<1>3. v \in Values /\ v # None
  <2>1. Listed(s, "local") \in RowSet
    BY <1>1, PlanFacts DEF OnBoth
  <2> QED BY <1>2, <2>1, ModelValuesAssumption DEF RowSet
<1>4. PICK q : q = [live[s] EXCEPT !.base = v]
  OBVIOUS
<1>5. /\ q \in RecordSet /\ q.base = v /\ q.pending = live[s].pending
      /\ q.local = live[s].local /\ q.remote = live[s].remote /\ q.localOnly = live[s].localOnly
  BY <1>1, <1>3, <1>4, PlanFacts, ValuesAreBases DEF RecordSet
<1>6. checkpoint([live EXCEPT ![s] = q])
  BY <1>2, <1>4 DEF Acknowledge
<1> QED BY <1>1, <1>2, <1>3, <1>4, <1>5, <1>6

LEMMA AcknowledgeCore == ASSUME Core, NEW s \in Known(live), Acknowledge(s) PROVE Core'
<1>1. /\ At("plan") /\ Around' /\ UNCHANGED <<journal, view>>
      /\ journal' \in Journals /\ ReceiptsOK(journal)'
  <2>1. /\ At("plan") /\ UNCHANGED <<sides, ghosts, left>> /\ UNCHANGED <<journal, view>>
    BY DEF Acknowledge, Plannable, Planning
  <2> QED BY <2>1, AroundKept, CoreParts DEF Saved, ReceiptsOK
<1>2. PICK q \in RecordSet :
         /\ checkpoint([live EXCEPT ![s] = q]) /\ q.pending = live[s].pending
         /\ q.local = live[s].local /\ q.remote = live[s].remote /\ q.localOnly = live[s].localOnly
  BY AcknowledgeWrites
<1>3. RecordOK(s, q)
  BY <1>1, <1>2, PlanFacts DEF RecordOK
<1>4. PICK M : M = [live EXCEPT ![s] = q]
  OBVIOUS
<1>5. M \in RecordMaps /\ RecordsOK(M)
  BY <1>1, <1>3, <1>4, PlanFacts, OneReplaced DEF Core, TypeOK
<1>6. PICK p : p = pass'
  OBVIOUS
<1>7. p = [pass EXCEPT !.todo = @ \ {s}]
  BY <1>6 DEF Acknowledge
<1>8. /\ p \in PassSet /\ p.pc = "plan" /\ p.phase = "plan" /\ p.cur = None /\ p.id = None
      /\ p.local = pass.local /\ p.remote = pass.remote
  BY <1>1, <1>7, PassFields, PlanFacts DEF PassSet, At
<1>9. PassOK' /\ OperationOK'
  BY <1>1, <1>6, <1>8, PlanFacts DEF PassOK, OperationOK, Idle, Listing, Busy, At
<1> QED BY <1>1, <1>2, <1>4, <1>5, <1>6, <1>8, <1>9, RecordsWritten

\* A planned operation has a value to write.
LEMMA PlannedIsOperation ==
    ASSUME Core, At("plan"), NEW s \in Known(live), ~HereOnly(s),
           \A side \in {"local", "remote"} : ~Lost(s, side)
    PROVE  /\ Planned(s) \in OpSet /\ ~Planned(s).held
           /\ live[s].local # None \/ live[s].remote # None
<1>1. PICK l, r : l = Listed(s, "local") /\ r = Listed(s, "remote")
  OBVIOUS
<1>2. /\ l \in RowSet \cup {None} /\ r \in [val : Values, rev : Nat] \cup {None}
      /\ live[s] \in RecordSet /\ RecordOK(s, live[s])
  BY <1>1, PlanFacts
<1>3. /\ live[s].local # None => l # None
      /\ live[s].remote # None => r # None
  BY <1>1 DEF Lost
<1>4. live[s].local # None \/ live[s].remote # None
  BY <1>2 DEF HereOnly, RecordOK
<1>5. Val(l) \in Values \cup {None} /\ Val(r) \in Values \cup {None}
      /\ (l # None => l.val \in Values) /\ (r # None => r.val \in Values /\ r.rev \in Nat)
  BY <1>2 DEF Val, RowSet
<1>6. PICK d : d = IF r = None THEN l.val ELSE IF l = None THEN r.val
                   ELSE R!Merged(live[s].base, l.val, r.val)
  OBVIOUS
<1>7. d \in Values
  BY <1>3, <1>4, <1>5, <1>6, MergedIsValue
<1>8. PICK m : m = IF r = None THEN None ELSE r.rev
  OBVIOUS
<1>9. Planned(s) = [local |-> Val(l), remote |-> Val(r), held |-> FALSE, relink |-> live[s].localOnly,
                    desired |-> d, meta |-> m]
  BY <1>1, <1>6, <1>8 DEF Planned
<1>10. m \in Nat \cup {None} /\ live[s].localOnly \in BOOLEAN
  BY <1>2, <1>5, <1>8 DEF RecordSet
<1> QED BY <1>4, <1>5, <1>7, <1>9, <1>10 DEF OpSet

LEMMA OperateWrites ==
    ASSUME Core, NEW s \in Known(live), Operate(s)
    PROVE  \E q \in RecordSet :
              /\ checkpoint([live EXCEPT ![s] = q])
              /\ q.pending = Planned(s) /\ q.pending \in OpSet /\ ~q.pending.held /\ q.pending # None
              /\ q.local = live[s].local /\ q.remote = live[s].remote /\ q.base = live[s].base
              /\ ~q.localOnly /\ RecordOK(s, q)
<1>1. /\ At("plan") /\ ~HereOnly(s) /\ \A side \in {"local", "remote"} : ~Lost(s, side)
  BY DEF Operate, Plannable, Planning
<1>2. PICK op : op = Planned(s)
  OBVIOUS
<1>3. /\ op \in OpSet /\ ~op.held /\ (live[s].local # None \/ live[s].remote # None)
      /\ op # None
  BY <1>1, <1>2, PlannedIsOperation, ModelValuesAssumption
<1>4. PICK q : q = [live[s] EXCEPT !.pending = op, !.localOnly = FALSE]
  OBVIOUS
<1>5. /\ q \in RecordSet /\ q.base = live[s].base /\ q.pending = op
      /\ q.local = live[s].local /\ q.remote = live[s].remote /\ q.localOnly = FALSE
  <2>1. live[s] \in RecordSet /\ op \in OpSet \cup {None} /\ FALSE \in BOOLEAN
    BY <1>1, <1>3, PlanFacts
  <2> QED BY <1>4, <2>1 DEF RecordSet
<1>6. [live EXCEPT ![s].pending = op, ![s].localOnly = FALSE] = [live EXCEPT ![s] = q]
  <2>1. live \in RecordMaps /\ live[s] \in RecordSet /\ s \in Subjects
    BY <1>1, PlanFacts DEF Core, TypeOK
  <2> QED BY <1>4, <2>1 DEF RecordMaps
<1>7. checkpoint([live EXCEPT ![s] = q])
  BY <1>2, <1>6 DEF Operate
<1>8. RecordOK(s, q)
  <2>1. RecordOK(s, live[s])
    BY <1>1, PlanFacts
  <2>2. s[1] = "remote" => live[s].remote = s[2]
    BY <1>1, <2>1 DEF RecordOK, HereOnly
  <2>3. s[1] = "local" => live[s].local = s[2]
    BY <2>1 DEF RecordOK
  <2> QED BY <1>3, <1>5, <2>2, <2>3 DEF RecordOK
<1> QED BY <1>2, <1>3, <1>5, <1>7, <1>8

\* Planning an operation forgets the journal of the last one, never a create.
LEMMA NewOperationJournal ==
    ASSUME NEW j \in Journals, ReceiptsOK(j), NEW s \in Subjects
    PROVE  /\ NewOperation(j, s) \in Journals /\ ReceiptsOK(NewOperation(j, s))
           /\ \A t \in Subjects : NewOperation(j, s)[t].create = j[t].create
<1>1. PICK e : e = [[j[s] EXCEPT !.fields = None] EXCEPT !.label = None]
  OBVIOUS
<1>2. e \in [Steps -> EntrySet \cup {None}] /\ e.create = j[s].create
  BY <1>1 DEF Journals, Steps
<1>3. NewOperation(j, s) = [j EXCEPT ![s] = e]
  BY <1>1 DEF NewOperation, Journals
<1>4. \A t \in Subjects : NewOperation(j, s)[t].create = j[t].create
  BY <1>2, <1>3 DEF Journals
<1>5. NewOperation(j, s) \in Journals
  BY <1>2, <1>3 DEF Journals
<1> QED BY <1>4, <1>5 DEF ReceiptsOK

LEMMA OperateCore == ASSUME Core, NEW s \in Known(live), Operate(s) PROVE Core'
<1>1. /\ At("plan") /\ Around' /\ UNCHANGED view /\ journal' = NewOperation(journal, s)
  BY AroundKept DEF Operate, Plannable, Planning
<1>2. s \in Subjects
  BY <1>1, PlanFacts
<1>3. journal' \in Journals /\ ReceiptsOK(journal)'
  <2>1. journal \in Journals /\ ReceiptsOK(journal)
    BY CoreParts DEF Saved
  <2>2. journal' \in Journals /\ ReceiptsOK(journal')
    BY <1>1, <1>2, <2>1, NewOperationJournal
  <2> QED BY <2>2 DEF ReceiptsOK
<1>4. PICK q \in RecordSet :
         /\ checkpoint([live EXCEPT ![s] = q]) /\ q.pending \in OpSet /\ ~q.pending.held
         /\ q.pending # None /\ RecordOK(s, q)
  BY OperateWrites
<1>5. PICK M : M = [live EXCEPT ![s] = q]
  OBVIOUS
<1>6. M \in RecordMaps /\ RecordsOK(M) /\ M[s] = q /\ live' = M
  <2>1. live \in RecordMaps /\ RecordsOK(live)
    BY DEF Core, TypeOK
  <2>2. live' = M
    BY <1>4, <1>5 DEF checkpoint
  <2>3. M \in RecordMaps /\ RecordsOK(M) /\ M[s] = q
    <3>1. RecordOK(s, q)
      BY <1>4
    <3>2. M \in RecordMaps /\ RecordsOK(M)
      BY <1>2, <1>5, <2>1, <3>1, OneReplaced
    <3>3. M[s] = q
      BY <1>2, <1>5, <2>1 DEF RecordMaps
    <3> QED BY <3>2, <3>3
  <2> QED BY <2>2, <2>3
<1>7. PICK p : p = pass'
  OBVIOUS
<1>8. p = [pass EXCEPT !.todo = @ \ {s}, !.cur = s, !.pc = "check"]
  BY <1>7 DEF Operate
<1>9. /\ p \in PassSet /\ p.pc = "check" /\ p.phase = "plan" /\ p.cur = s /\ p.id = None
      /\ p.todo = pass.todo \ {s} /\ p.local = pass.local /\ p.remote = pass.remote
  BY <1>1, <1>2, <1>8, PassFields, PlanFacts DEF PassSet, Pcs
<1>10. PassOK'
  BY <1>1, <1>2, <1>7, <1>9, PlanFacts, NoId DEF PassOK, Idle, Listing, Busy, At
<1>11. OperationOK'
  <2>1. live'[s] # None
    BY <1>6, KnownRecord, ModelValuesAssumption
  <2> QED BY <1>4, <1>6, <1>7, <1>9, <2>1 DEF OperationOK, At, Cur, Op
<1> QED BY <1>1, <1>3, <1>4, <1>5, <1>6, <1>7, <1>9, <1>10, <1>11, RecordsWritten

LEMMA EndPassCore == ASSUME Core, EndPass PROVE Core'
<1>1. PICK M \in {live, snap} : snap' = M /\ live' = M /\ flush(M, journal)
  BY DEF EndPass
<1>2. /\ At("plan") /\ UNCHANGED <<sides, journal, kind, ghosts, left>> /\ Around'
      /\ problem' = None /\ conflict' = None /\ shown' = pass.held /\ pass' = NoPass
  BY AroundKept DEF EndPass
<1>3. M \in RecordMaps /\ RecordsOK(M) /\ journal \in Journals /\ ReceiptsOK(journal)
  BY <1>1 DEF Core, TypeOK
<1>4. disk' \in Disks /\ disk'.records = M /\ disk'.journal = journal
  BY <1>1, <1>3, Flushed
<1>5. Saved'
  BY <1>1, <1>2, <1>3, <1>4 DEF Saved, RecordsOK, ReceiptsOK, Known
<1>6. TypeOK'
  <2>1. pass.held \subseteq HeldSet
    BY PassFields DEF PassSet
  <2> QED BY <1>1, <1>2, <1>3, <1>5, <2>1, NoPassOK DEF Core, TypeOK, Around, Saved, Disks
<1>7. PassOK' /\ OperationOK' /\ MissingKnown'
  BY <1>2, NoPassOK DEF PassOK, OperationOK, MissingKnown, Idle, Listing, Busy, Resumed, At
<1>8. Mirrored' /\ RecordsOK(live)'
  BY <1>1, <1>5 DEF Saved, Mirrored, SameRecord, RecordsOK, Known
<1> QED BY <1>5, <1>6, <1>7, <1>8 DEF Core, Saved

-----------------------------------------------------------------------------
(* One operation: the checks, the journal and what GitHub does.             *)

LEMMA AroundSpent == ASSUME Core, UNCHANGED <<sides, ghosts>>, UNCHANGED left \/ Spend PROVE Around'
BY CoreParts, IssueAssumption DEF sides, ghosts, Around, Spend

LEMMA CheckCore == ASSUME Core, Check PROVE Core'
<1>1. At("check") /\ UNCHANGED <<sides, reviewed, strays, left>> /\ unseen' \in {unseen, {}}
  BY DEF Check
<1>2. Around'
  BY <1>1, CoreParts DEF sides, Around
<1>3. \/ StopFlushed("failed", None)
      \/ StopFlushed("saved-operation", pass.cur)
      \/ Go("remote") /\ UNCHANGED <<disk, session, view, live>>
  BY DEF Check
<1>4. CASE StopFlushed("failed", None)
  <2>1. "failed" \in Kinds /\ "failed" # "missing"
    BY DEF Kinds
  <2> QED BY <1>2, <1>4, <2>1, StoppedFor
<1>5. CASE StopFlushed("saved-operation", pass.cur)
  <2>1. "saved-operation" \in Kinds /\ "saved-operation" # "missing"
    BY DEF Kinds
  <2> QED BY <1>2, <1>5, <2>1, StoppedFor
<1>6. CASE Go("remote") /\ UNCHANGED <<disk, session, view, live>>
  <2>1. PICK q : q = pass'
    OBVIOUS
  <2>2. q = [pass EXCEPT !.pc = "remote"]
    BY <1>6, <2>1 DEF Go
  <2>3. /\ q \in PassSet /\ q.pc = "remote" /\ q.cur = pass.cur /\ q.id = pass.id
        /\ q.phase = pass.phase /\ q.todo = pass.todo /\ q.local = pass.local /\ q.remote = pass.remote
    BY <2>2, PassFields DEF PassSet, Pcs
  <2>4. PassOK' /\ OperationOK'
    BY <1>1, <1>6, <2>1, <2>3
       DEF Core, PassOK, OperationOK, Idle, Listing, Busy, At, Cur, Op, IsHeld
  <2> QED BY <1>2, <1>6, <2>1, <2>3, <2>4, SavedKept, RecordsKept DEF session
<1> QED BY <1>3, <1>4, <1>5, <1>6

\* An operation that needs a review is held, and the next record is looked at.
LEMMA HoldWrites ==
    ASSUME Core, At("remote"), Hold
    PROVE  \E q \in RecordSet :
              /\ checkpoint([live EXCEPT ![pass.cur] = q]) /\ RecordOK(pass.cur, q)
              /\ q.pending \in OpSet /\ IsHeld(q) /\ q.pending.desired = Op.desired
              /\ q.pending.local = Op.local /\ q.pending.remote = Op.remote
              /\ q.local = Cur.local /\ q.remote = Cur.remote /\ q.base = Cur.base
              /\ q.localOnly = Cur.localOnly
              /\ pass' = [pass EXCEPT !.pc = pass.phase, !.cur = None,
                                      !.held = Others(@) \cup {[subject |-> pass.cur,
                                                        key |-> Key(Cur.remote, Op.desired),
                                                        unconfirmed |-> q.unconfirmed]}]
<1>1. pass.cur # None /\ pass.cur \in Subjects
  BY PassFields DEF Core, PassOK, At, Busy
<1>2. /\ Cur \in RecordSet /\ Op \in OpSet /\ RecordOK(pass.cur, Cur) /\ live \in RecordMaps
      /\ Cur = live[pass.cur] /\ Op = Cur.pending
  BY <1>1, PassFields DEF Core, TypeOK, Cur, Op
<1>3. PICK op : op = [Op EXCEPT !.held = TRUE]
  OBVIOUS
<1>4. /\ op \in OpSet /\ op.held /\ op.desired = Op.desired /\ op.local = Op.local
      /\ op.remote = Op.remote /\ op # None
  BY <1>2, <1>3, ModelValuesAssumption DEF OpSet
<1>5. PICK u \in BOOLEAN : u = (Cur.unconfirmed \/ Resumed)
  OBVIOUS
<1>6. PICK q : q = [Cur EXCEPT !.pending = op, !.unconfirmed = u]
  OBVIOUS
<1>7. /\ q \in RecordSet /\ q.pending = op /\ q.local = Cur.local /\ q.remote = Cur.remote
      /\ q.base = Cur.base /\ q.localOnly = Cur.localOnly /\ q.unconfirmed = u
  BY <1>2, <1>4, <1>6 DEF RecordSet
<1>8. [live EXCEPT ![pass.cur].pending.held = TRUE, ![pass.cur].unconfirmed = @ \/ Resumed]
        = [live EXCEPT ![pass.cur] = q]
  <2>1. PICK a : a = [Cur EXCEPT !.pending = op]
    OBVIOUS
  <2>2. a \in RecordSet /\ a.unconfirmed = Cur.unconfirmed
    BY <1>2, <1>4, <2>1 DEF RecordSet
  <2>3. PICK N : N = [live EXCEPT ![pass.cur].pending.held = TRUE]
    OBVIOUS
  <2>4. N = [live EXCEPT ![pass.cur] = a]
    BY <1>2, <1>3, <2>1, <2>3
  <2>5. q = [a EXCEPT !.unconfirmed = live[pass.cur].unconfirmed \/ Resumed]
    BY <1>2, <1>5, <1>6, <2>1, <2>2 DEF RecordSet
  <2>6. N[pass.cur] = a
    BY <1>1, <1>2, <2>4 DEF RecordMaps
  <2>7. [N EXCEPT ![pass.cur].unconfirmed = live[pass.cur].unconfirmed \/ Resumed]
          = [N EXCEPT ![pass.cur] = q]
    BY <2>5, <2>6
  <2>8. [N EXCEPT ![pass.cur] = q] = [live EXCEPT ![pass.cur] = q]
    BY <1>1, <1>2, <2>4 DEF RecordMaps
  <2>9. [N EXCEPT ![pass.cur].unconfirmed = live[pass.cur].unconfirmed \/ Resumed]
          = [live EXCEPT ![pass.cur] = q]
    BY <2>7, <2>8
  <2> QED BY <2>3, <2>9, Zenon
<1>9. RecordOK(pass.cur, q)
  <2>1. ~Cur.localOnly
    BY <1>1, <1>2 DEF RecordOK, Core, OperationOK
  <2> QED BY <1>2, <1>7, <2>1 DEF RecordOK
<1>10. [live EXCEPT ![pass.cur] = q][pass.cur].unconfirmed = q.unconfirmed
  BY <1>1, <1>2 DEF RecordMaps
<1>11. /\ checkpoint([live EXCEPT ![pass.cur] = q])
       /\ pass' = [pass EXCEPT !.pc = pass.phase, !.cur = None,
                               !.held = Others(@) \cup {[subject |-> pass.cur,
                                                 key |-> Key(Cur.remote, Op.desired),
                                                 unconfirmed |-> q.unconfirmed]}]
  BY <1>8, <1>10 DEF Hold
<1>12. IsHeld(q)
  BY <1>4, <1>7 DEF IsHeld
<1> QED BY <1>4, <1>7, <1>9, <1>11, <1>12

LEMMA HoldCore == ASSUME Core, At("remote"), Hold, Around' PROVE Core'
<1>1. PICK q \in RecordSet :
         /\ checkpoint([live EXCEPT ![pass.cur] = q]) /\ RecordOK(pass.cur, q)
         /\ pass' = [pass EXCEPT !.pc = pass.phase, !.cur = None,
                                 !.held = Others(@) \cup {[subject |-> pass.cur,
                                                   key |-> Key(Cur.remote, Op.desired),
                                                   unconfirmed |-> q.unconfirmed]}]
  BY HoldWrites
<1>2. /\ pass.cur # None /\ pass.cur \in Subjects /\ pass.id = None
      /\ Cur \in RecordSet /\ Op \in OpSet
  BY PassFields DEF Core, PassOK, At, Busy
<1>3. PICK M : M = [live EXCEPT ![pass.cur] = q]
  OBVIOUS
<1>4. /\ M \in RecordMaps /\ RecordsOK(M) /\ \A t \in Subjects \ {pass.cur} : M[t] = live[t]
  <2>1. live \in RecordMaps /\ RecordsOK(live) /\ RecordOK(pass.cur, q) /\ pass.cur \in Subjects
    BY <1>1, <1>2 DEF Core, TypeOK
  <2>2. M \in RecordMaps /\ RecordsOK(M)
    BY <1>3, <2>1, OneReplaced
  <2>3. \A t \in Subjects \ {pass.cur} : M[t] = live[t]
    BY <1>3, <2>1 DEF RecordMaps
  <2> QED BY <2>2, <2>3
<1>5. PICK h : h = [subject |-> pass.cur, key |-> Key(Cur.remote, Op.desired),
                    unconfirmed |-> q.unconfirmed]
  OBVIOUS
<1>6. h \in HeldSet
  <2>1. Key(Cur.remote, Op.desired) \in Keys
    BY <1>2 DEF Key, Keys, RecordSet, OpSet
  <2> QED BY <1>2, <1>5, <2>1 DEF HeldSet, RecordSet
<1>7. PICK p : p = pass'
  OBVIOUS
<1>8. p = [pass EXCEPT !.pc = pass.phase, !.cur = None, !.held = Others(@) \cup {h}]
  BY <1>1, <1>5, <1>7
<1>9. pass \in PassSet /\ pass.phase \in {"resume", "plan"} /\ pass.phase \in Pcs
      /\ Others(pass.held) \cup {h} \in SUBSET HeldSet
  BY <1>6, PassFields DEF PassSet, Pcs, Others
<1>10. /\ p \in PassSet /\ p.pc = pass.phase /\ p.phase = pass.phase /\ p.cur = None
       /\ p.todo = pass.todo /\ p.id = None /\ p.local = pass.local /\ p.remote = pass.remote
  BY <1>2, <1>8, <1>9 DEF PassSet
<1>11. live' = M
  BY <1>1, <1>3 DEF checkpoint
<1>12. PassOK'
  <2>1. pass.phase = "plan" => pass.remote \in ListedIssues /\ pass.local \in ListedRows
    BY DEF Core, PassOK
  <2>2. pass.phase = "resume" => \A s \in pass.todo : live'[s] = live[s] /\ s \in Subjects
    BY <1>2, <1>4, <1>11, PassFields DEF Core, OperationOK
  <2>3. pass.phase = "resume" => \A s \in pass.todo : live'[s] # None /\ live'[s].pending # None
    BY <2>2 DEF Core, PassOK
  <2> QED BY <1>7, <1>9, <1>10, <2>1, <2>3 DEF PassOK, Idle, Listing, Busy, IsHeld
<1>13. OperationOK'
  BY <1>7, <1>9, <1>10 DEF OperationOK, At
<1>14. UNCHANGED <<journal, view>> /\ journal' \in Journals /\ ReceiptsOK(journal)'
  BY CoreParts DEF Hold, Saved, ReceiptsOK
<1>15. p.pc # "idle"
  BY <1>9, <1>10
<1> QED BY <1>1, <1>3, <1>4, <1>7, <1>10, <1>12, <1>13, <1>14, <1>15, RecordsWritten

\* One entry of the journal replaced.
Entered(j, s, t, e) == [j EXCEPT ![s][t] = e]
LEMMA EntryWritten ==
    ASSUME NEW j \in Journals, ReceiptsOK(j), NEW s \in Subjects, NEW t \in Steps,
           NEW e \in EntrySet \cup {None},
           t = "create" /\ e # None /\ e.state = "receipt" => e.id \in Numbers
    PROVE  /\ Entered(j, s, t, e) \in Journals /\ ReceiptsOK(Entered(j, s, t, e))
           /\ Entered(j, s, t, e)[s][t] = e
           /\ \A u \in Subjects, v \in Steps : u # s \/ v # t => Entered(j, s, t, e)[u][v] = j[u][v]
<1>1. PICK g : g = [j[s] EXCEPT ![t] = e]
  OBVIOUS
<1>2. g \in [Steps -> EntrySet \cup {None}] /\ g[t] = e /\ \A v \in Steps \ {t} : g[v] = j[s][v]
  BY <1>1 DEF Journals
<1>3. PICK J : J = Entered(j, s, t, e)
  OBVIOUS
<1>4. J = [j EXCEPT ![s] = g]
  BY <1>1, <1>3 DEF Entered
<1>5. J \in Journals /\ J[s] = g /\ \A u \in Subjects \ {s} : J[u] = j[u]
  BY <1>2, <1>4 DEF Journals
<1>6. \A u \in Subjects, v \in Steps : u # s \/ v # t => J[u][v] = j[u][v]
  BY <1>2, <1>5
<1>7. ReceiptsOK(J)
  <2>1. "create" \in Steps
    BY DEF Steps
  <2> QED BY <1>2, <1>5, <1>6, <2>1 DEF ReceiptsOK
<1> QED BY <1>2, <1>3, <1>5, <1>6, <1>7

\* proxyTransport() never sends what the journal has an entry for; its outcomes.
LEMMA RequestedOutcomes ==
    ASSUME Core, NEW step \in Steps, NEW args, NEW current, Requested(step, args, current),
           pass.cur \in Subjects
    PROVE  LET J == [journal EXCEPT ![pass.cur][step] = Entry("sent", args, None)]
           IN  \/ /\ journal[pass.cur][step] = None /\ journal' = J /\ flush(snap, J)
                  /\ pass' = [pass EXCEPT !.pc = "flight", !.step = step, !.current = current]
                  /\ UNCHANGED <<snap, live, view, left>>
               \/ /\ journal[pass.cur][step] = None /\ journal' = J /\ Spend
                  /\ UNCHANGED snap /\ Stop("rejected", None)
                  /\ UNCHANGED disk \/ flush(snap, J)
               \/ /\ journal[pass.cur][step] # None /\ journal[pass.cur][step].state = "receipt"
                  /\ \E i \in Nat \cup {None} :
                        /\ i = IF step = "create" THEN journal[pass.cur][step].id ELSE pass.id
                        /\ pass' = [pass EXCEPT !.pc = "answered", !.step = step,
                                                !.current = current, !.id = i]
                  /\ UNCHANGED <<disk, session, view, live, left>>
               \/ /\ journal[pass.cur][step] # None
                  /\ \E p \in {"uncertain", "other"} : StopFlushed(p, pass.cur)
                  /\ UNCHANGED left
<1>1. PICK old : old = journal[pass.cur][step]
  OBVIOUS
<1>2. old \in EntrySet \cup {None}
  BY <1>1 DEF Core, TypeOK, Journals
<1>3. pass.id \in Nat \cup {None} /\ pass \in PassSet
  BY PassFields
<1>4. PICK J : J = [journal EXCEPT ![pass.cur][step] = Entry("sent", args, None)]
  OBVIOUS
<1>5. \/ /\ Unsent(old) /\ journal' = J /\ flush(snap, J)
         /\ pass' = [pass EXCEPT !.pc = "flight", !.step = step, !.current = current]
         /\ UNCHANGED <<snap, live, view, left>>
      \/ /\ Unsent(old) /\ Spend /\ journal' = J
         /\ UNCHANGED snap /\ Stop("rejected", None)
         /\ UNCHANGED disk \/ flush(snap, J)
      \/ /\ ~Unsent(old) /\ old.args = args /\ old.state = "receipt"
         /\ pass' = [[pass EXCEPT !.pc = "answered", !.step = step, !.current = current]
                       EXCEPT !.id = IF step = "create" THEN old.id ELSE @]
         /\ UNCHANGED <<disk, session, view, live, left>>
      \/ /\ ~Unsent(old)
         /\ StopFlushed(IF old.args = args THEN "uncertain" ELSE "other", pass.cur)
         /\ UNCHANGED left
  BY <1>1, <1>4 DEF Requested
<1>6. CASE /\ ~Unsent(old) /\ old.args = args /\ old.state = "receipt"
           /\ pass' = [[pass EXCEPT !.pc = "answered", !.step = step, !.current = current]
                         EXCEPT !.id = IF step = "create" THEN old.id ELSE @]
           /\ UNCHANGED <<disk, session, view, live, left>>
  <2>1. PICK i : i = IF step = "create" THEN old.id ELSE pass.id
    OBVIOUS
  <2>2. i \in Nat \cup {None}
    BY <1>2, <1>3, <1>6, <2>1 DEF EntrySet, Numbers, Unsent
  <2>3. [pass EXCEPT !.pc = "answered", !.step = step, !.current = current].id = pass.id
    BY <1>3 DEF PassSet
  <2>4. pass' = [pass EXCEPT !.pc = "answered", !.step = step, !.current = current, !.id = i]
    BY <1>6, <2>1, <2>3
  <2> QED BY <1>1, <1>6, <2>1, <2>2, <2>4 DEF Unsent
<1>7. CASE /\ ~Unsent(old)
           /\ StopFlushed(IF old.args = args THEN "uncertain" ELSE "other", pass.cur)
           /\ UNCHANGED left
  <2>1. \E p \in {"uncertain", "other"} : StopFlushed(p, pass.cur)
    BY <1>7
  <2> QED BY <1>1, <1>7, <2>1 DEF Unsent
<1> QED BY <1>1, <1>4, <1>5, <1>6, <1>7 DEF Unsent

LEMMA RequestedCore ==
    ASSUME Core, NEW step \in Steps, NEW args \in Args, NEW current \in Statuses \cup {None},
           Requested(step, args, current), pass.pc \in {"remote", "answered"},
           UNCHANGED <<sides, ghosts>>,
           step \in Updates => Cur.remote # None /\ pass.id = None,
           step \notin Updates => Cur.remote = None,
           step \notin Updates \cup {"create"} => pass.id \in Numbers,
           step = "create" => pass.id = None
    PROVE  Core'
<1>1. /\ pass.cur \in Subjects /\ pass.cur # None /\ pass \in PassSet
      /\ journal \in Journals /\ ReceiptsOK(journal) /\ snap \in RecordMaps
  BY PassFields DEF Core, PassOK, Busy, TypeOK
<1>2. PICK J : J = [journal EXCEPT ![pass.cur][step] = Entry("sent", args, None)]
  OBVIOUS
<1>3. J \in Journals /\ ReceiptsOK(J) /\ J[pass.cur][step] # None
  <2>1. PICK e : e = Entry("sent", args, None)
    OBVIOUS
  <2>2. e \in EntrySet /\ e.state = "sent" /\ e # None
    BY <2>1, ModelValuesAssumption DEF Entry, EntrySet
  <2>3. J = Entered(journal, pass.cur, step, e)
    BY <1>2, <2>1 DEF Entered
  <2>4. /\ e \in EntrySet \cup {None}
        /\ step = "create" /\ e # None /\ e.state = "receipt" => e.id \in Numbers
    BY <2>2
  <2> QED BY <1>1, <2>2, <2>3, <2>4, EntryWritten
<1>4. PICK q : q = pass'
  OBVIOUS
<1>5. /\ Cur # None /\ Op # None /\ ~Op.held /\ pass.cur \notin pass.todo
      /\ pass.phase = "plan" => pass.remote \in ListedIssues /\ pass.local \in ListedRows
      /\ pass.phase = "resume" =>
            \A s \in pass.todo : live[s] # None /\ live[s].pending # None
  BY <1>1 DEF Core, OperationOK, PassOK
<1>6. CASE /\ journal' = J /\ flush(snap, J)
           /\ pass' = [pass EXCEPT !.pc = "flight", !.step = step, !.current = current]
           /\ UNCHANGED <<snap, live, view, left>>
  <2>1. disk' \in Disks /\ disk'.records = snap /\ disk'.journal = J
    BY <1>1, <1>3, <1>6, Flushed
  <2>2. Saved' /\ Around'
    <3>1. Around'
      BY <1>6, AroundKept
    <3>2. Saved'
      BY <1>3, <1>6, <2>1, CoreParts DEF Saved, RecordsOK, ReceiptsOK, Known, hasPending
    <3> QED BY <3>1, <3>2
  <2>3. /\ q \in PassSet /\ q.pc = "flight" /\ q.cur = pass.cur /\ q.id = pass.id /\ q.step = step
        /\ q.phase = pass.phase /\ q.todo = pass.todo /\ q.local = pass.local /\ q.remote = pass.remote
    <3>1. "flight" \in Pcs /\ step \in Steps \cup {None}
      BY DEF Pcs
    <3> QED BY <1>1, <1>4, <1>6, <3>1 DEF PassSet
  <2>4. PassOK'
    BY <1>1, <1>4, <1>5, <1>6, <2>3 DEF PassOK, Idle, Listing, Busy, IsHeld
  <2>5. step # None
    BY ModelValuesAssumption
  <2>6. OperationOK'
    BY <1>1, <1>3, <1>4, <1>5, <1>6, <2>1, <2>3, <2>5 DEF OperationOK, At, Cur, Op
  <2> QED BY <1>4, <1>6, <2>2, <2>3, <2>4, <2>6, RecordsKept
<1>7. CASE /\ journal' = J /\ Spend /\ UNCHANGED snap /\ Stop("rejected", None)
           /\ UNCHANGED disk \/ flush(snap, J)
  <2>1. Around'
    BY <1>7, AroundSpent
  <2>2. Saved'
    BY <1>1, <1>3, <1>7, SavedAnew
  <2>3. "rejected" \in Kinds /\ "rejected" # "missing"
    BY DEF Kinds
  <2> QED BY <1>7, <2>1, <2>2, <2>3, Stopped
<1>8. CASE /\ journal[pass.cur][step] # None /\ journal[pass.cur][step].state = "receipt"
           /\ \E i \in Nat \cup {None} :
                 /\ i = IF step = "create" THEN journal[pass.cur][step].id ELSE pass.id
                 /\ pass' = [pass EXCEPT !.pc = "answered", !.step = step,
                                         !.current = current, !.id = i]
           /\ UNCHANGED <<disk, session, view, live, left>>
  <2>1. PICK i \in Nat \cup {None} :
           /\ i = IF step = "create" THEN journal[pass.cur][step].id ELSE pass.id
           /\ pass' = [pass EXCEPT !.pc = "answered", !.step = step, !.current = current, !.id = i]
    BY <1>8
  <2>2. step = "create" => i \in Numbers
    BY <1>1, <1>8, <2>1 DEF ReceiptsOK
  <2>3. Saved' /\ Around'
    BY <1>8, AroundKept, SavedKept
  <2>4. /\ q \in PassSet /\ q.pc = "answered" /\ q.cur = pass.cur /\ q.id = i /\ q.step = step
        /\ q.phase = pass.phase /\ q.todo = pass.todo /\ q.local = pass.local /\ q.remote = pass.remote
    <3>1. "answered" \in Pcs /\ step \in Steps \cup {None}
      BY DEF Pcs
    <3> QED BY <1>1, <1>4, <2>1, <3>1 DEF PassSet
  <2>5. PassOK'
    BY <1>1, <1>4, <1>5, <1>8, <2>4 DEF PassOK, Idle, Listing, Busy, IsHeld
  <2>6. step # None
    BY ModelValuesAssumption
  <2>7. OperationOK'
    BY <1>1, <1>4, <1>5, <1>8, <2>1, <2>2, <2>4, <2>6
       DEF OperationOK, At, Cur, Op, Updates, session
  <2> QED BY <1>4, <1>8, <2>3, <2>4, <2>5, <2>7, RecordsKept DEF session
<1>9. CASE (\E p \in {"uncertain", "other"} : StopFlushed(p, pass.cur)) /\ UNCHANGED left
  <2>1. PICK p \in {"uncertain", "other"} : StopFlushed(p, pass.cur)
    BY <1>9
  <2>2. p \in Kinds /\ p # "missing"
    BY DEF Kinds
  <2>3. Around'
    BY <1>9, AroundKept
  <2> QED BY <2>1, <2>2, <2>3, StoppedFor
<1> QED BY <1>1, <1>2, <1>6, <1>7, <1>8, <1>9, RequestedOutcomes

LEMMA ArgsTyped ==
    ASSUME NEW v \in Values
    PROVE  v.title \in Args /\ PatchArgs(v) \in Args /\ None \in Args
BY DEF Values, Args, PatchArgs

LEMMA CurrentStatus ==
    ASSUME Core, NEW n \in Numbers, issues[n] # None
    PROVE  project(issues[n]) \in Values /\ project(issues[n]).status \in Statuses \cup {None}
<1>1. issues[n] \in IssueSet
  BY CoreParts DEF Around
<1> QED BY <1>1, Projected DEF Values

LEMMA FailedCore ==
    ASSUME Core, NEW p \in {"failed", "reconnect", "rejected", "other", "uncertain", "concurrent-edit"},
           StopFlushed(p, None) \/ StopFlushed(p, pass.cur), Around'
    PROVE  Core'
<1>1. p \in Kinds /\ p # "missing"
  BY DEF Kinds
<1> QED BY <1>1, StoppedFor

LEMMA PublishRemoteCore == ASSUME Core, PublishRemote PROVE Core'
<1>1. /\ At("remote") /\ pass.pc = "remote" /\ UNCHANGED <<sides, ghosts>> /\ pass.id = None
      /\ pass.cur # None /\ Cur \in RecordSet /\ Op \in OpSet
  BY PassFields DEF PublishRemote, At, Core, PassOK, Busy
<1>2. UNCHANGED left => Around'
  BY <1>1, AroundKept
<1>3. CASE RemoteLost /\ StopFlushed("failed", None) /\ UNCHANGED left
  BY <1>2, <1>3, FailedCore
<1>4. CASE /\ Cur.remote # None /\ ~RemoteLost /\ RemoteValue = Op.desired
           /\ Go("local") /\ UNCHANGED <<disk, session, view, live, left>>
  <2>1. PICK q : q = pass'
    OBVIOUS
  <2>2. /\ q \in PassSet /\ q.pc = "local" /\ q.cur = pass.cur /\ q.id = pass.id
        /\ q.phase = pass.phase /\ q.todo = pass.todo /\ q.local = pass.local /\ q.remote = pass.remote
    BY <1>4, <2>1, PassFields DEF Go, PassSet, Pcs
  <2>3. PassOK' /\ OperationOK'
    BY <1>1, <1>4, <2>1, <2>2
       DEF Core, PassOK, OperationOK, Idle, Listing, Busy, At, Cur, Op, IsHeld
  <2> QED BY <1>2, <1>4, <2>1, <2>2, <2>3, SavedKept, RecordsKept DEF session
<1>5. CASE Hold /\ UNCHANGED left
  BY <1>1, <1>2, <1>5, HoldCore
<1>6. CASE /\ Cur.remote = None /\ Approved /\ Requested("create", Op.desired.title, None)
  <2>1. Op.desired.title \in Args /\ "create" \in Steps /\ "create" \notin Updates
    BY <1>1, ArgsTyped DEF OpSet, Steps, Updates
  <2> QED BY <1>1, <1>6, <2>1, RequestedCore
<1>7. CASE /\ Cur.remote # None /\ RemoteDiffers /\ Approved
           /\ Requested("fields", PatchArgs(Op.desired), RemoteValue.status)
  <2>1. PatchArgs(Op.desired) \in Args /\ "fields" \in Steps /\ "fields" \in Updates
    BY <1>1, ArgsTyped DEF OpSet, Steps, Updates
  <2>2. Cur.remote \in Numbers /\ issues[Cur.remote] # None
    BY <1>7 DEF RemoteDiffers, OnGitHub
  <2>3. RemoteValue.status \in Statuses \cup {None}
    BY <2>2, CurrentStatus DEF RemoteValue
  <2> QED BY <1>1, <1>7, <2>1, <2>3, RequestedCore
<1> QED BY <1>3, <1>4, <1>5, <1>6, <1>7 DEF PublishRemote

\* What a request does on GitHub, as one issue replaced.
LEMMA EffectIs ==
    ASSUME Core, At("flight"), Possible
    PROVE  \E n \in Numbers, i \in IssueSet :
              /\ Effect = [issues EXCEPT ![n] = i]
              /\ pass.step = "create" => /\ n = NewNumber /\ issues[n] = None
                                         /\ i.by = pass.cur /\ i.wrote = Key(None, Op.desired)
                                         /\ ~i.gone
              /\ pass.step # "create" => /\ n = Target /\ n \in OnGitHub /\ i.by = issues[n].by
                                         /\ i.gone = issues[n].gone
              /\ pass.step \in {"fields", "initial-fields"} =>
                    /\ i.wrote = Key(Cur.remote, Op.desired)
                    /\ i.title = Op.desired.title /\ i.doing = issues[n].doing
                    /\ i.closed = (Op.desired.status = "Done")
              /\ pass.step \in {"label", "initial-label"} => i.wrote = issues[n].wrote
<1>1. /\ pass.cur # None /\ pass.cur \in Subjects /\ Cur \in RecordSet /\ Op \in OpSet
      /\ Op.desired \in Values /\ pass.step \in Steps
  <2>1. pass.cur # None /\ pass.cur \in Subjects /\ Cur \in RecordSet /\ Op \in OpSet
    BY PassFields DEF Core, PassOK, Busy, At
  <2>2. pass.step \in Steps
    BY <2>1, PassFields DEF Core, OperationOK, At
  <2> QED BY <2>1, <2>2 DEF OpSet
<1>2. /\ Key(None, Op.desired) \in Keys /\ Key(Cur.remote, Op.desired) \in Keys
      /\ Op.desired.title \in Titles /\ Op.desired.status \in Statuses
  BY <1>1 DEF Key, Keys, RecordSet, Values
<1>3. CASE pass.step = "create"
  <2>1. NewNumber \in NewNumbers
    BY <1>3 DEF Possible, NewNumber
  <2>2. NewNumber \in Numbers /\ issues[NewNumber] = None
    BY <2>1 DEF NewNumbers
  <2>3. PICK i : i = Issue(Op.desired.title, pass.cur, Key(None, Op.desired))
    OBVIOUS
  <2>4. i \in IssueSet /\ i.by = pass.cur /\ i.wrote = Key(None, Op.desired) /\ ~i.gone
    <3>1. FALSE \in Flags("Done") /\ FALSE \in Flags("Doing")
      BY DEF Flags
    <3> QED BY <1>1, <1>2, <2>3, <3>1 DEF Issue, IssueSet
  <2>5. Effect = [issues EXCEPT ![NewNumber] = i]
    BY <1>3, <2>3 DEF Effect
  <2> QED BY <1>3, <2>2, <2>4, <2>5
<1>4. CASE pass.step # "create"
  <2>1. Target \in OnGitHub
    BY <1>4 DEF Possible
  <2>2. PICK n \in Numbers : n = Target /\ issues[n] # None
    BY <2>1 DEF OnGitHub
  <2>3. issues[n] \in IssueSet /\ issues \in [Numbers -> IssueSet \cup {None}]
    BY <2>2, CoreParts DEF Around
  <2>4. CASE pass.step \in {"fields", "initial-fields"}
    <3>1. PICK f : f = issueFields(issues[n], Op.desired)
      OBVIOUS
    <3>2. PICK c \in BOOLEAN : c = (Op.desired.status = "Done")
      OBVIOUS
    <3>3. c \in Flags("Done")
      BY <1>2, <3>2 DEF Flags
    <3>4. issues[n].rev + 1 \in Nat
      BY <2>3 DEF IssueSet
    <3>5. f = [issues[n] EXCEPT !.title = Op.desired.title, !.closed = c, !.rev = issues[n].rev + 1]
      BY <3>1, <3>2 DEF issueFields
    <3>6. /\ f \in IssueSet /\ f.by = issues[n].by /\ f.gone = issues[n].gone
          /\ f.title = Op.desired.title /\ f.closed = c /\ f.doing = issues[n].doing
      BY <1>2, <2>3, <3>3, <3>4, <3>5 DEF IssueSet
    <3>7. PICK i : i = [f EXCEPT !.wrote = Key(Cur.remote, Op.desired)]
      OBVIOUS
    <3>8. /\ i \in IssueSet /\ i.by = issues[n].by /\ i.gone = issues[n].gone
          /\ i.title = Op.desired.title /\ i.closed = c /\ i.doing = issues[n].doing
          /\ i.wrote = Key(Cur.remote, Op.desired)
      BY <1>2, <3>6, <3>7 DEF IssueSet
    <3>9. Effect = [issues EXCEPT ![n] = i]
      BY <2>2, <2>4, <3>1, <3>7 DEF Effect
    <3> QED BY <2>1, <2>2, <2>4, <3>2, <3>8, <3>9
  <2>5. CASE pass.step \in {"label", "initial-label"}
    <3>1. PICK d \in BOOLEAN : d = (Op.desired.status = "Doing")
      OBVIOUS
    <3>2. d \in Flags("Doing")
      BY <1>2, <3>1 DEF Flags
    <3>3. issues[n].rev + 1 \in Nat
      BY <2>3 DEF IssueSet
    <3>4. PICK i : i = Labelled(issues[n], d)
      OBVIOUS
    <3>5. i = [issues[n] EXCEPT !.doing = d, !.rev = issues[n].rev + 1]
      BY <3>4 DEF Labelled
    <3>6. /\ i \in IssueSet /\ i.by = issues[n].by /\ i.gone = issues[n].gone
          /\ i.wrote = issues[n].wrote
      BY <2>3, <3>2, <3>3, <3>5 DEF IssueSet
    <3>7. Effect = [issues EXCEPT ![n] = i]
      BY <2>2, <2>5, <3>1, <3>4 DEF Effect
    <3> QED BY <2>1, <2>2, <2>5, <3>6, <3>7
  <2> QED BY <1>1, <1>4, <2>4, <2>5 DEF Steps
<1> QED BY <1>3, <1>4

LEMMA EffectTyped ==
    ASSUME Core, At("flight"), issues' = issues \/ (Possible /\ issues' = Effect)
    PROVE  issues' \in [Numbers -> IssueSet \cup {None}]
<1>1. issues \in [Numbers -> IssueSet \cup {None}]
  BY CoreParts DEF Around
<1>2. CASE Possible /\ issues' = Effect
  <2>1. PICK n \in Numbers, i \in IssueSet : Effect = [issues EXCEPT ![n] = i]
    BY <1>2, EffectIs
  <2> QED BY <1>1, <1>2, <2>1
<1> QED BY <1>1, <1>2

\* The pass goes on with the same record.
Onward(p, q) == /\ q.cur = p.cur /\ q.phase = p.phase /\ q.todo = p.todo /\ q.held = p.held
              /\ q.local = p.local /\ q.remote = p.remote /\ q.approved = p.approved
LEMMA SamePass ==
    ASSUME Core, pass.pc \in Busy, pass'.pc \in Busy \ {"check", "remote"}, Onward(pass, pass'),
           \/ UNCHANGED live
           \/ \A s \in pass.todo : live'[s] = live[s]
    PROVE  PassOK'
<1>1. pass.cur # None
  BY DEF Core, PassOK
<1>2. \A s \in pass.todo : live'[s] = live[s]
  OBVIOUS
<1>3. pass'.pc \in {"flight", "answered", "local", "bind", "verify"}
  BY DEF Busy
<1> QED BY <1>1, <1>2, <1>3 DEF Core, PassOK, Onward, Idle, Listing, Busy, IsHeld

\* The answer to a request, as one issue and one entry replaced.
LEMMA AnswerIs ==
    ASSUME Core, Answer
    PROVE  /\ At("flight") /\ pass.pc = "flight" /\ Possible /\ issues' = Effect
           /\ UNCHANGED <<rows, snap, ghosts>>
           /\ issues' \in [Numbers -> IssueSet \cup {None}]
           /\ pass.cur # None /\ pass.cur \in Subjects /\ Cur \in RecordSet /\ Op \in OpSet
           /\ pass.step \in Steps /\ pass \in PassSet /\ snap \in RecordMaps
           /\ NewId \in Numbers \cup {None}
           /\ pass.step = "create" => NewId \in Numbers
           /\ pass.step # "create" => NewId = None
           /\ journal' \in Journals /\ ReceiptsOK(journal') /\ journal'[pass.cur][pass.step] # None
           /\ \E e \in EntrySet : journal' = Entered(journal, pass.cur, pass.step, e)
<1>1. /\ At("flight") /\ pass.pc = "flight" /\ Possible /\ issues' = Effect
      /\ UNCHANGED <<rows, snap, ghosts>>
  BY DEF Answer, At
<1>2. /\ pass.cur # None /\ pass.cur \in Subjects /\ Cur \in RecordSet /\ Op \in OpSet
      /\ pass.step \in Steps /\ journal[pass.cur][pass.step] # None /\ pass \in PassSet
      /\ journal \in Journals /\ ReceiptsOK(journal) /\ snap \in RecordMaps
  <2>1. pass.cur # None /\ pass.cur \in Subjects /\ Cur \in RecordSet /\ Op \in OpSet /\ pass \in PassSet
    BY <1>1, PassFields DEF Core, PassOK, Busy
  <2>2. pass.step \in Steps /\ journal[pass.cur][pass.step] # None
    BY <1>1, <2>1, PassFields DEF Core, OperationOK, At
  <2> QED BY <2>1, <2>2 DEF Core, TypeOK
<1>3. issues' \in [Numbers -> IssueSet \cup {None}]
  BY <1>1, EffectTyped
<1>4. PICK id : id = NewId
  OBVIOUS
<1>5. /\ id \in Numbers \cup {None}
      /\ pass.step = "create" => id \in Numbers
      /\ pass.step # "create" => id = None
  <2>1. pass.step = "create" => NewNumber \in NewNumbers
    BY <1>1 DEF Possible, NewNumber
  <2> QED BY <1>4, <2>1 DEF NewNumbers, NewId
<1>6. PICK e : e = Entry("receipt", journal[pass.cur][pass.step].args, id)
  OBVIOUS
<1>7. e \in EntrySet /\ e.state = "receipt" /\ e.id = id /\ e # None
  <2>1. journal[pass.cur][pass.step] \in EntrySet
    BY <1>2 DEF Journals
  <2>2. e \in EntrySet /\ e.state = "receipt" /\ e.id = id
    BY <1>5, <1>6, <2>1 DEF Entry, EntrySet
  <2> QED BY <2>2, ModelValuesAssumption
<1>8. PICK J : J = Entered(journal, pass.cur, pass.step, e)
  OBVIOUS
<1>9. J \in Journals /\ ReceiptsOK(J) /\ J[pass.cur][pass.step] = e
  <2>1. /\ e \in EntrySet \cup {None}
        /\ pass.step = "create" /\ e # None /\ e.state = "receipt" => e.id \in Numbers
    BY <1>5, <1>7
  <2> QED BY <1>2, <1>8, <2>1, EntryWritten
<1>10. journal' = J
  <2>1. J = [journal EXCEPT ![pass.cur][pass.step] = Entry("receipt", @.args, id)]
    BY <1>6, <1>8 DEF Entered
  <2> QED BY <1>4, <2>1 DEF Answer
<1> QED BY <1>1, <1>2, <1>3, <1>4, <1>5, <1>7, <1>8, <1>9, <1>10

LEMMA DeliveredCore == ASSUME Core, Delivered PROVE Core'
<1>0. Answer /\ UNCHANGED <<view, live, left>>
  BY DEF Delivered
<1>1. /\ At("flight") /\ pass.pc = "flight" /\ Possible /\ issues' = Effect
      /\ UNCHANGED <<rows, snap, view, live, ghosts, left>>
  BY <1>0, AnswerIs
<1>2. /\ pass.cur # None /\ pass.cur \in Subjects /\ Cur \in RecordSet /\ Op \in OpSet
      /\ pass.step \in Steps /\ pass \in PassSet /\ snap \in RecordMaps
  BY <1>0, AnswerIs
<1>3. Around'
  <2>1. issues' \in [Numbers -> IssueSet \cup {None}]
    BY <1>0, AnswerIs
  <2> QED BY <1>1, <2>1, CoreParts DEF Around, ghosts
<1>4. PICK id : id = NewId
  OBVIOUS
<1>5. /\ id \in Numbers \cup {None}
      /\ pass.step = "create" => id \in Numbers
      /\ pass.step # "create" => id = None
  BY <1>0, <1>4, AnswerIs
<1>8. PICK J : J = journal'
  OBVIOUS
<1>9. J \in Journals /\ ReceiptsOK(J) /\ J[pass.cur][pass.step] # None
  BY <1>0, <1>8, AnswerIs
<1>10. /\ journal' = J /\ flush(snap, J)
       /\ pass' = [pass EXCEPT !.pc = "answered", !.id = IF id = None THEN @ ELSE id]
  BY <1>4, <1>8 DEF Delivered
<1>11. disk' \in Disks /\ disk'.records = snap /\ disk'.journal = J
  BY <1>2, <1>9, <1>10, Flushed
<1>12. Saved'
  BY <1>1, <1>9, <1>10, <1>11, CoreParts DEF Saved, RecordsOK, ReceiptsOK, Known, hasPending
<1>13. PICK q : q = pass'
  OBVIOUS
<1>14. /\ q \in PassSet /\ q.pc = "answered" /\ q.step = pass.step /\ Onward(pass, q)
       /\ q.id = IF id = None THEN pass.id ELSE id
  <2>1. "answered" \in Pcs /\ id \in Nat \cup {None}
    BY <1>5 DEF Pcs, Numbers
  <2> QED BY <1>2, <1>10, <1>13, <2>1 DEF PassSet, Onward
<1>15. PassOK'
  BY <1>1, <1>13, <1>14, SamePass DEF Busy
<1>16. OperationOK'
  <2>1. /\ pass.step # None
        /\ pass.step \in Updates => Cur.remote # None /\ q.id = None
        /\ pass.step \notin Updates => Cur.remote = None
        /\ pass.step \notin Updates => q.id \in Numbers
    BY <1>1, <1>2, <1>5, <1>14, NoId DEF Core, OperationOK, At, Updates
  <2>2. journal'[pass.cur][pass.step] # None
    BY <1>9, <1>10
  <2>3. /\ live' = live /\ Cur # None /\ Op # None /\ ~Op.held /\ pass.cur \notin pass.todo
    BY <1>1, <1>2 DEF Core, OperationOK
  <2>4. /\ pass'.pc = "answered" /\ pass'.cur = pass.cur /\ pass'.todo = pass.todo
        /\ pass'.step = pass.step /\ pass'.id = q.id
    BY <1>13, <1>14 DEF Onward
  <2> QED BY <2>1, <2>2, <2>3, <2>4 DEF OperationOK, At, Cur, Op, Updates
<1> QED BY <1>1, <1>3, <1>12, <1>13, <1>14, <1>15, <1>16, RecordsKept

LEMMA ReceiptRefusedCore == ASSUME Core, ReceiptRefused PROVE Core'
<1>1. Answer /\ Spend /\ Stop("rejected", None) /\ (UNCHANGED disk \/ flush(snap, journal'))
  BY DEF ReceiptRefused
<1>2. Around'
  <2>1. issues' \in [Numbers -> IssueSet \cup {None}] /\ UNCHANGED <<rows, ghosts>>
    BY <1>1, AnswerIs
  <2> QED BY <1>1, <2>1, CoreParts, IssueAssumption DEF Around, ghosts, Spend
<1>3. journal' \in Journals /\ ReceiptsOK(journal') /\ UNCHANGED snap
  BY <1>1, AnswerIs
<1>4. Saved'
  BY <1>1, <1>3, SavedAnew
<1>5. "rejected" \in Kinds /\ "rejected" # "missing"
  BY DEF Kinds
<1> QED BY <1>1, <1>2, <1>4, <1>5, Stopped

LEMMA AnswerLostCore == ASSUME Core, AnswerLost PROVE Core'
<1>1. Around'
  BY EffectTyped, CoreParts, IssueAssumption DEF AnswerLost, Around, ghosts, Spend
<1> QED BY <1>1, FailedCore DEF AnswerLost

LEMMA NotSentCore == ASSUME Core, NotSent PROVE Core'
<1>1. /\ At("flight") /\ Spend /\ snap' = snap /\ UNCHANGED <<sides, ghosts>>
  BY DEF NotSent
<1>2. /\ pass.cur # None /\ pass.cur \in Subjects /\ pass.step \in Steps
      /\ journal \in Journals /\ ReceiptsOK(journal) /\ snap \in RecordMaps
  <2>1. pass.cur # None /\ pass.cur \in Subjects
    BY <1>1, PassFields DEF Core, PassOK, Busy, At
  <2>2. pass.step \in Steps
    BY <1>1, <2>1, PassFields DEF Core, OperationOK, At
  <2> QED BY <2>1, <2>2 DEF Core, TypeOK
<1>3. PICK J : J = Entered(journal, pass.cur, pass.step, None)
  OBVIOUS
<1>4. J \in Journals /\ ReceiptsOK(J)
  BY <1>2, <1>3, EntryWritten
<1>5. journal' = J /\ flush(snap, J)
  BY <1>3 DEF NotSent, Entered
<1>6. disk' \in Disks /\ disk'.records = snap /\ disk'.journal = J
  BY <1>2, <1>4, <1>5, Flushed
<1>7. Saved'
  BY <1>1, <1>4, <1>5, <1>6, CoreParts DEF Saved, RecordsOK, ReceiptsOK, Known, hasPending
<1>8. Around'
  BY <1>1, AroundSpent
<1>9. PICK p \in {"reconnect", "other"} : Stop(p, None)
  BY DEF NotSent
<1>10. p \in Kinds /\ p # "missing"
  BY DEF Kinds
<1> QED BY <1>7, <1>8, <1>9, <1>10, Stopped

LEMMA RefusedCore == ASSUME Core, Refused PROVE Core'
<1>1. Around'
  BY AroundSpent, AroundKept DEF Refused
<1>2. PICK p \in {"failed", "reconnect"} : StopFlushed(p, None)
  BY DEF Refused
<1> QED BY <1>1, <1>2, FailedCore

\* The record of the operation under way replaced.
Put(M, s, q) == [M EXCEPT ![s] = q]
LEMMA PutRecord ==
    ASSUME NEW M \in RecordMaps, RecordsOK(M), NEW s \in Subjects, NEW q \in RecordSet, RecordOK(s, q)
    PROVE  /\ Put(M, s, q) \in RecordMaps /\ RecordsOK(Put(M, s, q)) /\ Put(M, s, q)[s] = q
           /\ \A t \in Subjects \ {s} : Put(M, s, q)[t] = M[t]
           /\ Known(Put(M, s, q)) = Known(M) \cup {s}
<1>1. PICK N : N = [M EXCEPT ![s] = q]
  OBVIOUS
<1>2. N \in RecordMaps /\ N[s] = q /\ \A t \in Subjects \ {s} : N[t] = M[t]
  BY <1>1 DEF RecordMaps
<1>3. Known(N) = Known(M) \cup {s}
  BY <1>2, KnownRecord DEF Known
<1>4. ASSUME NEW t \in Known(N) PROVE RecordOK(t, N[t])
  <2>1. t = s \/ (t \in Known(M) /\ t # s /\ t \in Subjects)
    BY <1>3, <1>4 DEF Known
  <2> QED BY <1>2, <2>1 DEF RecordsOK
<1>5. RecordsOK(N)
  BY <1>4 DEF RecordsOK
<1> QED BY <1>1, <1>2, <1>3, <1>5 DEF Put

LEMMA CurReplaced ==
    ASSUME Core, pass.cur # None, NEW q \in RecordSet, RecordOK(pass.cur, q)
    PROVE  /\ Put(live, pass.cur, q) \in RecordMaps /\ RecordsOK(Put(live, pass.cur, q))
           /\ Put(live, pass.cur, q)[pass.cur] = q
           /\ \A t \in Subjects \ {pass.cur} : Put(live, pass.cur, q)[t] = live[t]
           /\ \A t \in pass.todo : Put(live, pass.cur, q)[t] = live[t]
           /\ Known(Put(live, pass.cur, q)) = Known(live)
<1>1. pass.cur \in Subjects /\ live \in RecordMaps /\ RecordsOK(live) /\ pass.cur \in Known(live)
      /\ pass.todo \subseteq Subjects /\ pass.cur \notin pass.todo
  BY PassFields DEF Core, TypeOK, OperationOK
<1> QED BY <1>1, PutRecord

\* The record as the operation left it is checkpointed, and the pass goes on.
LEMMA CurCheckpointed ==
    ASSUME Core, pass.pc \in Busy, NEW q \in RecordSet, RecordOK(pass.cur, q),
           checkpoint(Put(live, pass.cur, q)),
           UNCHANGED <<journal, view>>, Around', pass' \in PassSet,
           pass'.pc \in Busy \ {"check", "remote"}, Onward(pass, pass'), OperationOK'
    PROVE  Core'
<1>1. pass.cur # None
  BY DEF Core, PassOK
<1>2. PICK M : M = Put(live, pass.cur, q)
  OBVIOUS
<1>3. /\ M \in RecordMaps /\ RecordsOK(M) /\ \A t \in pass.todo : M[t] = live[t]
  BY <1>1, <1>2, CurReplaced
<1>4. live' = M /\ checkpoint(M)
  BY <1>2 DEF checkpoint
<1>5. PassOK'
  BY <1>3, <1>4, SamePass
<1>6. journal' \in Journals /\ ReceiptsOK(journal)'
  BY CoreParts DEF Saved, ReceiptsOK
<1>7. pass'.pc # "idle" /\ UNCHANGED view
  BY DEF Busy
<1> QED BY <1>3, <1>4, <1>5, <1>6, <1>7, RecordsWritten

\* The issue the published operation is bound to.
LEMMA TargetIs ==
    ASSUME Core, pass.pc \in {"flight", "answered"}
    PROVE  /\ pass.cur # None /\ pass.cur \in Subjects /\ Cur \in RecordSet /\ Op \in OpSet
           /\ ~Cur.localOnly /\ pass.step \in Steps
           /\ pass.step \in Updates => Cur.remote # None /\ pass.id = None /\ Target = Cur.remote
           /\ pass.step \notin Updates => Cur.remote = None
           /\ At("answered") \/ pass.step # "create" => Target \in Numbers
           /\ At("answered") /\ pass.step \notin Updates => pass.id \in Numbers
<1>1. /\ pass.cur # None /\ pass.cur \in Subjects /\ Cur \in RecordSet /\ Op \in OpSet
      /\ RecordOK(pass.cur, Cur) /\ Op # None
  BY PassFields DEF Core, PassOK, Busy, OperationOK
<1>2. ~Cur.localOnly
  BY <1>1 DEF RecordOK, Op
<1>3. /\ pass.step \in Steps
      /\ pass.step \in Updates => Cur.remote # None /\ pass.id = None
      /\ pass.step \notin Updates => Cur.remote = None
      /\ (pass.step \notin Updates \cup {"create"} \/ (At("answered") /\ pass.step = "create"))
         => pass.id \in Numbers
  BY <1>1, PassFields DEF Core, OperationOK, At
<1>4. At("answered") /\ pass.step \notin Updates => pass.id \in Numbers
  BY <1>3
<1>5. pass.id \in Numbers => Target \in Numbers
  BY NoId DEF Target
<1>6. pass.step \in Updates => Target = Cur.remote /\ Target \in Numbers
  BY <1>1, <1>3 DEF Target, RecordSet
<1> QED BY <1>1, <1>2, <1>3, <1>4, <1>5, <1>6 DEF At

\* The issue is bound to the record of the operation.
LEMMA PublishedWrites ==
    ASSUME Core, At("answered"), checkpoint([live EXCEPT ![pass.cur].remote = Target])
    PROVE  \E q \in RecordSet :
              /\ checkpoint(Put(live, pass.cur, q)) /\ live' = Put(live, pass.cur, q)
              /\ live'[pass.cur] = q /\ \A t \in Subjects \ {pass.cur} : live'[t] = live[t]
              /\ RecordOK(pass.cur, q) /\ q.remote = Target /\ q.remote \in Numbers
              /\ q.pending = Op /\ q.local = Cur.local /\ q.base = Cur.base /\ ~q.localOnly
              /\ Cur.remote \in {None, Target}
<1>1. /\ pass.cur # None /\ pass.cur \in Subjects /\ Cur \in RecordSet /\ ~Cur.localOnly
      /\ RecordOK(pass.cur, Cur) /\ Target \in Numbers /\ Cur.remote \in {None, Target}
  <2>1. Cur.remote \in {None, Target}
    BY TargetIs DEF At
  <2> QED BY <2>1, TargetIs, PassFields DEF At
<1>2. PICK q : q = [Cur EXCEPT !.remote = Target]
  OBVIOUS
<1>3. /\ q \in RecordSet /\ q.remote = Target /\ q.pending = Cur.pending /\ q.local = Cur.local
      /\ q.localOnly = Cur.localOnly /\ q.base = Cur.base
  BY <1>1, <1>2 DEF RecordSet
<1>4. RecordOK(pass.cur, q)
  BY <1>1, <1>3, NoId, SubjectIds DEF RecordOK
<1>5. checkpoint(Put(live, pass.cur, q))
  BY <1>2 DEF Cur, Put
<1>6. live' = Put(live, pass.cur, q)
  BY <1>5 DEF checkpoint
<1>7. live'[pass.cur] = q /\ \A t \in Subjects \ {pass.cur} : live'[t] = live[t]
  BY <1>1, <1>3, <1>4, <1>6, CurReplaced
<1> QED BY <1>1, <1>3, <1>4, <1>5, <1>6, <1>7 DEF Op

LEMMA PublishedCore == ASSUME Core, Published PROVE Core'
<1>1. /\ At("answered") /\ pass.pc = "answered" /\ UNCHANGED <<sides, ghosts>>
      /\ pass.current \in Statuses \cup {None}
  BY PassFields DEF Published, At, PassSet
<1>2. UNCHANGED left => Around'
  BY <1>1, AroundKept
<1>3. CASE StopFlushed("failed", None) /\ UNCHANGED left
  BY <1>2, <1>3, FailedCore
<1>4. CASE /\ NeedsInitial /\ Target \in OnGitHub
           /\ Requested("initial-fields", PatchArgs(Op.desired), project(issues[Target]).status)
  <2>1. PatchArgs(Op.desired) \in Args
    BY <1>1, TargetIs, ArgsTyped DEF OpSet
  <2>2. /\ "initial-fields" \in Steps /\ "initial-fields" \notin Updates
        /\ pass.step = "create" /\ "create" \notin Updates /\ "initial-fields" # "create"
    BY <1>4 DEF Steps, Updates, NeedsInitial
  <2>3. pass.id \in Numbers /\ Cur.remote = None
    BY <1>1, <2>2, TargetIs
  <2>4. Target \in Numbers /\ issues[Target] # None
    BY <1>4 DEF OnGitHub
  <2>5. project(issues[Target]).status \in Statuses \cup {None}
    BY <2>4, CurrentStatus
  <2> QED BY <1>1, <1>4, <2>1, <2>2, <2>3, <2>5, RequestedCore
<1>5. CASE /\ NeedsLabel
           /\ Requested(IF pass.step = "fields" THEN "label" ELSE "initial-label", None, pass.current)
  <2>1. None \in Args
    BY DEF Args
  <2>2. CASE pass.step = "fields"
    <3>1. "label" \in Steps /\ "label" \in Updates /\ pass.step \in Updates
      BY <2>2 DEF Steps, Updates
    <3>2. pass.id = None /\ Cur.remote # None
      BY <1>1, <3>1, TargetIs
    <3>3. Requested("label", None, pass.current)
      BY <1>5, <2>2
    <3> QED BY <1>1, <2>1, <3>1, <3>2, <3>3, RequestedCore
  <2>3. CASE pass.step = "initial-fields"
    <3>1. "initial-label" \in Steps /\ "initial-label" \notin Updates /\ pass.step \notin Updates
          /\ "initial-label" # "create"
      BY <2>3 DEF Steps, Updates
    <3>2. pass.id \in Numbers /\ Cur.remote = None
      BY <1>1, <3>1, TargetIs
    <3>3. Requested("initial-label", None, pass.current)
      BY <1>5, <2>3
    <3> QED BY <1>1, <2>1, <3>1, <3>2, <3>3, RequestedCore
  <2> QED BY <1>5, <2>2, <2>3 DEF NeedsLabel
<1>6. CASE /\ UNCHANGED <<journal, view, left>>
           /\ checkpoint([live EXCEPT ![pass.cur].remote = Target]) /\ Go("local")
  <2>1. PICK q \in RecordSet :
           /\ checkpoint(Put(live, pass.cur, q)) /\ live'[pass.cur] = q
           /\ RecordOK(pass.cur, q) /\ q.remote \in Numbers /\ q.pending = Op
    BY <1>1, <1>6, PublishedWrites
  <2>2. PICK p : p = pass'
    OBVIOUS
  <2>3. p \in PassSet /\ p.pc = "local" /\ Onward(pass, p) /\ p.cur = pass.cur /\ p.todo = pass.todo
    BY <1>6, <2>2, PassFields DEF Go, PassSet, Pcs, Onward
  <2>4. OperationOK'
    <3>1. Cur' = q /\ Op' = Op
      BY <2>1, <2>2, <2>3 DEF Cur, Op
    <3>2. Op # None /\ ~Op.held /\ pass.cur \notin pass.todo /\ q # None /\ q.remote # None
      BY <1>1, <2>1, TargetIs, NoId, ModelValuesAssumption DEF Core, OperationOK
    <3> QED BY <2>2, <2>3, <3>1, <3>2 DEF OperationOK, At
  <2>5. pass.pc \in Busy /\ p.pc \in Busy \ {"check", "remote"}
    BY <1>1, <2>3 DEF Busy
  <2> QED BY <1>2, <1>6, <2>1, <2>2, <2>3, <2>4, <2>5, CurCheckpointed
<1> QED BY <1>3, <1>4, <1>5, <1>6 DEF Published

-----------------------------------------------------------------------------
(* The local side of an operation, and its end.                             *)

\* The operation whose issue is settled.
LEMMA LocalFacts ==
    ASSUME Core, pass.pc \in {"local", "bind", "verify"}
    PROVE  /\ pass.cur # None /\ pass.cur \in Subjects /\ Cur \in RecordSet /\ Op \in OpSet
           /\ Op # None /\ ~Op.held /\ pass.cur \notin pass.todo /\ Cur # None /\ ~Cur.localOnly
           /\ Op.desired \in Values /\ Op.meta \in Nat \cup {None} /\ Cur.remote \in Numbers
           /\ RecordOK(pass.cur, Cur) /\ pass \in PassSet /\ live \in RecordMaps /\ RecordsOK(live)
<1>1. /\ pass.cur # None /\ pass.cur \in Subjects /\ Cur \in RecordSet /\ Op \in OpSet
      /\ RecordOK(pass.cur, Cur) /\ Op # None /\ ~Op.held /\ Cur # None
      /\ pass.cur \notin pass.todo /\ Cur.remote # None /\ pass \in PassSet
  BY PassFields DEF Core, PassOK, Busy, OperationOK
<1>2. ~Cur.localOnly
  BY <1>1 DEF RecordOK, Op
<1>3. Op.desired \in Values /\ Op.meta \in Nat \cup {None} /\ Cur.remote \in Numbers
  BY <1>1 DEF OpSet, RecordSet
<1> QED BY <1>1, <1>2, <1>3 DEF Core, TypeOK

\* AtomicPort.values(): a row stays a row, with the value and the issue written.
LEMMA WrittenRow ==
    ASSUME Core, At("local"), NEW row \in RowSet
    PROVE  /\ Written(row) \in RowSet /\ Written(row).val = Op.desired
           /\ Written(row).localId = row.localId
           /\ Written(row).number \in {row.number, Cur.remote}
<1>1. Op.desired \in Values /\ Op.meta \in Nat \cup {None} /\ Cur.remote \in Numbers
  BY LocalFacts DEF At
<1>2. PICK n : n = IF Op.meta = None THEN row.number ELSE Cur.remote
  OBVIOUS
<1>3. PICK m : m = IF Op.meta = None THEN row.meta ELSE Op.meta
  OBVIOUS
<1>4. Written(row) = [row EXCEPT !.val = Op.desired, !.number = n, !.meta = m]
  BY <1>2, <1>3 DEF Written
<1>5. n \in Numbers \cup {None} /\ m \in Nat \cup {None} /\ n \in {row.number, Cur.remote}
  BY <1>1, <1>2, <1>3 DEF RowSet
<1>6. PICK w : w = [row EXCEPT !.val = Op.desired, !.number = n, !.meta = m]
  OBVIOUS
<1>7. w \in RowSet /\ w.val = Op.desired /\ w.localId = row.localId /\ w.number = n
  BY <1>1, <1>5, <1>6 DEF RowSet
<1> QED BY <1>4, <1>5, <1>6, <1>7

\* The rows a step of the operation writes.
LEMMA PublishedRows ==
    ASSUME Core, PublishLocal
    PROVE  /\ At("local") /\ Cur.local # None
           /\ \/ rows' = rows
              \/ /\ Cur.local \in InTable /\ Cur.local \in RowIds /\ rows[Cur.local] \in RowSet
                 /\ rows' = [rows EXCEPT ![Cur.local] = Written(rows[Cur.local])]
                 /\ checkpoint(live) /\ UNCHANGED <<journal, view, left>> /\ Go("verify")
<1>1. At("local") /\ Cur.local # None
  BY DEF PublishLocal
<1>2. \/ rows' = rows
      \/ /\ ~LocalLost /\ rows' = [rows EXCEPT ![Cur.local] = Written(@)]
         /\ checkpoint(live) /\ UNCHANGED <<journal, view, left>> /\ Go("verify")
  BY DEF PublishLocal, Refuse
<1>3. ~LocalLost => /\ Cur.local \in InTable /\ Cur.local \in RowIds /\ rows[Cur.local] \in RowSet
  BY <1>1, CoreParts DEF LocalLost, InTable, Around
<1> QED BY <1>1, <1>2, <1>3

LEMMA PublishLocalCore == ASSUME Core, PublishLocal PROVE Core'
<1>1. /\ At("local") /\ pass.pc = "local" /\ Cur.local # None /\ UNCHANGED <<issues, ghosts>>
  BY DEF PublishLocal, At
<1>2. rows' \in [RowIds -> RowSet \cup {None, Null}]
  <2>1. rows \in [RowIds -> RowSet \cup {None, Null}]
    BY CoreParts DEF Around
  <2>2. CASE /\ Cur.local \in RowIds /\ rows[Cur.local] \in RowSet
             /\ rows' = [rows EXCEPT ![Cur.local] = Written(rows[Cur.local])]
    <3>1. PICK w \in RowSet : w = Written(rows[Cur.local])
      BY <1>1, <2>2, WrittenRow
    <3> QED BY <2>1, <2>2, <3>1
  <2> QED BY <2>1, <2>2, PublishedRows
<1>3. left' = left \/ Spend => Around'
  BY <1>1, <1>2, CoreParts, IssueAssumption DEF Around, ghosts, Spend
<1>4. CASE StopFlushed("failed", None) /\ UNCHANGED left
  BY <1>3, <1>4, FailedCore
<1>5. CASE Refuse("rejected")
  BY <1>3, <1>5, FailedCore DEF Refuse
<1>6. CASE UNCHANGED <<journal, view, left>> /\ checkpoint(live) /\ Go("verify")
  <2>1. PICK p : p = pass'
    OBVIOUS
  <2>2. p \in PassSet /\ p.pc = "verify" /\ Onward(pass, p) /\ p.cur = pass.cur /\ p.todo = pass.todo
    BY <1>6, <2>1, PassFields DEF Go, PassSet, Pcs, Onward
  <2>3. live' = live
    BY <1>6 DEF checkpoint
  <2>4. PassOK'
    BY <1>1, <2>1, <2>2, <2>3, SamePass DEF Busy
  <2>5. Op # None /\ ~Op.held /\ pass.cur \notin pass.todo /\ Cur # None /\ Cur.remote # None
    BY <1>1, LocalFacts, NoId
  <2>6. OperationOK'
    BY <1>1, <2>1, <2>2, <2>3, <2>5 DEF OperationOK, At, Cur, Op
  <2>7. live \in RecordMaps /\ RecordsOK(live) /\ journal' \in Journals /\ ReceiptsOK(journal)'
    BY <1>6, CoreParts DEF Core, TypeOK, Saved, ReceiptsOK
  <2> QED BY <1>3, <1>6, <2>1, <2>2, <2>4, <2>6, <2>7, RecordsWritten
<1> QED BY <1>4, <1>5, <1>6 DEF PublishLocal

\* AtomicPort.create(): the row found again or made, or nothing.
LEMMA CreatedRows ==
    ASSUME Core, CreateLocal
    PROVE  \/ UNCHANGED rows /\ Spend /\ StopFlushed("rejected", None)
           \/ UNCHANGED <<rows, left>> /\ StopFlushed("other", pass.cur)
           \/ \E r \in RowIds :
                 /\ r \in InTable /\ rows[r].localId = pass.cur /\ UNCHANGED rows
                 /\ pass' = [pass EXCEPT !.pc = "bind", !.id = r]
                 /\ UNCHANGED <<disk, session, view, live, left>>
           \/ \E r \in RowIds, w \in RowSet :
                 /\ Recovered = {} /\ rows[r] = None /\ rows' = [rows EXCEPT ![r] = w]
                 /\ w.number = Cur.remote /\ w.localId = pass.cur /\ w.val = Op.desired
                 /\ pass' = [pass EXCEPT !.pc = "bind", !.id = r]
                 /\ UNCHANGED <<disk, session, view, live, left>>
<1>1. /\ pass.cur \in Subjects /\ Op.desired \in Values /\ Op.meta \in Nat \cup {None}
      /\ Cur.remote \in Numbers
  BY LocalFacts DEF CreateLocal, At
<1>2. PICK w : w = Row(Op.desired, Cur.remote, Op.meta, pass.cur)
  OBVIOUS
<1>3. w \in RowSet /\ w.number = Cur.remote /\ w.localId = pass.cur /\ w.val = Op.desired
  BY <1>1, <1>2 DEF Row, RowSet
<1>4. CASE /\ \E r \in Recovered : rows[r].val = Op.desired
                                   /\ pass' = [pass EXCEPT !.pc = "bind", !.id = r]
           /\ UNCHANGED <<rows, disk, session, view, live, left>>
  BY <1>4 DEF Recovered, InTable
<1>5. CASE /\ Recovered = {}
           /\ \E r \in FreshRows :
                 /\ rows' = [rows EXCEPT ![r] = w] /\ pass' = [pass EXCEPT !.pc = "bind", !.id = r]
           /\ UNCHANGED <<disk, session, view, live, left>>
  BY <1>3, <1>5 DEF FreshRows
<1> QED BY <1>2, <1>4, <1>5 DEF CreateLocal, Refuse

LEMMA CreateLocalCore == ASSUME Core, CreateLocal PROVE Core'
<1>1. /\ At("local") /\ pass.pc = "local" /\ Cur.local = None /\ UNCHANGED <<issues, ghosts>>
  BY DEF CreateLocal, At
<1>2. /\ rows \in [RowIds -> RowSet \cup {None, Null}]
      /\ rows' \in [RowIds -> RowSet \cup {None, Null}] /\ (left' = left \/ Spend) => Around'
  BY <1>1, CoreParts, IssueAssumption DEF Around, ghosts, Spend
<1>3. CASE UNCHANGED rows /\ Spend /\ StopFlushed("rejected", None)
  BY <1>2, <1>3, FailedCore
<1>4. CASE UNCHANGED <<rows, left>> /\ StopFlushed("other", pass.cur)
  BY <1>2, <1>4, FailedCore
<1>5. ASSUME NEW r \in RowIds, rows' \in [RowIds -> RowSet \cup {None, Null}],
             pass' = [pass EXCEPT !.pc = "bind", !.id = r],
             UNCHANGED <<disk, session, view, live, left>>
      PROVE  Core'
  <2>1. PICK p : p = pass'
    OBVIOUS
  <2>2. /\ p \in PassSet /\ p.pc = "bind" /\ Onward(pass, p) /\ p.cur = pass.cur /\ p.todo = pass.todo
        /\ p.id = r
    <3>1. r \in Nat \cup {None}
      BY DEF RowIds
    <3> QED BY <1>5, <2>1, <3>1, PassFields DEF PassSet, Pcs, Onward
  <2>3. PassOK'
    BY <1>1, <1>5, <2>1, <2>2, SamePass DEF Busy
  <2>4. Op # None /\ ~Op.held /\ pass.cur \notin pass.todo /\ Cur # None /\ Cur.remote # None
    BY <1>1, LocalFacts, NoId
  <2>5. OperationOK'
    BY <1>1, <1>5, <2>1, <2>2, <2>4 DEF OperationOK, At, Cur, Op
  <2>6. Around' /\ Saved'
    BY <1>2, <1>5, SavedKept
  <2> QED BY <1>5, <2>1, <2>2, <2>3, <2>5, <2>6, RecordsKept DEF session
<1>6. CASE \E r \in RowIds :
              /\ UNCHANGED rows /\ pass' = [pass EXCEPT !.pc = "bind", !.id = r]
              /\ UNCHANGED <<disk, session, view, live, left>>
  <2>1. rows' \in [RowIds -> RowSet \cup {None, Null}]
    BY <1>2, <1>6
  <2> QED BY <1>5, <1>6, <2>1
<1>7. CASE \E r \in RowIds, w \in RowSet :
              /\ rows' = [rows EXCEPT ![r] = w] /\ pass' = [pass EXCEPT !.pc = "bind", !.id = r]
              /\ UNCHANGED <<disk, session, view, live, left>>
  <2>1. rows' \in [RowIds -> RowSet \cup {None, Null}]
    BY <1>2, <1>7
  <2> QED BY <1>5, <1>7, <2>1
<1> QED BY <1>3, <1>4, <1>6, <1>7, CreatedRows

\* The row is bound to the record of the operation.
LEMMA BindWrites ==
    ASSUME Core, At("bind"), checkpoint([live EXCEPT ![pass.cur].local = pass.id])
    PROVE  \E q \in RecordSet :
              /\ checkpoint(Put(live, pass.cur, q)) /\ live' = Put(live, pass.cur, q)
              /\ live'[pass.cur] = q /\ \A t \in Subjects \ {pass.cur} : live'[t] = live[t]
              /\ RecordOK(pass.cur, q) /\ q.local = pass.id /\ q.local \in RowIds
              /\ q.pending = Op /\ q.remote = Cur.remote /\ q.base = Cur.base /\ ~q.localOnly
              /\ q.remote # None
<1>1. /\ pass.cur # None /\ pass.cur \in Subjects /\ Cur \in RecordSet /\ ~Cur.localOnly
      /\ RecordOK(pass.cur, Cur) /\ pass.id \in RowIds /\ Cur.local = None /\ Cur.remote # None
  BY LocalFacts, NoId DEF Core, OperationOK, At
<1>2. PICK q : q = [Cur EXCEPT !.local = pass.id]
  OBVIOUS
<1>3. /\ q \in RecordSet /\ q.remote = Cur.remote /\ q.pending = Cur.pending /\ q.local = pass.id
      /\ q.localOnly = Cur.localOnly /\ q.base = Cur.base
  BY <1>1, <1>2 DEF RecordSet
<1>4. RecordOK(pass.cur, q)
  BY <1>1, <1>3, NoId, SubjectIds DEF RecordOK
<1>5. checkpoint(Put(live, pass.cur, q))
  BY <1>2 DEF Cur, Put
<1>6. live' = Put(live, pass.cur, q)
  BY <1>5 DEF checkpoint
<1>7. live'[pass.cur] = q /\ \A t \in Subjects \ {pass.cur} : live'[t] = live[t]
  BY <1>1, <1>3, <1>4, <1>6, CurReplaced
<1> QED BY <1>1, <1>3, <1>4, <1>5, <1>6, <1>7 DEF Op

LEMMA BindLocalCore == ASSUME Core, BindLocal PROVE Core'
<1>1. /\ At("bind") /\ pass.pc = "bind" /\ UNCHANGED <<sides, ghosts, left>> /\ Around'
  BY AroundKept DEF BindLocal, At
<1>2. CASE StopFlushed("failed", None)
  BY <1>1, <1>2, FailedCore
<1>3. CASE /\ UNCHANGED <<journal, view>>
           /\ checkpoint([live EXCEPT ![pass.cur].local = pass.id]) /\ Go("verify")
  <2>1. PICK q \in RecordSet :
           /\ checkpoint(Put(live, pass.cur, q)) /\ live'[pass.cur] = q /\ RecordOK(pass.cur, q)
           /\ q.local \in RowIds /\ q.pending = Op /\ q.remote # None
    BY <1>1, <1>3, BindWrites
  <2>2. PICK p : p = pass'
    OBVIOUS
  <2>3. p \in PassSet /\ p.pc = "verify" /\ Onward(pass, p) /\ p.cur = pass.cur /\ p.todo = pass.todo
    BY <1>3, <2>2, PassFields DEF Go, PassSet, Pcs, Onward
  <2>4. OperationOK'
    <3>1. Cur' = q /\ Op' = Op
      BY <2>1, <2>2, <2>3 DEF Cur, Op
    <3>2. Op # None /\ ~Op.held /\ pass.cur \notin pass.todo /\ q # None /\ q.remote # None
          /\ q.local # None
      BY <1>1, <2>1, LocalFacts, NoId, ModelValuesAssumption
    <3> QED BY <2>2, <2>3, <3>1, <3>2 DEF OperationOK, At
  <2>5. pass.pc \in Busy /\ p.pc \in Busy \ {"check", "remote"}
    BY <1>1, <2>3 DEF Busy
  <2> QED BY <1>1, <1>3, <2>1, <2>2, <2>3, <2>4, <2>5, CurCheckpointed
<1> QED BY <1>2, <1>3 DEF BindLocal

\* What a verified operation leaves: an agreed record, confirmed in this pass.
LEMMA VerifyWrites ==
    ASSUME Core, At("verify"), Verify, Verified
    PROVE  \E d, q \in RecordSet :
              /\ snap' = Put(live, pass.cur, d) /\ live' = Put(live, pass.cur, q)
              /\ IF hasPending(snap') THEN flush(snap', journal) ELSE UNCHANGED disk
              /\ d.pending = None /\ d.base = Op.desired /\ d.local = Cur.local
              /\ d.remote = Cur.remote /\ d.localOnly = Cur.localOnly
              /\ q.pending = None /\ q.base = Op.desired /\ q.local = Cur.local
              /\ q.remote = Cur.remote /\ q.localOnly = Cur.localOnly
              /\ RecordOK(pass.cur, d) /\ RecordOK(pass.cur, q)
<1>1. /\ pass.cur # None /\ pass.cur \in Subjects /\ Cur \in RecordSet /\ ~Cur.localOnly
      /\ RecordOK(pass.cur, Cur) /\ Op.desired \in Bases /\ live \in RecordMaps
  BY LocalFacts, ValuesAreBases DEF At
<1>2. PICK d : d = [Cur EXCEPT !.base = Op.desired, !.pending = None]
  OBVIOUS
<1>3. /\ d \in RecordSet /\ d.pending = None /\ d.base = Op.desired /\ d.local = Cur.local
      /\ d.remote = Cur.remote /\ d.localOnly = Cur.localOnly
  BY <1>1, <1>2 DEF RecordSet
<1>4. PICK q : q = [d EXCEPT !.unconfirmed = FALSE]
  OBVIOUS
<1>5. /\ q \in RecordSet /\ q.pending = None /\ q.base = Op.desired /\ q.local = Cur.local
      /\ q.remote = Cur.remote /\ q.localOnly = Cur.localOnly
  BY <1>3, <1>4 DEF RecordSet
<1>6. PICK D : D = [live EXCEPT ![pass.cur] = d]
  OBVIOUS
<1>7. /\ snap' = D /\ live' = [D EXCEPT ![pass.cur].unconfirmed = FALSE]
      /\ IF hasPending(D) THEN flush(D, journal) ELSE UNCHANGED disk
  <2>1. D = [live EXCEPT ![pass.cur] = [@ EXCEPT !.base = Op.desired, !.pending = None]]
    BY <1>2, <1>6 DEF Cur
  <2> QED BY <2>1 DEF Verify
<1>8. D[pass.cur] = d
  BY <1>1, <1>6 DEF RecordMaps
<1>9. live' = [D EXCEPT ![pass.cur] = q]
  BY <1>4, <1>7, <1>8
<1>10. live' = [live EXCEPT ![pass.cur] = q]
  BY <1>1, <1>6, <1>9 DEF RecordMaps
<1>11. RecordOK(pass.cur, d) /\ RecordOK(pass.cur, q)
  BY <1>1, <1>3, <1>5 DEF RecordOK
<1> QED BY <1>3, <1>5, <1>6, <1>7, <1>10, <1>11 DEF Put

\* The next record of the phase.
LEMMA NextRecordIs ==
    ASSUME Core, NextRecord
    PROVE  /\ pass' \in PassSet /\ pass'.pc = pass.phase /\ pass'.pc \in {"resume", "plan"}
           /\ pass'.cur = None /\ pass'.id = None /\ pass'.phase = pass.phase /\ pass'.todo = pass.todo
           /\ pass'.local = pass.local /\ pass'.remote = pass.remote /\ pass'.held = Others(pass.held)
           /\ pass'.approved = pass.approved
<1>1. PICK p : p = pass'
  OBVIOUS
<1>2. p = [pass EXCEPT !.pc = pass.phase, !.cur = None, !.held = Others(pass.held), !.step = None,
                       !.current = None, !.id = None]
  BY <1>1 DEF NextRecord
<1>3. pass \in PassSet /\ pass.phase \in {"resume", "plan"} /\ pass.phase \in Pcs
      /\ Others(pass.held) \in SUBSET HeldSet
  BY PassFields DEF PassSet, Pcs, Others
<1>4. /\ p \in PassSet /\ p.pc = pass.phase /\ p.cur = None /\ p.id = None /\ p.phase = pass.phase
      /\ p.todo = pass.todo /\ p.local = pass.local /\ p.remote = pass.remote
      /\ p.held = Others(pass.held) /\ p.approved = pass.approved
  BY <1>2, <1>3 DEF PassSet
<1> QED BY <1>1, <1>3, <1>4

LEMMA VerifyCore == ASSUME Core, Verify PROVE Core'
<1>1. /\ At("verify") /\ pass.pc = "verify" /\ UNCHANGED <<sides, ghosts, left>> /\ Around'
  BY AroundKept DEF Verify, At
<1>2. CASE ~Verified
  BY <1>1, <1>2, FailedCore DEF Verify
<1>3. CASE Verified
  <2>1. NextRecord /\ UNCHANGED <<journal, view>>
    BY <1>3 DEF Verify
  <2>2. PICK d, q \in RecordSet :
              /\ snap' = Put(live, pass.cur, d) /\ live' = Put(live, pass.cur, q)
              /\ IF hasPending(snap') THEN flush(snap', journal) ELSE UNCHANGED disk
              /\ d.pending = None /\ d.base = Op.desired /\ d.local = Cur.local
              /\ d.remote = Cur.remote /\ d.localOnly = Cur.localOnly
              /\ q.pending = None /\ q.base = Op.desired /\ q.local = Cur.local
              /\ q.remote = Cur.remote /\ q.localOnly = Cur.localOnly
              /\ RecordOK(pass.cur, d) /\ RecordOK(pass.cur, q)
    BY <1>1, <1>3, VerifyWrites
  <2>3. pass.cur # None /\ pass.cur \in Subjects
    BY <1>1, LocalFacts
  <2>4. /\ snap' \in RecordMaps /\ RecordsOK(snap') /\ snap'[pass.cur] = d
        /\ \A t \in Subjects \ {pass.cur} : snap'[t] = live[t]
    BY <2>2, <2>3, CurReplaced
  <2>5. /\ live' \in RecordMaps /\ RecordsOK(live') /\ live'[pass.cur] = q
        /\ \A t \in Subjects \ {pass.cur} : live'[t] = live[t]
        /\ \A t \in pass.todo : live'[t] = live[t]
    BY <2>2, <2>3, CurReplaced
  <2>6. journal \in Journals /\ ReceiptsOK(journal) /\ Saved
    BY CoreParts DEF Saved
  <2>7. Saved'
    <3>1. CASE hasPending(snap')
      <4>1. disk' \in Disks /\ disk'.records = snap' /\ disk'.journal = journal
        BY <2>2, <2>4, <2>6, <3>1, Flushed
      <4> QED BY <2>1, <2>4, <2>6, <4>1 DEF Saved, RecordsOK, ReceiptsOK, Known
    <3>2. CASE ~hasPending(snap')
      <4>1. disk' = disk
        BY <2>2, <3>2
      <4>2. ~hasPending(snap)'
        BY <3>2 DEF hasPending, Known
      <4> QED BY <2>1, <2>4, <2>6, <4>1, <4>2 DEF Saved, RecordsOK, ReceiptsOK, Known
    <3> QED BY <3>1, <3>2
  <2>8. SameRecord(q, d)
    BY <2>2 DEF SameRecord
  <2>9. \A s \in Subjects : live'[s] = None <=> snap'[s] = None
    BY <2>2, <2>3, <2>4, <2>5, KnownRecord
  <2>10. \A s \in Known(live') : SameRecord(live'[s], snap'[s])
    <3>1. ASSUME NEW s \in Known(live') PROVE SameRecord(live'[s], snap'[s])
      <4>1. s \in Subjects
        BY DEF Known
      <4> QED BY <2>4, <2>5, <2>8, <4>1, SameAsSelf
    <3> QED BY <3>1
  <2>11. PassOK'
    <3>1. pass.phase = "plan" => pass.remote \in ListedIssues /\ pass.local \in ListedRows
      BY DEF Core, PassOK
    <3>2. pass.phase = "resume" => \A s \in pass.todo : live'[s] # None /\ live'[s].pending # None
      BY <2>5 DEF Core, PassOK
    <3> QED BY <2>1, <3>1, <3>2, NextRecordIs DEF PassOK, Idle, Listing, Busy, IsHeld
  <2>12. OperationOK' /\ pass'.pc # "idle" /\ pass' \in PassSet
    BY <2>1, NextRecordIs DEF OperationOK, At
  <2> QED BY <1>1, <2>1, <2>5, <2>7, <2>9, <2>10, <2>11, <2>12, Continued
<1> QED BY <1>2, <1>3

LEMMA PassFailsCore == ASSUME Core, PassFails PROVE Core'
<1>1. Around' /\ UNCHANGED session
  BY AroundSpent DEF PassFails
<1>2. Saved'
  <2>1. CASE UNCHANGED disk
    BY <1>1, <2>1, SavedKept
  <2>2. CASE flush(snap, journal)
    <3>1. Saved /\ snap' = snap /\ journal' = journal
      BY <1>1, CoreParts DEF session
    <3>2. disk' \in Disks /\ disk'.records = snap /\ disk'.journal = journal
      BY <2>2, <3>1, Flushed DEF Saved
    <3> QED BY <3>1, <3>2 DEF Saved, RecordsOK, ReceiptsOK, Known
  <2> QED BY <2>1, <2>2 DEF PassFails
<1>3. PICK p \in {"failed", "reconnect"} : Stop(p, None)
  BY DEF PassFails
<1>4. p \in Kinds /\ p # "missing"
  BY DEF Kinds
<1> QED BY <1>1, <1>2, <1>3, <1>4, Stopped

-----------------------------------------------------------------------------
(* What a person does, and what happens around the app.                     *)

\* resolve(): the baseline of the record in conflict, and a pass.
LEMMA ResolveWrites ==
    ASSUME Core, Resolve
    PROVE  \/ StopFlushed("failed", None)
           \/ \E q \in RecordSet :
                 /\ conflict \in Known(snap) /\ RecordOK(conflict, q)
                 /\ q.local = snap[conflict].local /\ q.remote = snap[conflict].remote
                 /\ q.pending = snap[conflict].pending /\ q.localOnly = snap[conflict].localOnly
                 /\ snap' = Put(snap, conflict, q) /\ flush(snap', journal) /\ RunPass(snap', {})
                 /\ UNCHANGED <<journal, view>>
<1>1. \/ StopFlushed("failed", None)
      \/ /\ snap[conflict] # None /\ snap[conflict].local \in InTable
         /\ snap[conflict].remote \in OnGitHub
         /\ \E keep \in [Fields -> {"local", "remote"}] :
               LET M == [snap EXCEPT ![conflict].base =
                           Settled(snap[conflict], rows[snap[conflict].local].val,
                                   project(issues[snap[conflict].remote]), keep)]
               IN  snap' = M /\ flush(M, journal) /\ RunPass(M, {}) /\ UNCHANGED <<journal, view>>
  BY DEF Resolve
<1>2. ASSUME snap[conflict] # None, snap[conflict].local \in InTable, snap[conflict].remote \in OnGitHub,
             NEW keep \in [Fields -> {"local", "remote"}],
             NEW b, b = Settled(snap[conflict], rows[snap[conflict].local].val,
                                project(issues[snap[conflict].remote]), keep),
             NEW M, M = [snap EXCEPT ![conflict].base = b],
             snap' = M, flush(M, journal), RunPass(M, {}), UNCHANGED <<journal, view>>
      PROVE  \E q \in RecordSet :
                 /\ conflict \in Known(snap) /\ RecordOK(conflict, q)
                 /\ q.local = snap[conflict].local /\ q.remote = snap[conflict].remote
                 /\ q.pending = snap[conflict].pending /\ q.localOnly = snap[conflict].localOnly
                 /\ snap' = Put(snap, conflict, q) /\ flush(snap', journal) /\ RunPass(snap', {})
                 /\ UNCHANGED <<journal, view>>
  <2>1. snap \in RecordMaps /\ RecordsOK(snap) /\ conflict \in Subjects
    BY CoreParts DEF Saved, Resolve, Core, TypeOK
  <2>2. snap[conflict] \in RecordSet /\ RecordOK(conflict, snap[conflict]) /\ conflict \in Known(snap)
    BY <1>2, <2>1, KnownRecord DEF RecordsOK, Known
  <2>3. rows[snap[conflict].local].val \in Values
    BY <1>2, CoreParts DEF InTable, Around, RowSet
  <2>4. project(issues[snap[conflict].remote]) \in Values
    BY <1>2, CurrentStatus DEF OnGitHub
  <2>5. b \in Bases \cup {None}
    BY <1>2, <2>2, <2>3, <2>4, SettledIsBase
  <2>6. PICK q : q = [snap[conflict] EXCEPT !.base = b]
    OBVIOUS
  <2>7. /\ q \in RecordSet /\ q.local = snap[conflict].local /\ q.remote = snap[conflict].remote
        /\ q.pending = snap[conflict].pending /\ q.localOnly = snap[conflict].localOnly
    BY <2>2, <2>5, <2>6 DEF RecordSet
  <2>8. RecordOK(conflict, q)
    BY <2>2, <2>7 DEF RecordOK
  <2>9. M = Put(snap, conflict, q)
    BY <1>2, <2>6 DEF Put
  <2> QED BY <1>2, <2>2, <2>7, <2>8, <2>9
<1> QED BY <1>1, <1>2

LEMMA ResolveCore == ASSUME Core, Resolve PROVE Core'
<1>1. /\ Idle /\ conflict \in Subjects /\ UNCHANGED <<sides, left>> /\ UNCHANGED ghosts /\ Around'
  <2>1. Idle /\ conflict \in Subjects /\ UNCHANGED <<sides, left>> /\ UNCHANGED ghosts
    BY DEF Resolve, CanRun, Core, TypeOK
  <2> QED BY <2>1, AroundKept
<1>2. CASE StopFlushed("failed", None)
  BY <1>1, <1>2, FailedCore
<1>3. ASSUME NEW q \in RecordSet, RecordOK(conflict, q), snap' = Put(snap, conflict, q),
             flush(snap', journal), RunPass(snap', {}), UNCHANGED <<journal, view>>
      PROVE  Core'
  <2>1. snap \in RecordMaps /\ RecordsOK(snap) /\ journal \in Journals /\ ReceiptsOK(journal)
    BY CoreParts DEF Saved
  <2>2. snap' \in RecordMaps /\ RecordsOK(snap')
    BY <1>1, <1>3, <2>1, PutRecord
  <2>3. disk' \in Disks /\ disk'.records = snap' /\ disk'.journal = journal
    BY <1>3, <2>1, <2>2, Flushed
  <2>4. Saved'
    BY <1>3, <2>1, <2>2, <2>3 DEF Saved, RecordsOK, ReceiptsOK, Known
  <2>5. {} \in SUBSET Keys /\ RunPass(snap', {}) /\ UNCHANGED view
    BY <1>3
  <2> QED BY <1>1, <2>4, <2>5, Begun
<1> QED BY <1>2, <1>3, ResolveWrites

\* The record a person settles after its issue went missing.
LEMMA MissingRecord ==
    ASSUME Core, CanSettleMissing
    PROVE  /\ Idle /\ problem.subject \in Subjects /\ snap[problem.subject] \in RecordSet
           /\ RecordOK(problem.subject, snap[problem.subject])
           /\ snap[problem.subject].local \in RowIds \cup {None}
           /\ snap[problem.subject] # None
<1>1. Idle /\ problem # None /\ problem.kind = "missing"
  BY DEF CanSettleMissing, CanRun
<1>2. problem.subject \in Subjects /\ snap[problem.subject] # None
  BY <1>1 DEF Core, MissingKnown, TypeOK, ProblemSet
<1>3. snap[problem.subject] \in RecordSet /\ RecordOK(problem.subject, snap[problem.subject])
  BY <1>2, KnownRecord, CoreParts DEF Saved, RecordsOK, Known
<1> QED BY <1>1, <1>2, <1>3 DEF RecordSet

LEMMA SettleMissingCore ==
    ASSUME Core, NEW M \in RecordMaps, RecordsOK(M), NEW r \in RowIds \cup {None}, NEW row,
           r \in InTable => row \in RowSet \cup {Null}, SettleMissing(M, r, row)
    PROVE  Core'
<1>1. /\ Idle /\ snap' = M /\ flush(M, journal) /\ UNCHANGED <<issues, journal, reviewed, unseen>>
  BY DEF SettleMissing, CanSettleMissing, CanRun
<1>2. journal \in Journals /\ ReceiptsOK(journal) /\ Around
  BY CoreParts DEF Saved
<1>3. disk' \in Disks /\ disk'.records = M /\ disk'.journal = journal
  BY <1>1, <1>2, Flushed
<1>4. Saved'
  BY <1>1, <1>2, <1>3 DEF Saved, RecordsOK, ReceiptsOK, Known
<1>5. CASE /\ rows' = (IF r \in InTable THEN [rows EXCEPT ![r] = row] ELSE rows)
           /\ RunPass(M, {}) /\ UNCHANGED <<view, strays, left>>
  <2>1. rows' \in [RowIds -> RowSet \cup {None, Null}]
    <3>1. rows \in [RowIds -> RowSet \cup {None, Null}]
      BY <1>2 DEF Around
    <3>2. CASE r \in InTable
      BY <1>5, <3>1, <3>2
    <3> QED BY <1>5, <3>1, <3>2
  <2>2. Around'
    BY <1>1, <1>2, <1>5, <2>1 DEF Around
  <2>3. {} \in SUBSET Keys /\ RunPass(snap', {}) /\ UNCHANGED view
    BY <1>1, <1>5
  <2> QED BY <1>1, <1>4, <2>2, <2>3, Begun
<1>6. CASE Spend /\ Stop("rejected", None) /\ strays' = strays \cup {r} /\ UNCHANGED rows
  <2>1. Around'
    BY <1>1, <1>2, <1>6, IssueAssumption DEF Around, Spend
  <2>2. "rejected" \in Kinds /\ "rejected" # "missing"
    BY DEF Kinds
  <2> QED BY <1>4, <1>6, <2>1, <2>2, Stopped
<1>7. CASE Spend /\ RunPass(M, {}) /\ strays' = strays \cup {r} /\ UNCHANGED rows /\ UNCHANGED view
  <2>1. Around'
    BY <1>1, <1>2, <1>7, IssueAssumption DEF Around, Spend
  <2>2. {} \in SUBSET Keys /\ RunPass(snap', {}) /\ UNCHANGED view
    BY <1>1, <1>7
  <2> QED BY <1>1, <1>4, <2>1, <2>2, Begun
<1> QED BY <1>5, <1>6, <1>7 DEF SettleMissing

\* keepHereOnly() and removeFromBoard(): the record without its issue, no record.
LEMMA KeptHereRecords ==
    ASSUME Core, CanSettleMissing
    PROVE  LET s == problem.subject
           IN  /\ KeptHere(s) \in RecordMaps /\ RecordsOK(KeptHere(s))
               /\ KeptHere(s)[s] # None /\ KeptHere(s)[s].remote = None /\ KeptHere(s)[s].localOnly
               /\ \A t \in Subjects \ {s} : KeptHere(s)[t] = snap[t]
<1>1. PICK s \in Subjects : s = problem.subject
  BY MissingRecord
<1>2. /\ snap \in RecordMaps /\ RecordsOK(snap) /\ snap[s] \in RecordSet /\ RecordOK(s, snap[s])
  BY <1>1, MissingRecord, CoreParts DEF Saved
<1>3. PICK q : q = [snap[s] EXCEPT !.remote = None, !.pending = None, !.localOnly = TRUE]
  OBVIOUS
<1>4. /\ q \in RecordSet /\ q.remote = None /\ q.pending = None /\ q.localOnly
      /\ q.local = snap[s].local
  BY <1>2, <1>3 DEF RecordSet
<1>5. RecordOK(s, q)
  BY <1>2, <1>4 DEF RecordOK
<1>6. KeptHere(s) = Put(snap, s, q)
  BY <1>3 DEF KeptHere, Put
<1>7. q # None
  BY <1>4, ModelValuesAssumption
<1>8. /\ KeptHere(s) \in RecordMaps /\ RecordsOK(KeptHere(s)) /\ KeptHere(s)[s] = q
      /\ \A t \in Subjects \ {s} : KeptHere(s)[t] = snap[t]
  BY <1>2, <1>4, <1>5, <1>6, PutRecord
<1> QED BY <1>1, <1>4, <1>7, <1>8

LEMMA ForgottenRecords ==
    ASSUME Core, CanSettleMissing
    PROVE  LET s == problem.subject
           IN  /\ Forgotten(s) \in RecordMaps /\ RecordsOK(Forgotten(s)) /\ Forgotten(s)[s] = None
               /\ \A t \in Subjects \ {s} : Forgotten(s)[t] = snap[t]
<1>1. PICK s \in Subjects : s = problem.subject
  BY MissingRecord
<1>2. snap \in RecordMaps /\ RecordsOK(snap)
  BY CoreParts DEF Saved
<1>3. PICK N : N = Forgotten(s)
  OBVIOUS
<1>4. N \in RecordMaps /\ N[s] = None /\ \A t \in Subjects \ {s} : N[t] = snap[t]
  BY <1>2, <1>3 DEF Forgotten, RecordMaps
<1>5. RecordsOK(N)
  BY <1>2, <1>4 DEF RecordsOK, Known
<1> QED BY <1>1, <1>3, <1>4, <1>5

LEMMA KeepHereOnlyCore == ASSUME Core, KeepHereOnly PROVE Core'
<1>1. PICK r, row, M : /\ r = snap[problem.subject].local /\ row = [rows[r] EXCEPT !.number = None]
                       /\ M = KeptHere(problem.subject) /\ SettleMissing(M, r, row)
  BY DEF KeepHereOnly
<1>2. CanSettleMissing
  BY <1>1 DEF SettleMissing
<1>3. M \in RecordMaps /\ RecordsOK(M) /\ r \in RowIds \cup {None}
  BY <1>1, <1>2, KeptHereRecords, MissingRecord
<1>4. r \in InTable => row \in RowSet \cup {Null}
  BY <1>1, CoreParts DEF InTable, Around, RowSet
<1> QED BY <1>1, <1>3, <1>4, SettleMissingCore

LEMMA RemoveFromBoardCore == ASSUME Core, RemoveFromBoard PROVE Core'
<1>1. PICK r, M : /\ r = snap[problem.subject].local /\ M = Forgotten(problem.subject)
                  /\ SettleMissing(M, r, Null)
  BY DEF RemoveFromBoard
<1>2. CanSettleMissing
  BY <1>1 DEF SettleMissing
<1>3. M \in RecordMaps /\ RecordsOK(M) /\ r \in RowIds \cup {None}
  BY <1>1, <1>2, ForgottenRecords, MissingRecord
<1>4. r \in InTable => Null \in RowSet \cup {Null}
  OBVIOUS
<1> QED BY <1>1, <1>3, <1>4, SettleMissingCore

\* The app is as it was.
LEMMA AppKept == ASSUME Core, UNCHANGED <<disk, session, view, pass, live>>, Around' PROVE Core'
<1>1. /\ disk' = disk /\ snap' = snap /\ journal' = journal /\ pass' = pass /\ live' = live
      /\ kind' = kind /\ problem' = problem /\ conflict' = conflict /\ shown' = shown
  BY DEF session, view
<1>2. TypeOK'
  BY <1>1 DEF Core, TypeOK, Around
<1>3. PassOK' /\ OperationOK'
  BY <1>1 DEF Core, PassOK, OperationOK, Idle, At, Cur, Op, IsHeld
<1>4. Mirrored' /\ MissingKnown'
  BY <1>1 DEF Core, Mirrored, MissingKnown, Idle, Known, SameRecord, IsHeld, hasPending
<1>5. /\ RecordsOK(live)' /\ RecordsOK(snap)' /\ RecordsOK(disk.records)'
      /\ ReceiptsOK(journal)' /\ ReceiptsOK(disk.journal)'
  BY <1>1 DEF Core, RecordsOK, ReceiptsOK, Known
<1> QED BY <1>2, <1>3, <1>4, <1>5 DEF Core

\* A value edited is a value.
LEMMA EditsAreValues == ASSUME NEW v \in Values, NEW w \in EditsOf(v) PROVE w \in Values
<1>1. CASE \E t \in Titles : w = [v EXCEPT !.title = t]
  BY <1>1 DEF Values
<1>2. CASE \E s \in Statuses : w = [v EXCEPT !.status = s]
  BY <1>2 DEF Values
<1> QED BY <1>1, <1>2 DEF EditsOf

\* One row edited by hand.
LEMMA RowEdited ==
    ASSUME Core, NEW r \in InTable, NEW v \in EditsOf(rows[r].val), rows' = [rows EXCEPT ![r].val = v]
    PROVE  \E w \in RowSet : /\ r \in RowIds /\ rows[r] \in RowSet /\ rows' = [rows EXCEPT ![r] = w]
                             /\ w.number = rows[r].number /\ w.localId = rows[r].localId
<1>1. r \in RowIds /\ rows[r] \in RowSet
  BY CoreParts DEF Around, InTable
<1>2. v \in Values
  BY <1>1, EditsAreValues DEF RowSet
<1>3. PICK w : w = [rows[r] EXCEPT !.val = v]
  OBVIOUS
<1>4. w \in RowSet /\ w.number = rows[r].number /\ w.localId = rows[r].localId
  BY <1>1, <1>2, <1>3 DEF RowSet
<1>5. rows' = [rows EXCEPT ![r] = w]
  BY <1>3
<1> QED BY <1>1, <1>4, <1>5

LEMMA RowsTyped ==
    ASSUME Core, NEW r \in RowIds, NEW w \in RowSet \cup {Null}, rows' = [rows EXCEPT ![r] = w]
    PROVE  rows' \in [RowIds -> RowSet \cup {None, Null}]
<1>1. rows \in [RowIds -> RowSet \cup {None, Null}]
  BY CoreParts DEF Around
<1> QED BY <1>1

LEMMA EditCore == ASSUME Core, Edit PROVE Core'
<1>1. Spend /\ UNCHANGED <<issues, disk, session, view, pass, live, ghosts>>
  BY DEF Edit
<1>2. PICK r \in InTable : \E v \in EditsOf(rows[r].val) : rows' = [rows EXCEPT ![r].val = v]
  BY DEF Edit
<1>3. PICK w \in RowSet : r \in RowIds /\ rows' = [rows EXCEPT ![r] = w]
  BY <1>2, RowEdited
<1>4. rows' \in [RowIds -> RowSet \cup {None, Null}]
  BY <1>3, RowsTyped
<1>5. Around'
  BY <1>1, <1>4, CoreParts, IssueAssumption DEF Around, ghosts, Spend
<1> QED BY <1>1, <1>5, AppKept

LEMMA CreateCore == ASSUME Core, Create PROVE Core'
<1>1. Spend /\ UNCHANGED <<issues, disk, session, view, pass, live, ghosts>>
  BY DEF Create
<1>2. PICK r \in FreshRows, v \in Values : rows' = [rows EXCEPT ![r] = Row(v, None, None, None)]
  BY DEF Create
<1>3. Row(v, None, None, None) \in RowSet /\ r \in RowIds
  BY DEF Row, RowSet, FreshRows
<1>4. rows' \in [RowIds -> RowSet \cup {None, Null}]
  BY <1>2, <1>3, RowsTyped
<1>5. Around'
  BY <1>1, <1>4, CoreParts, IssueAssumption DEF Around, ghosts, Spend
<1> QED BY <1>1, <1>5, AppKept

LEMMA HostEditCore == ASSUME Core, HostEdit PROVE Core'
<1>1. Spend /\ Touches("local") /\ UNCHANGED <<issues, disk, session, view, pass, live, reviewed, strays>>
  BY DEF HostEdit
<1>2. rows' \in [RowIds -> RowSet \cup {None, Null}]
  <2>1. CASE \E r \in InTable : \E v \in EditsOf(rows[r].val) : rows' = [rows EXCEPT ![r].val = v]
    <3>1. PICK r \in InTable : \E v \in EditsOf(rows[r].val) : rows' = [rows EXCEPT ![r].val = v]
      BY <2>1
    <3>2. PICK w \in RowSet : r \in RowIds /\ rows' = [rows EXCEPT ![r] = w]
      BY <3>1, RowEdited
    <3> QED BY <3>2, RowsTyped
  <2>2. CASE \E r \in InTable : rows' = [rows EXCEPT ![r] = Null]
    BY <2>2, RowsTyped DEF InTable
  <2> QED BY <2>1, <2>2 DEF HostEdit
<1>3. unseen' \subseteq {"local", "remote"}
  BY <1>1, CoreParts DEF Around, Touches
<1>4. Around'
  BY <1>1, <1>2, <1>3, CoreParts, IssueAssumption DEF Around, Spend
<1> QED BY <1>1, <1>4, AppKept

\* What a person does to an issue on GitHub.
LEMMA GitHubEdits ==
    ASSUME Core, GitHubEdit
    PROVE  \E n \in Numbers, i \in IssueSet :
              /\ issues[n] # None /\ issues' = [issues EXCEPT ![n] = i]
              /\ i.by = issues[n].by /\ i.wrote \in {None, issues[n].wrote}
<1>1. PICK n \in Numbers :
        /\ issues[n] # None
        /\ \/ \E v \in EditsOf(project(issues[n])) :
                issues' = [issues EXCEPT ![n] = Edited(@, v)]
           \/ issues' = [issues EXCEPT ![n].gone = ~@]
  BY DEF GitHubEdit
<1>2. issues[n] \in IssueSet
  BY <1>1, CoreParts DEF Around
<1>3. CASE issues' = [issues EXCEPT ![n].gone = ~@]
  <2>1. PICK i : i = [issues[n] EXCEPT !.gone = ~@]
    OBVIOUS
  <2>2. i \in IssueSet /\ i.by = issues[n].by /\ i.wrote = issues[n].wrote
    BY <1>2, <2>1 DEF IssueSet
  <2>3. issues' = [issues EXCEPT ![n] = i]
    BY <1>3, <2>1
  <2> QED BY <1>1, <2>2, <2>3
<1>4. ASSUME NEW v \in EditsOf(project(issues[n])),
             issues' = [issues EXCEPT ![n] = Edited(@, v)]
      PROVE  \E i \in IssueSet : /\ issues' = [issues EXCEPT ![n] = i]
                                 /\ i.by = issues[n].by /\ i.wrote = None
  <2>1. v \in Values
    BY <1>2, Projected, EditsAreValues
  <2>2. PICK c \in BOOLEAN, d \in BOOLEAN : c = (v.status = "Done") /\ d = (v.status = "Doing")
    OBVIOUS
  <2>3. c \in Flags("Done") /\ d \in Flags("Doing") /\ v.title \in Titles
    BY <2>1, <2>2 DEF Flags, Values
  <2>4. PICK m \in Nat : m = issues[n].rev + 1
    BY <1>2 DEF IssueSet
  <2>5. PICK i : i = [issues[n] EXCEPT !.title = v.title, !.rev = m, !.closed = c, !.doing = d,
                                       !.wrote = None]
    OBVIOUS
  <2>6. i \in IssueSet /\ i.by = issues[n].by /\ i.wrote = None
    BY <1>2, <2>3, <2>5 DEF IssueSet
  <2>7. issues' = [issues EXCEPT ![n] = i]
    <3>1. i = Edited(issues[n], v)
      BY <2>2, <2>4, <2>5 DEF Edited
    <3> QED BY <1>4, <3>1, Zenon
  <2> QED BY <2>6, <2>7
<1> QED BY <1>1, <1>3, <1>4

LEMMA GitHubEditCore == ASSUME Core, GitHubEdit PROVE Core'
<1>1. /\ Spend /\ Touches("remote")
      /\ UNCHANGED <<rows, disk, session, view, pass, live, reviewed, strays>>
  BY DEF GitHubEdit
<1>2. PICK n \in Numbers, i \in IssueSet : issues' = [issues EXCEPT ![n] = i]
  BY GitHubEdits
<1>3. issues' \in [Numbers -> IssueSet \cup {None}]
  BY <1>2, CoreParts DEF Around
<1>4. unseen' \subseteq {"local", "remote"}
  BY <1>1, CoreParts DEF Around, Touches
<1>5. Around'
  BY <1>1, <1>3, <1>4, CoreParts, IssueAssumption DEF Around, Spend
<1> QED BY <1>1, <1>5, AppKept

\* The connection changes; the pass and the session do not.
LEMMA ConnectionCore ==
    ASSUME Core, Around', Saved', UNCHANGED <<session, conflict, pass, live>>,
           kind' \in {"loading", "ready", "not-connected"},
           problem' \in {None, problem}, shown' \in {None, shown},
           disk' = disk \/ disk'.journal = journal
    PROVE  Core'
<1>1. snap' = snap /\ journal' = journal /\ pass' = pass /\ live' = live
  BY DEF session
<1>2. TypeOK'
  BY <1>1 DEF Core, TypeOK, Around, Saved, Disks
<1>3. PassOK'
  BY <1>1 DEF Core, PassOK, Idle, IsHeld
<1>4. OperationOK'
  <2>1. pass.cur # None /\ At("flight") => disk'.journal[pass.cur][pass.step] # None
    BY DEF Core, OperationOK, At
  <2> QED BY <1>1, <2>1 DEF Core, OperationOK, At, Cur, Op
<1>5. Mirrored'
  BY <1>1 DEF Core, Mirrored, Saved, Idle, Known, SameRecord, IsHeld
<1>6. MissingKnown'
  BY <1>1 DEF Core, MissingKnown, Idle
<1>7. RecordsOK(live)'
  BY <1>1 DEF Core, RecordsOK, Known
<1> QED BY <1>2, <1>3, <1>4, <1>5, <1>6, <1>7 DEF Core, Saved

LEMMA LoadCore == ASSUME Core, Load PROVE Core'
BY ConnectionCore, AroundKept, SavedKept DEF Load

LEMMA DisconnectCore == ASSUME Core, Disconnect PROVE Core'
<1>1. Around' /\ Saved' /\ UNCHANGED <<session, conflict, pass, live, disk>>
      /\ kind' = "loading" /\ problem' = None /\ shown' = None
  BY AroundSpent, SavedKept DEF Disconnect
<1> QED BY <1>1, ConnectionCore

LEMMA ConnectCore == ASSUME Core, Connect PROVE Core'
<1>1. /\ UNCHANGED <<sides, session, conflict, pass, live, ghosts, left>> /\ Around'
      /\ kind' = "loading" /\ problem' = None /\ shown' = None
  BY AroundKept DEF Connect
<1>2. CASE UNCHANGED disk
  BY <1>1, <1>2, ConnectionCore, SavedKept
<1>3. CASE flush(snap, journal)
  <2>1. Saved /\ snap' = snap /\ journal' = journal
    BY <1>1, CoreParts DEF session
  <2>2. disk' \in Disks /\ disk'.records = snap /\ disk'.journal = journal
    BY <1>3, <2>1, Flushed DEF Saved
  <2>3. Saved'
    BY <2>1, <2>2 DEF Saved, RecordsOK, ReceiptsOK, Known
  <2> QED BY <1>1, <2>2, <2>3, ConnectionCore
<1> QED BY <1>2, <1>3 DEF Connect

LEMMA ReloadCore == ASSUME Core, Reload PROVE Core'
<1>1. /\ snap' = disk.records /\ journal' = disk.journal /\ live' = disk.records /\ disk' = disk
      /\ kind' = "loading" /\ problem' = None /\ conflict' = None /\ shown' = None
      /\ pass' = NoPass /\ Spend /\ UNCHANGED <<rows, ghosts>>
  BY DEF Reload
<1>2. issues' \in [Numbers -> IssueSet \cup {None}]
  BY EffectTyped, CoreParts DEF Reload, Around
<1>3. Around'
  BY <1>1, <1>2, CoreParts, IssueAssumption DEF Around, ghosts, Spend
<1>4. Saved'
  <2>1. /\ disk \in Disks /\ RecordsOK(disk.records) /\ ReceiptsOK(disk.journal)
        /\ disk.records \in RecordMaps /\ disk.journal \in Journals
    BY CoreParts DEF Saved, Disks
  <2> QED BY <1>1, <2>1 DEF Saved, RecordsOK, ReceiptsOK, Known
<1>5. TypeOK'
  BY <1>1, <1>3, <1>4, NoPassOK DEF TypeOK, Around, Saved, Disks
<1>6. PassOK' /\ OperationOK' /\ MissingKnown'
  BY <1>1, NoPassOK DEF PassOK, OperationOK, MissingKnown, Idle, Listing, Busy, Resumed, At
<1>7. Mirrored' /\ RecordsOK(live)'
  BY <1>1, <1>4 DEF Saved, Mirrored, SameRecord, RecordsOK, Known
<1> QED BY <1>4, <1>5, <1>6, <1>7 DEF Core, Saved

LEMMA NoRecords ==
    ASSUME NEW M, M = [s \in Subjects |-> None]
    PROVE  M \in RecordMaps /\ Known(M) = {} /\ RecordsOK(M) /\ ~hasPending(M)
BY DEF RecordMaps, Known, RecordsOK, hasPending

LEMMA EmptyJournal ==
    ASSUME NEW j, j = [s \in Subjects |-> NoEntries]
    PROVE  j \in Journals /\ ReceiptsOK(j) /\ \A s \in Subjects, t \in Steps : j[s][t] = None
<1>1. "create" \in Steps
  BY DEF Steps
<1>2. NoEntries \in [Steps -> EntrySet \cup {None}] /\ \A t \in Steps : NoEntries[t] = None
  BY DEF NoEntries
<1> QED BY <1>1, <1>2 DEF Journals, ReceiptsOK

LEMMA InitCore == ASSUME Init PROVE Core
<1>1. snap \in RecordMaps /\ Known(snap) = {} /\ RecordsOK(snap) /\ ~hasPending(snap)
  BY NoRecords DEF Init
<1>2. journal \in Journals /\ ReceiptsOK(journal)
  BY EmptyJournal DEF Init
<1>3. /\ disk = [records |-> snap, journal |-> journal] /\ live = snap /\ kind = "loading"
      /\ problem = None /\ conflict = None /\ shown = None /\ pass = NoPass /\ reviewed = {}
      /\ unseen = {} /\ strays = {} /\ left = MaxEvents
  BY DEF Init
<1>4. disk \in Disks /\ disk.records = snap /\ disk.journal = journal
  BY <1>1, <1>2, <1>3 DEF Disks
<1>5. issues \in [Numbers -> IssueSet \cup {None}]
  <2>1. ASSUME NEW t \in Titles PROVE Issue(t, None, None) \in IssueSet
    <3>1. FALSE \in Flags("Done") /\ FALSE \in Flags("Doing")
      BY DEF Flags
    <3> QED BY <3>1 DEF Issue, IssueSet
  <2> QED BY <2>1 DEF Init
<1>6. rows \in [RowIds -> RowSet \cup {None, Null}]
  <2>1. ASSUME NEW v \in Values PROVE Row(v, None, None, None) \in RowSet
    BY DEF Row, RowSet
  <2> QED BY <2>1 DEF Init
<1>7. TypeOK
  BY <1>1, <1>2, <1>3, <1>4, <1>5, <1>6, NoPassOK, IssueAssumption DEF TypeOK, Disks
<1>8. PassOK /\ OperationOK /\ MissingKnown
  BY <1>3, NoPassOK DEF PassOK, OperationOK, MissingKnown, Idle, Listing, Busy, Resumed, At
<1>9. Mirrored
  BY <1>1, <1>3 DEF Mirrored
<1> QED BY <1>1, <1>2, <1>3, <1>4, <1>7, <1>8, <1>9 DEF Core

LEMMA PlanCore == ASSUME Core, Plan PROVE Core'
BY SkipCore, MissingCore, ConflictingCore, AcknowledgeCore, OperateCore DEF Plan

LEMMA NextCore == ASSUME Core, [Next]_vars PROVE Core'
<1>1. CASE PassStep
  BY <1>1, ResumeCore, ListRemoteCore, ListLocalCore, PlanCore, EndPassCore, CheckCore,
     PublishRemoteCore, DeliveredCore, ReceiptRefusedCore, AnswerLostCore, NotSentCore, RefusedCore, PublishedCore,
     PublishLocalCore, CreateLocalCore, BindLocalCore, VerifyCore, PassFailsCore DEF PassStep
<1>2. CASE Person
  BY <1>2, SyncCore, SendCore, ResolveCore, KeepHereOnlyCore, RemoveFromBoardCore, EditCore,
     CreateCore, LoadCore, ConnectCore, DisconnectCore DEF Person
<1>3. CASE World
  BY <1>3, HostEditCore, GitHubEditCore, ReloadCore DEF World
<1>4. CASE UNCHANGED vars
  BY <1>4, AppKept, AroundKept DEF vars
<1> QED BY <1>1, <1>2, <1>3, <1>4 DEF Next

\* The state keeps its types, and the pass its shape: a pass works on records that are
\* those of the last checkpoint, an operation under way is a saved one of a known
\* record, and one with operations left is always on disk.
THEOREM CoreInvariant == Spec => []Core
<1>1. Init => Core
  BY InitCore
<1>2. Core /\ [Next]_vars => Core'
  BY NextCore
<1> QED BY <1>1, <1>2, PTL DEF Spec

\* Every value the app holds, saves or writes is one it can have read or a person can
\* have entered: TypeOK holds for any number of issues, rows, titles and events.
THEOREM TypeCorrect == Spec => []TypeOK
<1>1. Core => TypeOK
  BY DEF Core
<1> QED BY <1>1, CoreInvariant, PTL

-----------------------------------------------------------------------------
(* What was sent to GitHub was approved and journalled.                     *)

\* A step that sends nothing.
Quiet ==
    /\ UNCHANGED <<issues, journal, reviewed>>
    /\ disk'.journal = disk.journal \/ disk'.journal = journal
    /\ \/ pass' = pass /\ live' = live
       \/ pass'.pc \notin {"flight", "answered"} /\ pass'.approved \subseteq pass.approved

LEMMA QuietKeeps == ASSUME Core, Reviewed, Journalled, Quiet PROVE Reviewed' /\ Journalled'
<1>1. /\ issues' = issues /\ journal' = journal /\ reviewed' = reviewed
      /\ disk'.journal = disk.journal \/ disk'.journal = journal
  BY DEF Quiet
<1>2. CASE pass' = pass /\ live' = live
  <2>1. Reviewed'
    BY <1>1, <1>2 DEF Reviewed, ReviewedOnly, Cur, Op
  <2>2. Journalled'
    BY <1>1, <1>2 DEF Journalled, CreatedOnce, At
  <2> QED BY <2>1, <2>2
<1>3. CASE pass'.pc \notin {"flight", "answered"} /\ pass'.approved \subseteq pass.approved
  <2>1. Reviewed'
    BY <1>1, <1>3 DEF Reviewed, ReviewedOnly
  <2>2. Journalled'
    BY <1>1, <1>3 DEF Journalled, CreatedOnce, At
  <2> QED BY <2>1, <2>2
<1> QED BY <1>2, <1>3 DEF Quiet

LEMMA Flushes ==
    /\ \A M, j : flush(M, j) => disk'.journal = j
    /\ \A M : checkpoint(M) => disk' = disk \/ disk'.journal = journal'
    /\ \A M, a : RunPass(M, a) => pass'.pc = "resume" /\ pass'.approved = a
<1>1. ASSUME NEW M, NEW j, flush(M, j) PROVE disk'.journal = j
  BY <1>1 DEF flush
<1>2. ASSUME NEW M, checkpoint(M) PROVE disk' = disk \/ disk'.journal = journal'
  BY <1>1, <1>2 DEF checkpoint
<1>3. ASSUME NEW M, NEW a, RunPass(M, a) PROVE pass'.pc = "resume" /\ pass'.approved = a
  BY <1>3 DEF RunPass, NoPass
<1> QED BY <1>1, <1>2, <1>3

LEMMA StopIsQuiet ==
    ASSUME NEW p, NEW about, StopFlushed(p, about), UNCHANGED <<issues, reviewed>>
    PROVE  Quiet
BY NoPassOK, Flushes DEF StopFlushed, Stop, Quiet

LEMMA RunIsQuiet ==
    ASSUME Core, NEW M, RunPass(M, {}), UNCHANGED <<issues, journal, reviewed>>,
           disk' = disk \/ flush(snap', journal)
    PROVE  Quiet
BY Flushes DEF Quiet

\* The steps of a pass that send nothing.
LEMMA MovesAreQuiet ==
    ASSUME Core, NEW pc, pc \notin {"flight", "answered"}, pass'.pc = pc, pass'.approved = pass.approved,
           UNCHANGED <<issues, journal, reviewed>>,
           disk' = disk \/ (\E M : checkpoint(M)) \/ (\E M : flush(M, journal))
    PROVE  Quiet
BY Flushes DEF Quiet

LEMMA ListingQuiet == ASSUME Core, Resume \/ ListRemote \/ ListLocal PROVE Quiet
<1>1. UNCHANGED <<issues, journal, reviewed>> \/ (ListLocal /\ UNCHANGED <<issues, reviewed>>)
  BY DEF Resume, ListRemote, ListLocal, sides, session, ghosts
<1>2. CASE Resume
  <2>1. disk' = disk /\ UNCHANGED <<issues, journal, reviewed>>
    BY <1>2 DEF Resume, sides, session, ghosts
  <2>2. pass'.pc \in {"listRemote", "check", "resume"} /\ pass'.approved = pass.approved
    BY <1>2, PassFields DEF Resume, Go, PassSet, At
  <2> QED BY <2>1, <2>2, MovesAreQuiet
<1>3. CASE ListRemote
  <2>1. disk' = disk /\ UNCHANGED <<issues, journal, reviewed>>
    BY <1>3 DEF ListRemote, sides, session, ghosts
  <2>2. pass'.pc = "listLocal" /\ pass'.approved = pass.approved
    BY <1>3, PassFields DEF ListRemote, PassSet
  <2> QED BY <2>1, <2>2, MovesAreQuiet
<1>4. CASE ListLocal
  <2>1. PICK list, found :
           \/ StopFlushed("failed", None)
           \/ /\ UNCHANGED <<journal, view>> /\ checkpoint(found)
              /\ pass' = [pass EXCEPT !.pc = "plan", !.phase = "plan", !.local = list,
                                      !.todo = Known(found)]
    BY <1>4 DEF ListLocal
  <2>2. UNCHANGED <<issues, reviewed>>
    BY <1>4 DEF ListLocal, sides, ghosts
  <2>3. CASE StopFlushed("failed", None)
    BY <2>2, <2>3, StopIsQuiet
  <2>4. CASE /\ UNCHANGED <<journal, view>> /\ checkpoint(found)
             /\ pass' = [pass EXCEPT !.pc = "plan", !.phase = "plan", !.local = list,
                                     !.todo = Known(found)]
    <3>1. pass'.pc = "plan" /\ pass'.approved = pass.approved
      BY <2>4, PassFields DEF PassSet
    <3> QED BY <2>2, <2>4, <3>1, MovesAreQuiet
  <2> QED BY <2>1, <2>3, <2>4
<1> QED BY <1>2, <1>3, <1>4

LEMMA PlanQuiet ==
    ASSUME Core, NEW s \in Known(live), Skip(s) \/ Missing(s) \/ Conflicting(s) \/ Acknowledge(s)
    PROVE  Quiet
<1>1. UNCHANGED <<issues, reviewed>> /\ At("plan")
  BY DEF Skip, Missing, Conflicting, Acknowledge, Plannable, Planning, sides, ghosts
<1>2. CASE Skip(s)
  <2>1. disk' = disk /\ journal' = journal
    BY <1>2 DEF Skip, session
  <2>2. pass'.pc = "plan" /\ pass'.approved = pass.approved
    BY <1>1, <1>2, PassFields DEF Skip, PassSet, At
  <2> QED BY <1>1, <2>1, <2>2, MovesAreQuiet
<1>3. CASE Missing(s)
  BY <1>1, <1>3, StopIsQuiet DEF Missing
<1>4. CASE Conflicting(s)
  BY <1>1, <1>4, StopIsQuiet DEF Conflicting
<1>5. CASE Acknowledge(s)
  <2>1. journal' = journal /\ \E M : checkpoint(M)
    BY <1>5 DEF Acknowledge
  <2>2. pass'.pc = "plan" /\ pass'.approved = pass.approved
    BY <1>1, <1>5, PassFields DEF Acknowledge, PassSet, At
  <2> QED BY <1>1, <2>1, <2>2, MovesAreQuiet
<1> QED BY <1>2, <1>3, <1>4, <1>5

LEMMA EndPassQuiet == ASSUME Core, EndPass PROVE Quiet
<1>1. UNCHANGED <<issues, journal, reviewed>> /\ pass' = NoPass /\ \E M : flush(M, journal)
  BY DEF EndPass, sides, ghosts
<1> QED BY <1>1, Flushes, NoPassOK DEF Quiet

LEMMA CheckQuiet == ASSUME Core, Check PROVE Quiet
<1>1. UNCHANGED <<issues, reviewed>>
  BY DEF Check, sides
<1>2. CASE Go("remote") /\ UNCHANGED <<disk, session>>
  <2>1. pass'.pc = "remote" /\ pass'.approved = pass.approved
    BY <1>2, PassFields DEF Go, PassSet
  <2> QED BY <1>1, <1>2, <2>1, MovesAreQuiet DEF session
<1> QED BY <1>1, <1>2, StopIsQuiet DEF Check

LEMMA LocalQuiet == ASSUME Core, PublishLocal \/ CreateLocal \/ BindLocal PROVE Quiet
<1>1. UNCHANGED <<issues, reviewed>>
  BY DEF PublishLocal, CreateLocal, BindLocal, sides, ghosts
<1>2. \/ \E p, about : StopFlushed(p, about)
      \/ journal' = journal /\ Go("verify") /\ \E M : checkpoint(M)
      \/ /\ UNCHANGED <<disk, session>>
         /\ \E r : pass' = [pass EXCEPT !.pc = "bind", !.id = r]
  BY DEF PublishLocal, CreateLocal, BindLocal, Refuse
<1>3. CASE \E p, about : StopFlushed(p, about)
  BY <1>1, <1>3, StopIsQuiet
<1>4. CASE journal' = journal /\ Go("verify") /\ \E M : checkpoint(M)
  <2>1. pass'.pc = "verify" /\ pass'.approved = pass.approved
    BY <1>4, PassFields DEF Go, PassSet
  <2> QED BY <1>1, <1>4, <2>1, MovesAreQuiet
<1>5. CASE /\ UNCHANGED <<disk, session>>
           /\ \E r : pass' = [pass EXCEPT !.pc = "bind", !.id = r]
  <2>1. pass'.pc = "bind" /\ pass'.approved = pass.approved
    BY <1>5, PassFields DEF PassSet
  <2> QED BY <1>1, <1>5, <2>1, MovesAreQuiet DEF session
<1> QED BY <1>2, <1>3, <1>4, <1>5

LEMMA VerifyQuiet == ASSUME Core, Verify PROVE Quiet
<1>1. UNCHANGED <<issues, reviewed>>
  BY DEF Verify, sides, ghosts
<1>2. CASE ~Verified
  BY <1>1, <1>2, StopIsQuiet DEF Verify
<1>3. CASE Verified
  <2>1. journal' = journal /\ NextRecord /\ (disk' = disk \/ \E M : flush(M, journal))
    BY <1>3 DEF Verify
  <2>2. pass'.pc \in {"resume", "plan"} /\ pass'.approved = pass.approved
    BY <2>1, NextRecordIs
  <2> QED BY <1>1, <2>1, <2>2, MovesAreQuiet
<1> QED BY <1>2, <1>3

LEMMA PassFailsQuiet == ASSUME Core, PassFails PROVE Quiet
<1>1. UNCHANGED <<issues, journal, reviewed>> /\ pass' = NoPass
  BY DEF PassFails, sides, session, ghosts, Stop
<1> QED BY <1>1, Flushes, NoPassOK DEF Quiet, PassFails

LEMMA RefusedQuiet == ASSUME Core, Refused PROVE Quiet
BY StopIsQuiet DEF Refused, sides, ghosts

LEMMA PersonQuiet ==
    ASSUME Core, Sync \/ Resolve \/ KeepHereOnly \/ RemoveFromBoard
    PROVE  Quiet
<1>1. CASE Sync
  BY <1>1, RunIsQuiet DEF Sync, sides, session, ghosts
<1>2. CASE Resolve
  <2>1. UNCHANGED <<issues, reviewed>>
    BY <1>2 DEF Resolve, sides, ghosts
  <2>2. \/ StopFlushed("failed", None)
        \/ \E M : snap' = M /\ flush(M, journal) /\ RunPass(M, {}) /\ journal' = journal
    BY <1>2 DEF Resolve
  <2> QED BY <2>1, <2>2, StopIsQuiet, RunIsQuiet
<1>3. ASSUME NEW M, NEW r, NEW row, SettleMissing(M, r, row) PROVE Quiet
  <2>1. UNCHANGED <<issues, journal, reviewed>> /\ snap' = M /\ flush(M, journal)
    BY <1>3 DEF SettleMissing
  <2>2. RunPass(M, {}) \/ Stop("rejected", None)
    BY <1>3 DEF SettleMissing
  <2>3. CASE Stop("rejected", None)
    BY <2>1, <2>3, Flushes, NoPassOK DEF Quiet, Stop
  <2> QED BY <2>1, <2>2, <2>3, RunIsQuiet
<1> QED BY <1>1, <1>2, <1>3 DEF KeepHereOnly, RemoveFromBoard

LEMMA AroundQuiet ==
    ASSUME Core, Edit \/ Create \/ Load \/ Connect \/ Disconnect \/ HostEdit \/ UNCHANGED vars
    PROVE  Quiet
<1>1. UNCHANGED <<issues, journal, reviewed, pass, live>>
  BY DEF Edit, Create, Load, Connect, Disconnect, HostEdit, vars, sides, session, ghosts
<1>2. disk' = disk \/ flush(snap, journal)
  BY DEF Edit, Create, Load, Connect, Disconnect, HostEdit, vars
<1> QED BY <1>1, <1>2, Flushes DEF Quiet

LEMMA SendKeeps == ASSUME Core, Reviewed, Journalled, Send PROVE Reviewed' /\ Journalled'
<1>1. PICK keys : RunPass(snap, keys) /\ reviewed' = reviewed \cup keys
  BY DEF Send
<1>2. issues' = issues /\ journal' = journal /\ disk' = disk
  BY DEF Send, sides, session
<1>3. pass'.pc = "resume" /\ pass'.approved = keys
  BY <1>1, Flushes
<1>4. Reviewed'
  BY <1>1, <1>2, <1>3 DEF Reviewed, ReviewedOnly
<1>5. Journalled'
  BY <1>2, <1>3 DEF Journalled, CreatedOnce, At
<1> QED BY <1>4, <1>5

\* The journal may change, but keeps the entries of creates.
LEMMA CreatesKept ==
    ASSUME Core, Journalled, UNCHANGED issues, disk'.journal \in {disk.journal, journal'},
           \A s \in Subjects : journal[s].create # None => journal'[s].create # None,
           pass'.pc # "flight"
    PROVE  Journalled'
<1>1. \A n \in Numbers : issues[n] # None => issues[n].by \in Subjects \cup {None}
  BY CoreParts DEF Around, IssueSet
<1> QED BY <1>1 DEF Journalled, CreatedOnce, At

LEMMA OperateKeeps ==
    ASSUME Core, Reviewed, Journalled, NEW s \in Known(live), Operate(s)
    PROVE  Reviewed' /\ Journalled'
<1>1. /\ UNCHANGED <<issues, reviewed>> /\ journal' = NewOperation(journal, s) /\ \E M : checkpoint(M)
  BY DEF Operate, Plannable, Planning, sides, ghosts
<1>2. pass'.pc = "check" /\ pass'.approved = pass.approved
  BY PassFields DEF Operate, PassSet
<1>3. disk'.journal \in {disk.journal, journal'}
  BY <1>1, Flushes
<1>4. \A t \in Subjects : journal[t].create # None => journal'[t].create # None
  <2>1. s \in Subjects /\ journal \in Journals /\ ReceiptsOK(journal)
    BY DEF Known, Core, TypeOK
  <2>2. \A t \in Subjects : journal'[t].create = journal[t].create
    BY <1>1, <2>1, NewOperationJournal
  <2> QED BY <2>2
<1>5. Reviewed'
  BY <1>1, <1>2 DEF Reviewed, ReviewedOnly
<1> QED BY <1>1, <1>2, <1>3, <1>4, <1>5, CreatesKept

\* A request, sent for the first time or answered before.
LEMMA RequestedKeeps ==
    ASSUME Core, Reviewed, Journalled, NEW step \in Steps, NEW args \in Args, NEW current,
           Requested(step, args, current), pass.cur \in Subjects, UNCHANGED <<sides, ghosts>>,
           Key(Cur.remote, Op.desired) \in reviewed
    PROVE  Reviewed' /\ Journalled'
<1>1. /\ UNCHANGED <<issues, reviewed>> /\ pass \in PassSet /\ journal \in Journals
      /\ ReceiptsOK(journal)
  BY PassFields DEF sides, ghosts, Core, TypeOK
<1>2. PICK J : J = [journal EXCEPT ![pass.cur][step] = Entry("sent", args, None)]
  OBVIOUS
<1>3. \A s \in Subjects : journal[s].create # None => J[s].create # None
  <2>1. PICK e : e = Entry("sent", args, None)
    OBVIOUS
  <2>2. e \in EntrySet \cup {None} /\ e # None /\ e.state = "sent"
    BY <2>1, ModelValuesAssumption DEF Entry, EntrySet
  <2>3. J = Entered(journal, pass.cur, step, e)
    BY <1>2, <2>1 DEF Entered
  <2>4. step = "create" /\ e # None /\ e.state = "receipt" => e.id \in Numbers
    BY <2>2
  <2>5. /\ J[pass.cur][step] = e
        /\ \A u \in Subjects, v \in Steps : u # pass.cur \/ v # step => J[u][v] = journal[u][v]
    BY <1>1, <2>2, <2>3, <2>4, EntryWritten
  <2>6. "create" \in Steps
    BY DEF Steps
  <2> QED BY <2>2, <2>5, <2>6
<1>4. CASE /\ journal[pass.cur][step] = None /\ journal' = J /\ flush(snap, J)
           /\ pass' = [pass EXCEPT !.pc = "flight", !.step = step, !.current = current]
           /\ UNCHANGED <<snap, live, view, left>>
  <2>1. /\ pass'.pc = "flight" /\ pass'.cur = pass.cur /\ pass'.step = step
        /\ pass'.approved = pass.approved
    BY <1>1, <1>4 DEF PassSet
  <2>2. Reviewed'
    BY <1>1, <1>4, <2>1 DEF Reviewed, ReviewedOnly, Cur, Op
  <2>3. disk'.journal = J
    BY <1>4, Flushes
  <2>4. \A n \in Numbers : issues[n] # None => issues[n].by \in Subjects \cup {None}
    BY CoreParts DEF Around, IssueSet
  <2>5. step = "create" => \A n \in Numbers : issues[n] # None => issues[n].by # pass.cur
    BY <1>4, NoId DEF Journalled
  <2>6. Journalled'
    BY <1>1, <1>3, <1>4, <2>1, <2>3, <2>4, <2>5 DEF Journalled, CreatedOnce, At
  <2> QED BY <2>2, <2>6
<1>5. CASE /\ journal' = J /\ UNCHANGED snap /\ Stop("rejected", None)
           /\ UNCHANGED disk \/ flush(snap, J)
  <2>0. disk'.journal \in {disk.journal, journal'}
    BY <1>5, Flushes
  <2>1. pass'.pc = "idle" /\ pass'.approved = {}
    BY <1>5, NoPassOK DEF Stop
  <2>2. Reviewed'
    BY <1>1, <2>1 DEF Reviewed, ReviewedOnly
  <2> QED BY <1>1, <1>3, <1>5, <2>0, <2>1, <2>2, CreatesKept
<1>6. CASE /\ \E i \in Nat \cup {None} :
                 pass' = [pass EXCEPT !.pc = "answered", !.step = step, !.current = current, !.id = i]
           /\ UNCHANGED <<disk, session, view, live, left>>
  <2>1. pass'.pc = "answered" /\ pass'.cur = pass.cur /\ pass'.approved = pass.approved
    BY <1>1, <1>6 DEF PassSet
  <2>2. Reviewed'
    BY <1>1, <1>6, <2>1 DEF Reviewed, ReviewedOnly, Cur, Op
  <2> QED BY <1>1, <1>6, <2>1, <2>2, CreatesKept DEF session
<1>7. CASE \E p \in {"uncertain", "other"} : StopFlushed(p, pass.cur)
  BY <1>1, <1>7, StopIsQuiet, QuietKeeps
<1> QED BY <1>2, <1>4, <1>5, <1>6, <1>7, RequestedOutcomes

LEMMA PublishRemoteKeeps ==
    ASSUME Core, Reviewed, Journalled, PublishRemote PROVE Reviewed' /\ Journalled'
<1>1. /\ At("remote") /\ UNCHANGED <<sides, ghosts>> /\ UNCHANGED <<issues, reviewed>>
      /\ pass.cur \in Subjects /\ Cur \in RecordSet /\ Op \in OpSet
  BY PassFields DEF PublishRemote, At, Core, PassOK, Busy, sides, ghosts
<1>2. CASE StopFlushed("failed", None)
  BY <1>1, <1>2, StopIsQuiet, QuietKeeps
<1>3. CASE Go("local") /\ UNCHANGED <<disk, session>>
  <2>1. pass'.pc = "local" /\ pass'.approved = pass.approved
    BY <1>3, PassFields DEF Go, PassSet
  <2>2. Quiet
    BY <1>1, <1>3, <2>1, MovesAreQuiet DEF session
  <2> QED BY <2>2, QuietKeeps
<1>4. CASE Hold
  <2>1. PICK q \in RecordSet :
           /\ checkpoint([live EXCEPT ![pass.cur] = q])
           /\ pass' = [pass EXCEPT !.pc = pass.phase, !.cur = None,
                                   !.held = Others(@) \cup {[subject |-> pass.cur,
                                                     key |-> Key(Cur.remote, Op.desired),
                                                     unconfirmed |-> q.unconfirmed]}]
    BY <1>1, <1>4, HoldWrites
  <2>2. pass'.pc \in {"resume", "plan"} /\ pass'.approved = pass.approved
    BY <2>1, PassFields DEF PassSet
  <2>3. journal' = journal /\ \E M : checkpoint(M)
    BY <1>4, <2>1 DEF Hold
  <2>4. Quiet
    BY <1>1, <2>2, <2>3, MovesAreQuiet
  <2> QED BY <2>4, QuietKeeps
<1>5. Approved => Key(Cur.remote, Op.desired) \in reviewed
  BY DEF Approved, Reviewed
<1>6. CASE Approved /\ Requested("create", Op.desired.title, None)
  <2>1. Op.desired.title \in Args /\ "create" \in Steps
    BY <1>1, ArgsTyped DEF OpSet, Steps
  <2> QED BY <1>1, <1>5, <1>6, <2>1, RequestedKeeps
<1>7. CASE Approved /\ Requested("fields", PatchArgs(Op.desired), RemoteValue.status)
  <2>1. PatchArgs(Op.desired) \in Args /\ "fields" \in Steps
    BY <1>1, ArgsTyped DEF OpSet, Steps
  <2> QED BY <1>1, <1>5, <1>7, <2>1, RequestedKeeps
<1> QED BY <1>2, <1>3, <1>4, <1>6, <1>7 DEF PublishRemote

LEMMA PublishedKeeps == ASSUME Core, Reviewed, Journalled, Published PROVE Reviewed' /\ Journalled'
<1>1. /\ At("answered") /\ pass.pc = "answered" /\ UNCHANGED <<sides, ghosts>>
      /\ UNCHANGED <<issues, reviewed>>
  BY DEF Published, At, sides, ghosts
<1>2. pass.cur \in Subjects /\ Op \in OpSet /\ Key(Cur.remote, Op.desired) \in reviewed
  BY <1>1, TargetIs DEF Reviewed
<1>3. CASE StopFlushed("failed", None)
  BY <1>1, <1>3, StopIsQuiet, QuietKeeps
<1>4. CASE Requested("initial-fields", PatchArgs(Op.desired), project(issues[Target]).status)
  <2>1. PatchArgs(Op.desired) \in Args /\ "initial-fields" \in Steps
    BY <1>2, ArgsTyped DEF OpSet, Steps
  <2> QED BY <1>1, <1>2, <1>4, <2>1, RequestedKeeps
<1>5. CASE Requested(IF pass.step = "fields" THEN "label" ELSE "initial-label", None, pass.current)
  <2>1. None \in Args /\ (IF pass.step = "fields" THEN "label" ELSE "initial-label") \in Steps
    BY DEF Args, Steps
  <2> QED BY <1>1, <1>2, <1>5, <2>1, RequestedKeeps
<1>6. CASE journal' = journal /\ Go("local") /\ \E M : checkpoint(M)
  <2>1. pass'.pc = "local" /\ pass'.approved = pass.approved
    BY <1>6, PassFields DEF Go, PassSet
  <2>2. Quiet
    BY <1>1, <1>6, <2>1, MovesAreQuiet
  <2> QED BY <2>2, QuietKeeps
<1> QED BY <1>3, <1>4, <1>5, <1>6 DEF Published

\* What a request did on GitHub was approved, and its create is the first of its record.
LEMMA EffectKeeps ==
    ASSUME Core, Reviewed, Journalled, At("flight"), Possible, issues' = Effect,
           UNCHANGED reviewed
    PROVE  /\ ReviewedOnly' /\ CreatedOnce'
           /\ \A m \in Numbers : issues'[m] # None /\ issues'[m].by # None =>
                 /\ journal[issues'[m].by].create # None
                 /\ disk.journal[issues'[m].by].create # None
<1>1. PICK n \in Numbers, i \in IssueSet :
         /\ Effect = [issues EXCEPT ![n] = i]
         /\ pass.step = "create" => /\ n = NewNumber /\ issues[n] = None
                                    /\ i.by = pass.cur /\ i.wrote = Key(None, Op.desired)
         /\ pass.step # "create" => /\ n \in OnGitHub /\ i.by = issues[n].by
         /\ pass.step \in {"fields", "initial-fields"} => i.wrote = Key(Cur.remote, Op.desired)
         /\ pass.step \in {"label", "initial-label"} => i.wrote = issues[n].wrote
  BY EffectIs
<1>2. issues \in [Numbers -> IssueSet \cup {None}] /\ None \notin IssueSet
  BY CoreParts, ModelValuesAssumption DEF Around
<1>3. issues'[n] = i /\ \A m \in Numbers \ {n} : issues'[m] = issues[m]
  BY <1>1, <1>2
<1>4. /\ pass.step \in Steps /\ pass.step = "create" => Cur.remote = None
  BY TargetIs DEF At, Updates
<1>5. Key(Cur.remote, Op.desired) \in reviewed
  BY DEF Reviewed, At
<1>6. pass.step # "create" => issues[n] # None
  BY <1>1 DEF OnGitHub
<1>7. i.wrote # None => i.wrote \in reviewed
  <2>1. CASE pass.step = "create"
    <3>1. Cur.remote = None
      BY <2>1, TargetIs DEF At, Updates
    <3> QED BY <1>1, <1>5, <2>1, <3>1
  <2>2. CASE pass.step \in {"fields", "initial-fields"}
    BY <1>1, <1>5, <2>2
  <2>3. CASE pass.step \in {"label", "initial-label"}
    BY <1>1, <1>6, <2>3 DEF Reviewed, ReviewedOnly
  <2> QED BY <2>1, <2>2, <2>3, TargetIs DEF At, Steps
<1>8. ReviewedOnly'
  BY <1>3, <1>7 DEF Reviewed, ReviewedOnly
<1>9. CASE pass.step = "create"
  <2>1. i.by = pass.cur /\ \A m \in Numbers : issues[m] # None => issues[m].by # pass.cur
    BY <1>1, <1>9 DEF Journalled
  <2>2. journal[pass.cur].create # None /\ disk.journal[pass.cur].create # None
    BY <1>9, TargetIs DEF Core, OperationOK, At
  <2>3. CreatedOnce'
    BY <1>3, <2>1 DEF Journalled, CreatedOnce
  <2> QED BY <1>3, <1>8, <2>1, <2>2, <2>3 DEF Journalled
<1>10. CASE pass.step # "create"
  <2>1. i.by = issues[n].by /\ issues[n] # None
    BY <1>1, <1>6, <1>10
  <2>2. CreatedOnce'
    BY <1>3, <2>1 DEF Journalled, CreatedOnce
  <2> QED BY <1>3, <1>8, <2>1, <2>2 DEF Journalled
<1> QED BY <1>9, <1>10

\* An answer keeps what is journalled, and what it did was approved.
LEMMA AnswerKeeps ==
    ASSUME Core, Reviewed, Journalled, Answer, disk'.journal \in {disk.journal, journal'},
           pass'.pc # "flight"
    PROVE  ReviewedOnly' /\ reviewed' = reviewed /\ Journalled'
<1>1. /\ At("flight") /\ Possible /\ issues' = Effect /\ UNCHANGED <<rows, snap, ghosts>>
      /\ issues' \in [Numbers -> IssueSet \cup {None}]
      /\ pass.cur \in Subjects /\ pass.step \in Steps
  BY AnswerIs
<1>2. reviewed' = reviewed
  BY <1>1 DEF ghosts
<1>3. /\ ReviewedOnly' /\ CreatedOnce'
      /\ \A m \in Numbers : issues'[m] # None /\ issues'[m].by # None =>
            /\ journal[issues'[m].by].create # None
            /\ disk.journal[issues'[m].by].create # None
  BY <1>1, <1>2, EffectKeeps
<1>4. \A s \in Subjects : journal[s].create # None => journal'[s].create # None
  <2>1. PICK e \in EntrySet : journal' = Entered(journal, pass.cur, pass.step, e)
    BY AnswerIs
  <2>2. e # None /\ journal \in Journals /\ "create" \in Steps
    BY ModelValuesAssumption DEF Core, TypeOK, Steps
  <2> QED BY <1>1, <2>1, <2>2 DEF Entered, Journals
<1>5. \A n \in Numbers : issues'[n] # None => issues'[n].by \in Subjects \cup {None}
  BY <1>1 DEF IssueSet
<1>6. Journalled'
  BY <1>3, <1>4, <1>5 DEF Journalled, At
<1> QED BY <1>2, <1>3, <1>6

LEMMA DeliveredKeeps == ASSUME Core, Reviewed, Journalled, Delivered PROVE Reviewed' /\ Journalled'
<1>1. Answer /\ UNCHANGED live /\ pass.pc = "flight"
  BY DEF Delivered, Answer, At
<1>2. disk'.journal = journal'
  BY Flushes DEF Delivered
<1>3. pass'.pc = "answered" /\ pass'.cur = pass.cur /\ pass'.approved = pass.approved
  BY PassFields DEF Delivered, PassSet
<1>4. ReviewedOnly' /\ reviewed' = reviewed /\ Journalled'
  BY <1>1, <1>2, <1>3, AnswerKeeps
<1>5. Reviewed'
  BY <1>1, <1>3, <1>4 DEF Reviewed, Cur, Op
<1> QED BY <1>4, <1>5

LEMMA ReceiptRefusedKeeps ==
    ASSUME Core, Reviewed, Journalled, ReceiptRefused PROVE Reviewed' /\ Journalled'
<1>1. disk'.journal \in {disk.journal, journal'}
  BY Flushes DEF ReceiptRefused
<1>2. pass'.pc = "idle" /\ pass'.approved = {}
  BY NoPassOK DEF ReceiptRefused, Stop
<1>3. ReviewedOnly' /\ reviewed' = reviewed /\ Journalled'
  BY <1>1, <1>2, AnswerKeeps DEF ReceiptRefused
<1>4. Reviewed'
  BY <1>2, <1>3 DEF Reviewed
<1> QED BY <1>3, <1>4

\* The answer does not come back: what landed is journalled.
LEMMA LandedKeeps ==
    ASSUME Core, Reviewed, Journalled, At("flight"), issues' = issues \/ (Possible /\ issues' = Effect),
           UNCHANGED reviewed
    PROVE  /\ ReviewedOnly' /\ CreatedOnce'
           /\ \A m \in Numbers : issues'[m] # None /\ issues'[m].by # None =>
                 /\ journal[issues'[m].by].create # None
                 /\ disk.journal[issues'[m].by].create # None
<1>1. CASE issues' = issues
  BY <1>1 DEF Reviewed, Journalled, ReviewedOnly, CreatedOnce
<1> QED BY <1>1, EffectKeeps

LEMMA AnswerLostKeeps == ASSUME Core, Reviewed, Journalled, AnswerLost PROVE Reviewed' /\ Journalled'
<1>1. /\ At("flight") /\ (issues' = issues \/ (Possible /\ issues' = Effect)) /\ reviewed' = reviewed
      /\ StopFlushed("uncertain", None)
  BY DEF AnswerLost, ghosts
<1>2. journal' = journal /\ disk'.journal = journal /\ pass'.pc = "idle" /\ pass'.approved = {}
  BY <1>1, Flushes, NoPassOK DEF StopFlushed, Stop
<1>3. Reviewed'
  BY <1>1, <1>2, LandedKeeps DEF Reviewed
<1>4. Journalled'
  BY <1>1, <1>2, LandedKeeps DEF Journalled, At
<1> QED BY <1>3, <1>4

LEMMA NotSentKeeps == ASSUME Core, Reviewed, Journalled, NotSent PROVE Reviewed' /\ Journalled'
<1>1. /\ At("flight") /\ pass.pc = "flight" /\ UNCHANGED <<issues, reviewed>>
      /\ pass.cur \in Subjects /\ pass.step \in Steps /\ journal \in Journals
  BY TargetIs DEF NotSent, sides, ghosts, At, Core, TypeOK
<1>2. PICK J : J = [journal EXCEPT ![pass.cur][pass.step] = None] /\ journal' = J /\ flush(snap, J)
  BY DEF NotSent
<1>3. disk'.journal = J /\ pass'.pc = "idle" /\ pass'.approved = {}
  BY <1>2, Flushes, NoPassOK DEF NotSent, Stop
<1>4. \A s \in Subjects : journal[s].create # None /\ ~(pass.step = "create" /\ s = pass.cur)
                          => J[s].create # None
  <2>1. "create" \in Steps
    BY DEF Steps
  <2> QED BY <1>1, <1>2, <2>1 DEF Journals
<1>5. \A n \in Numbers : issues[n] # None => issues[n].by \in Subjects \cup {None}
  BY CoreParts DEF Around, IssueSet
<1>6. Reviewed'
  BY <1>1, <1>3 DEF Reviewed, ReviewedOnly
<1>7. Journalled'
  BY <1>1, <1>2, <1>3, <1>4, <1>5 DEF Journalled, CreatedOnce, At
<1> QED BY <1>6, <1>7

LEMMA GitHubEditKeeps == ASSUME Core, Reviewed, Journalled, GitHubEdit PROVE Reviewed' /\ Journalled'
<1>1. UNCHANGED <<disk, journal, pass, live, reviewed>>
  BY DEF GitHubEdit, session
<1>2. PICK n \in Numbers, i \in IssueSet :
              /\ issues[n] # None /\ issues' = [issues EXCEPT ![n] = i]
              /\ i.by = issues[n].by /\ i.wrote \in {None, issues[n].wrote}
  BY GitHubEdits
<1>3. issues \in [Numbers -> IssueSet \cup {None}]
  BY CoreParts DEF Around
<1>4. issues'[n] = i /\ \A m \in Numbers \ {n} : issues'[m] = issues[m]
  BY <1>2, <1>3
<1>5. Reviewed'
  BY <1>1, <1>2, <1>4 DEF Reviewed, ReviewedOnly, Cur, Op
<1>6. Journalled'
  <2>1. CreatedOnce'
    BY <1>2, <1>4 DEF Journalled, CreatedOnce
  <2>2. \A m \in Numbers : issues'[m] # None => issues[m] # None /\ issues'[m].by = issues[m].by
    BY <1>2, <1>4
  <2> QED BY <1>1, <2>1, <2>2 DEF Journalled, At
<1> QED BY <1>5, <1>6

LEMMA ReloadKeeps == ASSUME Core, Reviewed, Journalled, Reload PROVE Reviewed' /\ Journalled'
<1>1. /\ journal' = disk.journal /\ disk' = disk /\ reviewed' = reviewed
      /\ pass'.pc = "idle" /\ pass'.approved = {}
  BY NoPassOK DEF Reload, ghosts
<1>2. \/ At("flight") /\ Possible /\ issues' = Effect
      \/ issues' = issues
  BY DEF Reload
<1>3. CASE At("flight") /\ Possible /\ issues' = Effect
  BY <1>1, <1>3, EffectKeeps DEF Reviewed, Journalled, At
<1>4. CASE issues' = issues
  BY <1>1, <1>4 DEF Reviewed, Journalled, ReviewedOnly, CreatedOnce, At
<1> QED BY <1>2, <1>3, <1>4

LEMMA NextReviewed == ASSUME Core, Reviewed, Journalled, [Next]_vars PROVE Reviewed' /\ Journalled'
<1>1. CASE Plan
  <2>1. PICK s \in Known(live) : Skip(s) \/ Missing(s) \/ Conflicting(s) \/ Acknowledge(s) \/ Operate(s)
    BY <1>1 DEF Plan
  <2> QED BY <2>1, PlanQuiet, QuietKeeps, OperateKeeps
<1>2. CASE PassStep
  BY <1>1, <1>2, QuietKeeps, ListingQuiet, EndPassQuiet, CheckQuiet, PublishRemoteKeeps,
     DeliveredKeeps, ReceiptRefusedKeeps, AnswerLostKeeps, NotSentKeeps, RefusedQuiet, PublishedKeeps, LocalQuiet,
     VerifyQuiet, PassFailsQuiet DEF PassStep
<1>3. CASE Person
  BY <1>3, QuietKeeps, PersonQuiet, SendKeeps, AroundQuiet DEF Person
<1>4. CASE World
  BY <1>4, QuietKeeps, AroundQuiet, GitHubEditKeeps, ReloadKeeps DEF World
<1>5. CASE UNCHANGED vars
  BY <1>5, QuietKeeps, AroundQuiet
<1> QED BY <1>2, <1>3, <1>4, <1>5 DEF Next

LEMMA InitReviewed == ASSUME Init PROVE Reviewed /\ Journalled
<1>1. \A n \in Numbers : issues[n] # None => issues[n].by = None /\ issues[n].wrote = None
  BY DEF Init, Issue
<1>2. pass.pc = "idle" /\ pass.approved = {}
  BY NoPassOK DEF Init
<1>3. Reviewed
  BY <1>1, <1>2 DEF Reviewed, ReviewedOnly
<1>4. Journalled
  BY <1>1, <1>2 DEF Journalled, CreatedOnce, At
<1> QED BY <1>3, <1>4

\* Whatever is on its way to GitHub was approved, and every issue the app created has
\* the journal entry of its create, in the session and on disk: the strengthening of
\* the two theorems below.
THEOREM ReviewInvariant == Spec => [](Reviewed /\ Journalled)
<1>1. Init => Reviewed /\ Journalled
  BY InitReviewed
<1>2. Core /\ (Reviewed /\ Journalled) /\ [Next]_vars => (Reviewed /\ Journalled)'
  BY NextReviewed
<1> QED BY <1>1, <1>2, CoreInvariant, PTL DEF Spec

\* Whatever the app wrote to GitHub was approved by a person, by value and for that
\* issue, whatever was lost, replayed or reloaded in between: reviewGate() and send().
THEOREM WritesReviewed == Spec => []ReviewedOnly
<1>1. Reviewed /\ Journalled => ReviewedOnly
  BY DEF Reviewed
<1> QED BY <1>1, ReviewInvariant, PTL

\* A row becomes at most one issue: the journal entry of its create is saved before the
\* request leaves, and nothing drops it once the request can have landed.
THEOREM CreatesOnce == Spec => []CreatedOnce
<1>1. Reviewed /\ Journalled => CreatedOnce
  BY DEF Journalled
<1> QED BY <1>1, ReviewInvariant, PTL

-----------------------------------------------------------------------------
(* What an operation replaces is what it observed.                          *)

Writing == {"remote", "flight", "answered", "local"}
LEMMA NotWriting == ASSUME pass'.pc \notin Writing PROVE Observed'
BY DEF Observed, Writing, At

LEMMA StopNotWriting == ASSUME NEW p, NEW about, Stop(p, about) PROVE Observed'
<1>1. pass'.pc = "idle"
  BY NoPassOK DEF Stop
<1> QED BY <1>1, NotWriting DEF Writing

\* The steps after which no operation is being published.
LEMMA StepsNotWriting ==
    ASSUME Core,
           \/ Resume \/ ListRemote \/ ListLocal \/ Plan \/ EndPass \/ ReceiptRefused \/ AnswerLost \/ NotSent
           \/ Refused \/ PublishLocal \/ CreateLocal \/ BindLocal \/ Verify \/ PassFails \/ Sync \/ Send \/ Resolve
           \/ KeepHereOnly \/ RemoveFromBoard \/ Edit \/ Create \/ Reload
    PROVE  Observed'
<1>1. \A M, a : RunPass(M, a) => Observed'
  <2>1. ASSUME NEW M, NEW a, RunPass(M, a) PROVE Observed'
    <3>1. pass'.pc = "resume"
      BY <2>1, Flushes
    <3> QED BY <3>1, NotWriting DEF Writing
  <2> QED BY <2>1
<1>2. \A p, about : Stop(p, about) \/ StopFlushed(p, about) => Observed'
  BY StopNotWriting DEF StopFlushed
<1>3. \A pc \in {"plan", "listRemote", "listLocal", "check", "verify", "bind", "resume", "idle"} :
        pass'.pc = pc => Observed'
  BY NotWriting DEF Writing
<1>4. CASE Resume
  <2>1. pass'.pc \in {"listRemote", "check", "resume"}
    BY <1>4, PassFields DEF Resume, Go, PassSet, At
  <2> QED BY <1>3, <2>1
<1>5. CASE ListRemote
  <2>1. pass'.pc = "listLocal"
    BY <1>5, PassFields DEF ListRemote, PassSet
  <2> QED BY <1>3, <2>1
<1>6. CASE ListLocal
  <2>1. StopFlushed("failed", None) \/ \E list, todo : pass' = [pass EXCEPT !.pc = "plan", !.phase = "plan",
                                                                 !.local = list, !.todo = todo]
    BY <1>6 DEF ListLocal
  <2>2. StopFlushed("failed", None) \/ pass'.pc = "plan"
    BY <2>1, PassFields DEF PassSet
  <2> QED BY <1>2, <1>3, <2>2
<1>7. CASE Plan
  <2>1. PICK s \in Known(live) : Skip(s) \/ Missing(s) \/ Conflicting(s) \/ Acknowledge(s) \/ Operate(s)
    BY <1>7 DEF Plan
  <2>2. CASE Missing(s) \/ Conflicting(s)
    BY <1>2, <2>2 DEF Missing, Conflicting
  <2>3. CASE Skip(s) \/ Acknowledge(s)
    <3>1. pass'.pc = "plan"
      BY <2>3, PassFields DEF Skip, Acknowledge, Plannable, Planning, At, PassSet
    <3> QED BY <1>3, <3>1
  <2>4. CASE Operate(s)
    <3>1. pass'.pc = "check"
      BY <2>4, PassFields DEF Operate, PassSet
    <3> QED BY <1>3, <3>1
  <2> QED BY <2>1, <2>2, <2>3, <2>4
<1>8. CASE EndPass \/ Reload
  <2>1. pass'.pc = "idle"
    BY <1>8, NoPassOK DEF EndPass, Reload
  <2> QED BY <1>3, <2>1
<1>9. CASE ReceiptRefused \/ AnswerLost \/ NotSent \/ Refused \/ PassFails
  BY <1>2, <1>9 DEF ReceiptRefused, AnswerLost, NotSent, Refused, PassFails
<1>10. CASE PublishLocal \/ BindLocal
  <2>1. Go("verify") \/ \E p, about : StopFlushed(p, about)
    BY <1>10 DEF PublishLocal, BindLocal, Refuse
  <2>2. Go("verify") => pass'.pc = "verify"
    BY PassFields DEF Go, PassSet
  <2> QED BY <1>2, <1>3, <2>1, <2>2
<1>11. CASE CreateLocal
  <2>1. (\E p, about : StopFlushed(p, about)) \/ \E r : pass' = [pass EXCEPT !.pc = "bind", !.id = r]
    BY <1>11 DEF CreateLocal, Refuse
  <2>2. (\E p, about : StopFlushed(p, about)) \/ pass'.pc = "bind"
    BY <2>1, PassFields DEF PassSet
  <2> QED BY <1>2, <1>3, <2>2
<1>12. CASE Verify
  <2>1. NextRecord \/ \E p, about : StopFlushed(p, about)
    BY <1>12 DEF Verify
  <2>2. NextRecord => pass'.pc \in {"resume", "plan"}
    BY NextRecordIs
  <2> QED BY <1>2, <1>3, <2>1, <2>2
<1>13. CASE Sync \/ Send \/ Resolve
  BY <1>1, <1>2, <1>13 DEF Sync, Send, Resolve
<1>14. CASE KeepHereOnly \/ RemoveFromBoard
  <2>1. (\E M : RunPass(M, {})) \/ Stop("rejected", None)
    BY <1>14 DEF KeepHereOnly, RemoveFromBoard, SettleMissing
  <2> QED BY <1>1, <1>2, <2>1
<1>15. CASE Edit \/ Create
  <2>1. pass'.pc = "idle"
    BY <1>15 DEF Edit, EditTurn, Create, CanRun, Idle
  <2> QED BY <1>3, <2>1
<1> QED BY <1>4, <1>5, <1>6, <1>7, <1>8, <1>9, <1>10, <1>11, <1>12, <1>13, <1>14, <1>15

LEMMA CheckObserved == ASSUME Core, Observed, Check PROVE Observed'
<1>1. \/ \E p, about : StopFlushed(p, about)
      \/ /\ ~LocalLost /\ ~RemoteLost
         /\ Cur.local # None => Accepts("local", LocalValue)
         /\ Cur.remote # None => Accepts("remote", RemoteValue)
         /\ Go("remote") /\ live' = live
  BY DEF Check
<1>2. CASE \E p, about : StopFlushed(p, about)
  BY <1>2, StopNotWriting DEF StopFlushed
<1>3. CASE /\ ~LocalLost /\ ~RemoteLost
           /\ Cur.local # None => Accepts("local", LocalValue)
           /\ Cur.remote # None => Accepts("remote", RemoteValue)
           /\ Go("remote") /\ live' = live
  <2>1. issues' = issues /\ rows' = rows
    BY DEF Check, sides
  <2>2. pass'.pc = "remote" /\ pass'.cur = pass.cur
    BY <1>3, PassFields DEF Go, PassSet
  <2>3. /\ Cur.local # None => Cur.local \in InTable /\ LocalValue \in {Op.local, Op.desired}
        /\ Cur.remote # None => Cur.remote \in OnGitHub /\ RemoteValue \in {Op.remote, Op.desired}
    BY <1>3 DEF LocalLost, RemoteLost, Accepts
  <2>4. /\ Cur' = Cur /\ Op' = Op /\ InTable' = InTable /\ OnGitHub' = OnGitHub
        /\ LocalValue' = LocalValue /\ RemoteValue' = RemoteValue
    BY <1>3, <2>1, <2>2 DEF Cur, Op, InTable, OnGitHub, LocalValue, RemoteValue
  <2> QED BY <2>2, <2>3, <2>4 DEF Observed, At
<1> QED BY <1>1, <1>2, <1>3

\* The operation under way and the two sides are as they were.
LEMMA SidesKept ==
    ASSUME UNCHANGED <<issues, rows, unseen>>, pass'.cur = pass.cur,
           Cur'.local = Cur.local, Cur'.remote = Cur.remote, Op' = Op
    PROVE  /\ Cur.local \in InTable <=> (Cur.local \in InTable)' 
           /\ Cur.remote \in OnGitHub <=> (Cur.remote \in OnGitHub)'
           /\ LocalValue' = LocalValue /\ RemoteValue' = RemoteValue
BY DEF InTable, OnGitHub, LocalValue, RemoteValue

LEMMA RequestedObserved ==
    ASSUME Core, Observed, NEW step \in Steps, NEW args, NEW current, Requested(step, args, current),
           pass.cur \in Subjects, pass.pc \in {"remote", "answered"}, UNCHANGED <<sides, ghosts>>,
           step = "fields" => At("remote") /\ Cur.remote # None /\ RemoteValue # Op.desired
    PROVE  Observed'
<1>1. UNCHANGED <<issues, rows, unseen>> /\ pass \in PassSet
  BY PassFields DEF sides, ghosts
<1>2. CASE (\E p, about : StopFlushed(p, about)) \/ Stop("rejected", None)
  BY <1>2, StopNotWriting DEF StopFlushed
<1>3. CASE /\ pass' = [pass EXCEPT !.pc = "flight", !.step = step, !.current = current]
           /\ live' = live
  <2>1. pass'.pc = "flight" /\ pass'.cur = pass.cur /\ pass'.step = step
    BY <1>1, <1>3 DEF PassSet
  <2>2. /\ Cur' = Cur /\ Op' = Op
    BY <1>3, <2>1 DEF Cur, Op
  <2>3. /\ Cur.local \in InTable <=> (Cur.local \in InTable)' 
        /\ Cur.remote \in OnGitHub <=> (Cur.remote \in OnGitHub)'
        /\ LocalValue' = LocalValue /\ RemoteValue' = RemoteValue
    BY <1>1, <2>1, <2>2, SidesKept
  <2> QED BY <1>1, <2>1, <2>2, <2>3 DEF Observed, At
<1>4. CASE /\ \E i : pass' = [pass EXCEPT !.pc = "answered", !.step = step, !.current = current, !.id = i]
           /\ live' = live
  <2>1. pass'.pc = "answered" /\ pass'.cur = pass.cur
    BY <1>1, <1>4 DEF PassSet
  <2>2. /\ Cur' = Cur /\ Op' = Op
    BY <1>4, <2>1 DEF Cur, Op
  <2>3. /\ Cur.local \in InTable <=> (Cur.local \in InTable)' 
        /\ LocalValue' = LocalValue
    BY <1>1, <2>1, <2>2, SidesKept
  <2> QED BY <1>1, <2>1, <2>2, <2>3 DEF Observed, At
<1> QED BY <1>2, <1>3, <1>4, RequestedOutcomes

\* The pass goes on to the rows with what was observed there.
LEMMA LocalObserved ==
    ASSUME Core, Observed, pass.pc \in {"remote", "flight", "answered"}, pass'.pc \in {"local", "answered"},
           UNCHANGED <<rows, unseen>>, pass'.cur = pass.cur, Cur'.local = Cur.local, Op' = Op
    PROVE  Observed'
<1>1. /\ Cur.local \in InTable <=> (Cur.local \in InTable)'
      /\ LocalValue' = LocalValue
  BY DEF InTable, LocalValue
<1> QED BY <1>1 DEF Observed, At

LEMMA PublishRemoteObserved == ASSUME Core, Observed, PublishRemote PROVE Observed'
<1>1. /\ At("remote") /\ pass.pc = "remote" /\ UNCHANGED <<sides, ghosts>> /\ UNCHANGED <<rows, unseen>>
      /\ pass.cur \in Subjects /\ pass \in PassSet /\ Op \in OpSet
  BY PassFields DEF PublishRemote, At, Core, PassOK, Busy, sides, ghosts
<1>2. CASE StopFlushed("failed", None)
  BY <1>2, StopNotWriting DEF StopFlushed
<1>3. CASE Go("local") /\ live' = live
  <2>1. pass'.pc = "local" /\ pass'.cur = pass.cur
    BY <1>1, <1>3 DEF Go, PassSet
  <2> QED BY <1>1, <1>3, <2>1, LocalObserved DEF Cur, Op
<1>4. CASE Hold
  <2>1. pass'.pc \in {"resume", "plan"}
    BY <1>1, <1>4 DEF Hold, PassSet
  <2> QED BY <2>1, NotWriting DEF Writing
<1>5. CASE Requested("create", Op.desired.title, None)
  BY <1>1, <1>5, RequestedObserved DEF Steps
<1>6. CASE /\ Cur.remote # None /\ RemoteDiffers
           /\ Requested("fields", PatchArgs(Op.desired), RemoteValue.status)
  <2>1. "fields" \in Steps /\ RemoteValue # Op.desired
    BY <1>6 DEF Steps, RemoteDiffers
  <2> QED BY <1>1, <1>6, <2>1, RequestedObserved
<1> QED BY <1>2, <1>3, <1>4, <1>5, <1>6 DEF PublishRemote

LEMMA DeliveredObserved == ASSUME Core, Observed, Delivered PROVE Observed'
<1>1. pass.pc = "flight" /\ UNCHANGED <<rows, unseen, live>>
  BY DEF Delivered, Answer, At, ghosts
<1>2. pass'.pc = "answered" /\ pass'.cur = pass.cur
  BY PassFields DEF Delivered, PassSet
<1> QED BY <1>1, <1>2, LocalObserved DEF Cur, Op

LEMMA PublishedObserved == ASSUME Core, Observed, Published PROVE Observed'
<1>1. /\ At("answered") /\ pass.pc = "answered" /\ UNCHANGED <<sides, ghosts>> /\ UNCHANGED <<rows, unseen>>
      /\ pass.cur \in Subjects /\ pass \in PassSet
  BY PassFields DEF Published, At, Core, PassOK, Busy, sides, ghosts
<1>2. CASE StopFlushed("failed", None)
  BY <1>2, StopNotWriting DEF StopFlushed
<1>3. CASE Requested("initial-fields", PatchArgs(Op.desired), project(issues[Target]).status)
  BY <1>1, <1>3, RequestedObserved DEF Steps
<1>4. CASE Requested(IF pass.step = "fields" THEN "label" ELSE "initial-label", None, pass.current)
  <2>1. PICK step \in {"label", "initial-label"} : Requested(step, None, pass.current)
    BY <1>4
  <2>2. step \in Steps /\ step # "fields"
    BY DEF Steps
  <2> QED BY <1>1, <2>1, <2>2, RequestedObserved
<1>5. CASE checkpoint([live EXCEPT ![pass.cur].remote = Target]) /\ Go("local")
  <2>1. pass'.pc = "local" /\ pass'.cur = pass.cur
    BY <1>1, <1>5 DEF Go, PassSet
  <2>2. PICK q \in RecordSet : live'[pass.cur] = q /\ q.pending = Op /\ q.local = Cur.local
    BY <1>1, <1>5, PublishedWrites
  <2>3. Cur'.local = Cur.local /\ Op' = Op
    BY <2>1, <2>2 DEF Cur, Op
  <2> QED BY <1>1, <2>1, <2>3, LocalObserved
<1> QED BY <1>2, <1>3, <1>4, <1>5 DEF Published

\* Somebody changes a side: what was observed there no longer counts.
LEMMA OutsideObserved == ASSUME Core, Observed, HostEdit \/ GitHubEdit PROVE Observed'
<1>1. pass' = pass /\ live' = live
  BY DEF HostEdit, GitHubEdit
<1>2. CASE pass.pc \notin Writing
  BY <1>1, <1>2, NotWriting
<1>3. CASE pass.pc \in Writing /\ HostEdit
  <2>1. issues' = issues /\ unseen' = unseen \cup {"local"}
    BY <1>3 DEF HostEdit, Touches, Checked, Writing
  <2>2. (Cur.remote \in OnGitHub <=> (Cur.remote \in OnGitHub)') /\ RemoteValue' = RemoteValue
        /\ Op' = Op /\ Cur' = Cur
    BY <1>1, <2>1 DEF OnGitHub, RemoteValue, Op, Cur
  <2> QED BY <1>1, <2>1, <2>2 DEF Observed, At
<1>4. CASE pass.pc \in Writing /\ GitHubEdit
  <2>1. rows' = rows /\ unseen' = unseen \cup {"remote"}
    BY <1>4 DEF GitHubEdit, Touches, Checked, Writing
  <2>2. (Cur.local \in InTable <=> (Cur.local \in InTable)') /\ LocalValue' = LocalValue
        /\ Op' = Op /\ Cur' = Cur
    BY <1>1, <2>1 DEF InTable, LocalValue, Op, Cur
  <2> QED BY <1>1, <2>1, <2>2 DEF Observed, At
<1> QED BY <1>2, <1>3, <1>4

LEMMA SameObserved ==
    ASSUME Core, Observed, Load \/ Connect \/ Disconnect \/ UNCHANGED vars PROVE Observed'
<1>1. UNCHANGED <<issues, rows, pass, live, unseen>>
  BY DEF Load, Connect, Disconnect, vars, sides, ghosts
<1> QED BY <1>1 DEF Observed, At, Cur, Op, InTable, OnGitHub, LocalValue, RemoteValue

LEMMA NextObserved == ASSUME Core, Observed, [Next]_vars PROVE Observed'
<1>1. CASE PassStep
  BY <1>1, StepsNotWriting, CheckObserved, PublishRemoteObserved, DeliveredObserved, PublishedObserved
     DEF PassStep
<1>2. CASE Person
  BY <1>2, StepsNotWriting, SameObserved DEF Person
<1>3. CASE World
  BY <1>3, StepsNotWriting, OutsideObserved DEF World
<1> QED BY <1>1, <1>2, <1>3, SameObserved DEF Next

LEMMA InitObserved == ASSUME Init PROVE Observed
<1>1. pass.pc = "idle"
  BY NoPassOK DEF Init
<1> QED BY <1>1 DEF Observed, At

\* What finish() checked is still so on a side that nobody changed since: the
\* strengthening of the theorem below.
THEOREM ObservedInvariant == Spec => []Observed
<1>1. Init => Observed
  BY InitObserved
<1>2. Core /\ Observed /\ [Next]_vars => Observed'
  BY NextObserved
<1> QED BY <1>1, <1>2, CoreInvariant, PTL DEF Spec

\* The row an operation writes held what the operation observed, or its result.
LEMMA RowsReplaced ==
    ASSUME Core, Observed, PublishLocal, "local" \notin unseen, NEW r \in InTable
    PROVE  Replaced(rows[r].val, rows'[r].val, Op.local)
<1>1. At("local") /\ Cur.local # None /\ r \in RowIds
  BY DEF PublishLocal, InTable
<1>2. CASE rows' = rows
  BY <1>2 DEF Replaced
<1>3. CASE /\ Cur.local \in RowIds /\ rows[Cur.local] \in RowSet
           /\ rows' = [rows EXCEPT ![Cur.local] = Written(rows[Cur.local])]
  <2>1. rows \in [RowIds -> RowSet \cup {None, Null}]
    BY CoreParts DEF Around
  <2>2. CASE r # Cur.local
    <3>1. rows'[r] = rows[r]
      BY <1>1, <1>3, <2>1, <2>2
    <3> QED BY <3>1 DEF Replaced
  <2>3. CASE r = Cur.local
    <3>1. rows'[r].val = Op.desired
      BY <1>1, <1>3, <2>1, <2>3, WrittenRow
    <3>2. rows[r].val \in {Op.local, Op.desired} /\ rows[r].val \in Values
      BY <1>1, <1>3, <2>3 DEF Observed, At, LocalValue, RowSet
    <3>3. None \notin Values
      BY ModelValuesAssumption
    <3> QED BY <3>1, <3>2, <3>3 DEF Replaced
  <2> QED BY <2>2, <2>3
<1> QED BY <1>2, <1>3, PublishedRows

\* The issue an operation writes held what the operation observed.
LEMMA IssuesReplaced ==
    ASSUME Core, Observed, Answer, pass.step = "fields", "remote" \notin unseen, NEW n \in OnGitHub
    PROVE  Replaced(project(issues[n]), project(issues'[n]), Op.remote)
<1>1. At("flight") /\ Possible /\ issues' = Effect /\ n \in Numbers /\ issues[n] # None
  BY DEF Answer, OnGitHub
<1>2. PICK m \in Numbers, i \in IssueSet : Effect = [issues EXCEPT ![m] = i] /\ m = Target
  BY <1>1, EffectIs
<1>3. Target = Cur.remote /\ Cur.remote # None
  BY <1>1, TargetIs DEF At, Updates
<1>4. issues \in [Numbers -> IssueSet \cup {None}]
  BY CoreParts DEF Around
<1>5. CASE n # m
  <2>1. issues'[n] = issues[n]
    BY <1>1, <1>2, <1>4, <1>5
  <2> QED BY <2>1 DEF Replaced
<1>6. CASE n = m
  <2>1. project(issues[n]) = Op.remote
    BY <1>1, <1>2, <1>3, <1>6 DEF Observed, At, RemoteValue
  <2>2. project(issues[n]) \in Values /\ None \notin Values
    BY <1>1, CurrentStatus, ModelValuesAssumption
  <2> QED BY <2>1, <2>2 DEF Replaced
<1> QED BY <1>5, <1>6

\* An operation never overwrites, on either side, a value it did not observe, unless
\* that side changed after finish() checked it.
THEOREM ObservedReplaced == Spec => OnlyObservedReplaced
<1>1. Core /\ Observed /\ [Next]_vars =>
        [/\ PublishLocal /\ "local" \notin unseen =>
              \A r \in InTable : Replaced(rows[r].val, rows'[r].val, Op.local)
         /\ Answer /\ pass.step = "fields" /\ "remote" \notin unseen =>
              \A n \in OnGitHub :
                Replaced(project(issues[n]), project(issues'[n]), Op.remote)]_vars
  BY RowsReplaced, IssuesReplaced
<1> QED BY <1>1, CoreInvariant, ObservedInvariant, PTL DEF Spec, OnlyObservedReplaced

-----------------------------------------------------------------------------
(* After a pass without a problem every record is settled or in the review. *)

Reported ==
    Idle /\ problem = None /\ shown # None =>
        \A s \in Known(snap) : SettledAs(s, snap[s], shown)

LEMMA ListedStill ==
    ASSUME NEW s, NEW rec, NEW held, NEW more, {h \in held : h.subject = s} \subseteq more
    PROVE  /\ ListedAs(s, rec, held) => ListedAs(s, rec, more)
           /\ SettledAs(s, rec, held) => SettledAs(s, rec, more)
BY DEF ListedAs, SettledAs

\* A pass that goes on in the same phase and touches at most the record c.
LEMMA ShownOn ==
    ASSUME Core, Shown, ~Idle, ~Idle', pass'.phase = pass.phase, NEW c,
           {h \in pass.held : h.subject # c} \subseteq pass'.held, pass.cur \in {c, None, pass'.cur}, pass.todo \ {c} \subseteq pass'.todo,
           \A t \in Subjects \ {c} : live'[t] = live[t],
           c \in Known(live)' \ {pass'.cur} =>
              /\ live'[c].pending # None => ListedAs(c, live'[c], pass'.held)
              /\ pass.phase = "plan" => SettledAs(c, live'[c], pass'.held),
           pass.phase = "plan" => \A s \in Known(live)' : live'[s].pending = snap'[s].pending
    PROVE  Shown'
<1>1. \A s \in Known(live)' : s \in Subjects /\ s # None
  BY NoId DEF Known
<1>2. \A s \in Known(live)' : s # c => live'[s] = live[s] /\ s \in Known(live)
  BY DEF Known
<1>3. \A s \in Known(live)' \ {pass'.cur} : s # c => s # pass.cur
  BY <1>1
<1>0. \A s : s # c => {h \in pass.held : h.subject = s} \subseteq pass'.held
  OBVIOUS
<1>4. ASSUME NEW s \in Known(live)' \ {pass'.cur}, live'[s].pending # None,
             ~(pass'.phase = "resume" /\ s \in pass'.todo)
      PROVE  ListedAs(s, live'[s], pass'.held)
  <2>1. CASE s = c
    BY <1>4, <2>1
  <2>2. CASE s # c
    <3>1. s \in Known(live) \ {pass.cur} /\ live[s] = live'[s]
      BY <1>2, <1>3, <2>2
    <3>2. ~(Resumed /\ s \in pass.todo)
      BY <1>4, <2>2 DEF Resumed
    <3>3. ListedAs(s, live[s], pass.held)
      BY <1>4, <3>1, <3>2 DEF Shown
    <3> QED BY <1>0, <2>2, <3>1, <3>3, ListedStill
  <2> QED BY <2>1, <2>2
<1>5. ASSUME pass'.phase = "plan", NEW s \in Known(live)' \ ({pass'.cur} \cup pass'.todo)
      PROVE  SettledAs(s, live'[s], pass'.held)
  <2>1. CASE s = c
    BY <1>5, <2>1
  <2>2. CASE s # c
    <3>1. s \in Known(live) \ ({pass.cur} \cup pass.todo) /\ live[s] = live'[s]
      BY <1>2, <1>3, <1>5, <2>2
    <3>2. SettledAs(s, live[s], pass.held)
      BY <1>5, <3>1 DEF Shown
    <3> QED BY <1>0, <2>2, <3>1, <3>2, ListedStill
  <2> QED BY <2>1, <2>2
<1>6. Reported'
  BY DEF Reported
<1> QED BY <1>4, <1>5, <1>6 DEF Shown, Reported, Resumed, ListedAs, SettledAs, IsHeld

\* A pass that stops reports a problem.
Stops == \E p \in Kinds, about \in Subjects \cup {None} : Stop(p, about)
LEMMA ShownStopped == ASSUME Stops PROVE Shown'
<1>1. PICK p \in Kinds, about \in Subjects \cup {None} : Stop(p, about)
  BY DEF Stops
<1>2. problem' \in ProblemSet /\ pass' = NoPass
  BY <1>1 DEF Stop, ProblemSet
<1>3. problem' # None
  BY <1>2, ModelValuesAssumption
<1>4. pass'.pc = "idle" /\ pass'.phase = "resume"
  BY <1>2, NoPassOK
<1> QED BY <1>3, <1>4 DEF Shown, Idle

\* A pass that begins has every saved operation before it.
LEMMA ShownBegun == ASSUME Core', NEW approved, RunPass(snap', approved) PROVE Shown'
<1>1. /\ live' = snap' /\ pass'.pc = "resume" /\ pass'.phase = "resume"
      /\ pass'.todo = {s \in Known(snap') : snap'[s].pending # None}
  BY DEF RunPass, NoPass
<1>2. ASSUME NEW s \in Known(live)', live'[s].pending # None PROVE s \in pass'.todo
  BY <1>1, <1>2 DEF Known
<1> QED BY <1>1, <1>2 DEF Shown, Idle, Resumed

\* The pass goes on with the same records.
LEMMA ShownSame ==
    ASSUME Core, Shown, ~Idle, ~Idle', pass'.phase = pass.phase, pass'.held = pass.held,
           pass.cur \in {None, pass'.cur}, pass.todo \subseteq pass'.todo \cup {pass'.cur},
           UNCHANGED <<live, snap>>
    PROVE  Shown'
<1>1. pass.phase = "plan" => \A s \in Known(live)' : live'[s].pending = snap'[s].pending
  BY DEF Shown, Known
<1>2. /\ pass.cur \in {pass'.cur, None, pass'.cur} /\ pass.todo \ {pass'.cur} \subseteq pass'.todo
      /\ {h \in pass.held : h.subject # pass'.cur} \subseteq pass'.held
      /\ \A t \in Subjects \ {pass'.cur} : live'[t] = live[t]
      /\ ~(pass'.cur \in Known(live)' \ {pass'.cur})
  OBVIOUS
<1> QED BY <1>1, <1>2, ShownOn

\* The record of the operation is replaced, with its operation and its issue kept
\* or the pass done with it.
LEMMA ShownPut ==
    ASSUME Core, Core', Shown, ~Idle, ~Idle', pass'.phase = pass.phase,
           {h \in pass.held : h.subject # pass.cur} \subseteq pass'.held, pass.cur # None, pass'.cur \in {pass.cur, None}, pass'.todo = pass.todo,
           \A t \in Subjects \ {pass.cur} : live'[t] = live[t],
           pass'.cur = None =>
              /\ live'[pass.cur].pending # None => ListedAs(pass.cur, live'[pass.cur], pass'.held)
              /\ SettledAs(pass.cur, live'[pass.cur], pass'.held),
           \A s \in Known(live)' : live'[s].pending = snap'[s].pending
    PROVE  Shown'
<1>1. /\ pass.cur \in {pass.cur, None, pass'.cur} /\ pass.todo \ {pass.cur} \subseteq pass'.todo
      /\ pass.phase = "plan" => \A s \in Known(live)' : live'[s].pending = snap'[s].pending
  OBVIOUS
<1>2. pass.cur \in Known(live)' \ {pass'.cur} =>
              /\ live'[pass.cur].pending # None => ListedAs(pass.cur, live'[pass.cur], pass'.held)
              /\ pass.phase = "plan" => SettledAs(pass.cur, live'[pass.cur], pass'.held)
  OBVIOUS
<1> QED BY <1>1, <1>2, ShownOn

\* The ways a pass stops.
LEMMA StoppedIs ==
    ASSUME Core, NEW p \in Kinds, NEW about \in Subjects \cup {None, pass.cur},
           Stop(p, about) \/ StopFlushed(p, about)
    PROVE  Stops
<1>1. about \in Subjects \cup {None}
  BY PassFields
<1> QED BY <1>1 DEF Stops, StopFlushed

LEMMA ShownListing == ASSUME Core, Shown, Resume \/ ListRemote PROVE Shown'
<1>1. /\ snap' = snap /\ pass.pc \in {"resume", "listRemote"} /\ pass.cur = None /\ pass \in PassSet
  BY PassFields DEF Resume, ListRemote, session, At, Core, PassOK, Busy
<1>2. ~Idle
  BY <1>1 DEF Idle
<1>3. CASE Resume /\ pass.todo = {} /\ Go("listRemote") /\ UNCHANGED live
  <2>1. /\ pass'.pc = "listRemote" /\ pass'.phase = pass.phase /\ pass'.held = pass.held
        /\ pass.todo \subseteq pass'.todo \cup {pass'.cur}
    BY <1>1, <1>3 DEF Go, PassSet
  <2>2. ~Idle'
    BY <2>1 DEF Idle
  <2> QED BY <1>1, <1>2, <1>3, <2>1, <2>2, ShownSame
<1>4. ASSUME Resume, NEW s \in pass.todo, IsHeld(live[s]), pass' = [pass EXCEPT !.todo = @ \ {s}],
             live' = [live EXCEPT ![s] = [live[s] EXCEPT !.pending = None]]
      PROVE  Shown'
  <2>1. pass.pc = "resume" /\ pass.phase = "resume"
    BY <1>1, <1>4 DEF Resume, At, Core, PassOK, Listing, PassSet
  <2>2. /\ pass'.pc = "resume" /\ pass'.phase = pass.phase /\ pass'.held = pass.held
        /\ pass'.todo = pass.todo \ {s} /\ pass'.cur = None
    BY <1>1, <1>4, <2>1 DEF PassSet
  <2>3. live \in RecordMaps /\ RecordsOK(live) /\ s \in Known(live) /\ s \in Subjects
    BY <1>1, <2>1 DEF Core, TypeOK, PassOK, Known, PassSet
  <2>4. live'[s].pending = None /\ \A t \in Subjects \ {s} : live'[t] = live[t]
    <3>1. PICK r : r = [live[s] EXCEPT !.pending = None]
      OBVIOUS
    <3>2. PICK N : N = live'
      OBVIOUS
    <3>3. N = [live EXCEPT ![s] = r]
      BY <1>4, <3>1, <3>2
    <3>5. /\ r \in RecordSet /\ r.pending = None /\ r.local = live[s].local /\ r.remote = live[s].remote
          /\ r.base = live[s].base /\ r.localOnly = live[s].localOnly
      <4>1. live[s] \in RecordSet
        BY <2>3, KnownRecord
      <4> QED BY <3>1, <4>1 DEF RecordSet
    <3>6. /\ N \in RecordMaps /\ N[s] = r
          /\ \A t \in Subjects \ {s} : N[t] = live[t]
      BY <2>3, <3>3, <3>5 DEF RecordMaps
    <3>7. RecordsOK(N) /\ Known(N) = Known(live)
      BY <1>4, <2>3, <3>5, <3>6, HeldDropped
    <3>4. N[s].pending = None /\ \A t \in Subjects \ {s} : N[t] = live[t]
      BY <3>5, <3>6, <3>7
    <3> QED BY <3>2, <3>4
  <2>5. ~Idle' /\ pass.phase # "plan"
    BY <2>1, <2>2 DEF Idle
  <2> QED BY <1>1, <1>2, <2>2, <2>4, <2>5, ShownOn
<1>5. ASSUME NEW s \in pass.todo, UNCHANGED live,
             pass' = [pass EXCEPT !.todo = @ \ {s}, !.cur = s, !.pc = "check"]
      PROVE  Shown'
  <2>1. /\ pass'.pc = "check" /\ pass'.phase = pass.phase /\ pass'.held = pass.held
        /\ pass.todo \subseteq pass'.todo \cup {pass'.cur}
    BY <1>1, <1>5 DEF PassSet
  <2>2. ~Idle'
    BY <2>1 DEF Idle
  <2> QED BY <1>1, <1>2, <1>5, <2>1, <2>2, ShownSame
<1>6. CASE ListRemote
  <2>1. PICK l : pass' = [pass EXCEPT !.pc = "listLocal", !.remote = l]
    BY <1>6 DEF ListRemote
  <2>2. /\ pass'.pc = "listLocal" /\ pass'.phase = pass.phase /\ pass'.held = pass.held
        /\ pass.todo \subseteq pass'.todo \cup {pass'.cur}
    BY <1>1, <2>1 DEF PassSet
  <2>3. ~Idle' /\ UNCHANGED live
    BY <1>6, <2>2 DEF Idle, ListRemote
  <2> QED BY <1>1, <1>2, <2>2, <2>3, ShownSame
<1> QED BY <1>3, <1>4, <1>5, <1>6 DEF Resume

\* What is found when the table is listed has no operation yet.
LEMMA ShownListLocal == ASSUME Core, Shown, ListLocal PROVE Shown'
<1>1. PICK list : list = [r \in RowIds |-> IF r \in InTable THEN rows[r] ELSE None]
  OBVIOUS
<1>2. PICK found : found = Discovered(live, pass.remote, list)
  OBVIOUS
<1>3. list \in ListedRows /\ At("listLocal")
  BY <1>1, TableListed DEF ListLocal
<1>4. CASE ColumnClash(live, list)
  <2>1. StopFlushed("failed", None) /\ "failed" \in Kinds
    BY <1>1, <1>4 DEF ListLocal, Kinds
  <2> QED BY <2>1, StoppedIs, ShownStopped
<1>5. CASE ~ColumnClash(live, list)
  <2>1. /\ checkpoint(found)
        /\ pass' = [pass EXCEPT !.pc = "plan", !.phase = "plan", !.local = list, !.todo = Known(found)]
    BY <1>1, <1>2, <1>5 DEF ListLocal
  <2>2. /\ pass.remote \in ListedIssues /\ live \in RecordMaps /\ RecordsOK(live) /\ pass.cur = None
        /\ pass.todo = {}
    BY <1>3 DEF Core, PassOK, TypeOK, At, Busy
  <2>3. /\ \A s \in Known(live) : Kept(found[s], live[s])
        /\ \A s \in Known(found) \ Known(live) : found[s].pending = None
        /\ found \in RecordMaps
    BY <1>2, <1>3, <1>5, <2>2, DiscoveredRecords
  <2>4. /\ pass'.pc = "plan" /\ pass'.phase = "plan" /\ pass'.cur = None /\ pass'.held = pass.held
        /\ pass'.todo = Known(found) /\ live' = found /\ snap' = found
    BY <2>1, <2>2, PassFields DEF PassSet, checkpoint
  <2>5. ASSUME NEW s \in Known(live)', live'[s].pending # None
        PROVE  ListedAs(s, live'[s], pass'.held)
    <3>1. s \in Known(live) /\ Kept(found[s], live[s]) /\ s # None
      BY <2>3, <2>4, <2>5, NoId DEF Known
    <3>2. live[s].pending # None /\ live[s].pending = found[s].pending /\ RecordOK(s, live[s])
      BY <2>2, <2>4, <2>5, <3>1 DEF Kept, RecordsOK
    <3>3. ListedAs(s, live[s], pass.held)
      BY <1>3, <2>2, <3>1, <3>2 DEF Shown, Idle, At
    <3>4. found[s].remote = live[s].remote
      BY <3>1, <3>2 DEF Kept, RecordOK
    <3> QED BY <2>4, <3>2, <3>3, <3>4 DEF ListedAs, IsHeld
  <2>6. Known(live)' \ ({pass'.cur} \cup pass'.todo) = {}
    BY <2>4 DEF Known
  <2>7. \A s \in Known(live)' : live'[s].pending = snap'[s].pending
    BY <2>4
  <2>8. ~Idle'
    BY <2>4 DEF Idle
  <2> QED BY <2>5, <2>6, <2>7, <2>8 DEF Shown, ListedAs, IsHeld
<1> QED BY <1>4, <1>5

LEMMA ShownPlan == ASSUME Core, Core', Shown, Plan PROVE Shown'
<1>1. PICK s \in Known(live) : Skip(s) \/ Missing(s) \/ Conflicting(s) \/ Acknowledge(s) \/ Operate(s)
  BY DEF Plan
<1>2. At("plan") /\ s \in pass.todo /\ ~Idle
  BY <1>1 DEF Skip, Missing, Conflicting, Acknowledge, Operate, Plannable, Planning, At, Idle
<1>3. /\ s \in Subjects /\ live[s] \in RecordSet /\ RecordOK(s, live[s]) /\ pass.cur = None
      /\ pass.phase = "plan" /\ pass \in PassSet
  BY <1>2, PlanFacts, PassFields
<1>4. CASE Missing(s) \/ Conflicting(s)
  <2>1. \E p \in {"missing-local", "missing", "conflict"} : StopFlushed(p, s)
    BY <1>4 DEF Missing, Conflicting
  <2>2. \A p \in {"missing-local", "missing", "conflict"} : p \in Kinds
    BY DEF Kinds
  <2> QED BY <1>3, <2>1, <2>2, StoppedIs, ShownStopped
<1>5. live[s].pending # None => ListedAs(s, live[s], pass.held)
  BY <1>2, <1>3, NoId DEF Shown, Resumed
<1>6. CASE Skip(s)
  <2>1. /\ pass'.todo = pass.todo \ {s} /\ pass'.cur = None /\ pass'.held = pass.held
        /\ pass'.phase = pass.phase /\ pass'.pc = "plan" /\ live' = live /\ snap' = snap
        /\ live[s].localOnly
    BY <1>2, <1>3, <1>6 DEF Skip, PassSet, session, At, HereOnly
  <2>2. \A t \in Known(live)' : live'[t].pending = snap'[t].pending
    BY <1>3, <2>1 DEF Shown, Known
  <2>3. ~Idle' /\ SettledAs(s, live'[s], pass'.held)
    BY <2>1 DEF Idle, SettledAs
  <2> QED BY <1>2, <1>3, <1>5, <2>1, <2>2, <2>3, ShownOn
<1>7. CASE Acknowledge(s)
  <2>1. /\ pass'.todo = pass.todo \ {s} /\ pass'.cur = None /\ pass'.held = pass.held
        /\ pass'.phase = pass.phase /\ pass'.pc = "plan"
    BY <1>2, <1>3, <1>7 DEF Acknowledge, PassSet, At
  <2>2. PICK q \in RecordSet :
              /\ checkpoint([live EXCEPT ![s] = q])
              /\ q.base # None /\ q.pending = live[s].pending /\ q.remote = live[s].remote
    BY <1>7, AcknowledgeWrites
  <2>3. /\ live' = snap' /\ live'[s] = q /\ \A t \in Subjects \ {s} : live'[t] = live[t]
    BY <1>3, <2>2 DEF checkpoint, Core, TypeOK, RecordMaps
  <2>4. \A t \in Known(live)' : live'[t].pending = snap'[t].pending
    BY <2>3
  <2>5. live'[s].pending # None => ListedAs(s, live'[s], pass'.held)
    BY <1>5, <2>1, <2>2, <2>3 DEF ListedAs, IsHeld
  <2>6. ~Idle' /\ SettledAs(s, live'[s], pass'.held)
    BY <2>1, <2>2, <2>3, <2>5 DEF Idle, SettledAs
  <2> QED BY <1>2, <1>3, <2>1, <2>3, <2>4, <2>5, <2>6, ShownOn
<1>8. CASE Operate(s)
  <2>1. /\ pass'.todo = pass.todo \ {s} /\ pass'.cur = s /\ pass'.held = pass.held
        /\ pass'.phase = pass.phase /\ pass'.pc = "check"
    BY <1>2, <1>3, <1>8 DEF Operate, PassSet, At
  <2>2. PICK q \in RecordSet : checkpoint([live EXCEPT ![s] = q])
    BY <1>8, OperateWrites
  <2>3. /\ live' = snap' /\ live'[s] = q /\ \A t \in Subjects \ {s} : live'[t] = live[t]
    BY <1>3, <2>2 DEF checkpoint, Core, TypeOK, RecordMaps
  <2>4. \A t \in Known(live)' : live'[t].pending = snap'[t].pending
    BY <2>3
  <2>5. ~Idle' /\ s \notin Known(live)' \ {pass'.cur}
    BY <2>1 DEF Idle
  <2> QED BY <1>2, <1>3, <2>1, <2>3, <2>4, <2>5, ShownOn
<1> QED BY <1>1, <1>4, <1>6, <1>7, <1>8

\* The result of a pass: nothing is left to do, and what is held is listed.
LEMMA ShownEndPass == ASSUME Core, Shown, EndPass PROVE Shown'
<1>1. PICK M \in {live, snap} : snap' = M
  BY DEF EndPass
<1>2. /\ At("plan") /\ pass.todo = {} /\ shown' = pass.held /\ pass' = NoPass /\ pass.phase = "plan"
      /\ pass.cur = None
  BY DEF EndPass, Core, PassOK, At, Busy
<1>3. ASSUME NEW s \in Known(snap') PROVE SettledAs(s, snap'[s], shown')
  <2>1. s \in Known(live) /\ s # None
    BY <1>1, NoId DEF Core, Mirrored, Known
  <2>2. SettledAs(s, live[s], pass.held)
    BY <1>2, <2>1 DEF Shown
  <2>3. live[s].pending = snap[s].pending /\ SameRecord(live[s], snap[s])
    BY <1>2, <2>1 DEF Shown, Core, Mirrored
  <2>4. SettledAs(s, snap[s], pass.held)
    BY <2>2, <2>3 DEF SettledAs, ListedAs, SameRecord, IsHeld
  <2> QED BY <1>1, <1>2, <2>2, <2>4
<1>4. pass'.pc = "idle" /\ pass'.phase = "resume"
  BY <1>2, NoPassOK
<1>5. \A s \in Known(snap)' : SettledAs(s, snap[s], shown)'
  BY <1>3 DEF Known, SettledAs, ListedAs, IsHeld
<1> QED BY <1>4, <1>5 DEF Shown, Idle

\* An operation under way: its record is the one of the pass.
LEMMA BusyPass ==
    ASSUME Core, pass.pc \in Busy
    PROVE  ~Idle /\ pass.cur # None /\ pass.cur \in Subjects /\ pass \in PassSet
           /\ pass.phase \in {"resume", "plan"}
BY PassFields DEF Core, PassOK, Busy, Idle, PassSet

LEMMA ShownMoves ==
    ASSUME Core, Shown, pass.pc \in Busy, pass'.pc \in Busy, Onward(pass, pass'), UNCHANGED <<live, snap>>
    PROVE  Shown'
<1>1. ~Idle /\ ~Idle' /\ pass.cur # None
  BY BusyPass DEF Idle, Busy
<1> QED BY <1>1, ShownSame DEF Onward

LEMMA ShownGoes ==
    ASSUME Core, Shown, pass.pc \in Busy, NEW pc \in Busy, Go(pc), UNCHANGED <<live, snap>>
    PROVE  Shown'
<1>1. pass'.pc = pc /\ Onward(pass, pass')
  BY BusyPass DEF Go, PassSet, Onward
<1> QED BY <1>1, ShownMoves

LEMMA ShownRequested ==
    ASSUME Core, Shown, NEW step \in Steps, NEW args, NEW current, Requested(step, args, current),
           pass.pc \in Busy
    PROVE  Shown'
<1>1. pass.cur \in Subjects /\ pass \in PassSet
  BY BusyPass
<1>2. \/ Stop("rejected", None)
      \/ \E p \in {"uncertain", "other"} : StopFlushed(p, pass.cur)
      \/ /\ UNCHANGED <<live, snap>>
         /\ \/ pass' = [pass EXCEPT !.pc = "flight", !.step = step, !.current = current]
            \/ \E i \in Nat \cup {None} :
                  pass' = [pass EXCEPT !.pc = "answered", !.step = step, !.current = current, !.id = i]
  BY <1>1, RequestedOutcomes DEF session
<1>3. "rejected" \in Kinds /\ "uncertain" \in Kinds /\ "other" \in Kinds
  BY DEF Kinds
<1>4. CASE Stop("rejected", None) \/ \E p \in {"uncertain", "other"} : StopFlushed(p, pass.cur)
  BY <1>3, <1>4, StoppedIs, ShownStopped
<1>5. CASE /\ UNCHANGED <<live, snap>>
           /\ pass' = [pass EXCEPT !.pc = "flight", !.step = step, !.current = current]
  <2>1. pass'.pc \in Busy /\ Onward(pass, pass')
    BY <1>1, <1>5 DEF PassSet, Onward, Busy
  <2> QED BY <1>5, <2>1, ShownMoves
<1>6. CASE /\ UNCHANGED <<live, snap>>
           /\ \E i \in Nat \cup {None} :
                pass' = [pass EXCEPT !.pc = "answered", !.step = step, !.current = current, !.id = i]
  <2>1. pass'.pc \in Busy /\ Onward(pass, pass')
    BY <1>1, <1>6 DEF PassSet, Onward, Busy
  <2> QED BY <1>6, <2>1, ShownMoves
<1> QED BY <1>2, <1>4, <1>5, <1>6

LEMMA ShownCheck == ASSUME Core, Shown, Check PROVE Shown'
<1>1. pass.pc \in Busy /\ "remote" \in Busy /\ "failed" \in Kinds /\ "saved-operation" \in Kinds
  BY DEF Check, At, Busy, Kinds
<1>2. \/ StopFlushed("failed", None) \/ StopFlushed("saved-operation", pass.cur)
      \/ Go("remote") /\ UNCHANGED <<live, snap>>
  BY DEF Check, session
<1> QED BY <1>1, <1>2, StoppedIs, ShownStopped, ShownGoes

\* reviewGate(): what is held is listed.
LEMMA ShownHold == ASSUME Core, Core', Shown, At("remote"), Hold PROVE Shown'
<1>1. PICK q \in RecordSet :
              /\ checkpoint([live EXCEPT ![pass.cur] = q]) /\ IsHeld(q)
              /\ q.pending.desired = Op.desired /\ q.remote = Cur.remote
              /\ pass' = [pass EXCEPT !.pc = pass.phase, !.cur = None,
                                      !.held = Others(@) \cup {[subject |-> pass.cur,
                                                        key |-> Key(Cur.remote, Op.desired),
                                                        unconfirmed |-> q.unconfirmed]}]
  BY HoldWrites
<1>2. pass.pc \in Busy
  BY DEF At, Busy
<1>3. ~Idle /\ pass.cur # None /\ pass.cur \in Subjects /\ pass \in PassSet
      /\ pass.phase \in {"resume", "plan"} /\ live \in RecordMaps
  BY <1>2, BusyPass DEF Core, TypeOK
<1>4. PICK h : h = [subject |-> pass.cur, key |-> Key(Cur.remote, Op.desired),
                    unconfirmed |-> q.unconfirmed]
  OBVIOUS
<1>5. /\ pass'.pc = pass.phase /\ pass'.phase = pass.phase /\ pass'.cur = None
      /\ pass'.todo = pass.todo /\ pass'.held = Others(pass.held) \cup {h}
  BY <1>1, <1>3, <1>4 DEF PassSet
<1>6. /\ live' = snap' /\ live'[pass.cur] = q /\ \A t \in Subjects \ {pass.cur} : live'[t] = live[t]
  BY <1>1, <1>3 DEF checkpoint, RecordMaps
<1>7. ListedAs(pass.cur, live'[pass.cur], pass'.held)
  BY <1>1, <1>4, <1>5, <1>6 DEF ListedAs
<1>8. SettledAs(pass.cur, live'[pass.cur], pass'.held) /\ ~Idle'
  BY <1>3, <1>5, <1>7 DEF SettledAs, Idle
<1>9. {g \in pass.held : g.subject # pass.cur} \subseteq pass'.held
  BY <1>5 DEF Others
<1> QED BY <1>3, <1>5, <1>6, <1>7, <1>8, <1>9, ShownPut

LEMMA ShownPublishRemote == ASSUME Core, Core', Shown, PublishRemote PROVE Shown'
<1>1. /\ At("remote") /\ pass.pc \in Busy /\ "local" \in Busy /\ "failed" \in Kinds
      /\ "create" \in Steps /\ "fields" \in Steps
  BY DEF PublishRemote, At, Busy, Kinds, Steps
<1>2. \/ StopFlushed("failed", None) \/ Hold
      \/ Go("local") /\ UNCHANGED <<live, snap>>
      \/ Requested("create", Op.desired.title, None)
      \/ Requested("fields", PatchArgs(Op.desired), RemoteValue.status)
  BY DEF PublishRemote, session
<1> QED BY <1>1, <1>2, StoppedIs, ShownStopped, ShownGoes, ShownHold, ShownRequested

LEMMA ShownFlight ==
    ASSUME Core, Shown, Delivered \/ ReceiptRefused \/ AnswerLost \/ NotSent \/ Refused
    PROVE  Shown'
<1>1. CASE Delivered
  <2>1. pass.pc \in Busy /\ UNCHANGED <<live, snap>>
    BY <1>1 DEF Delivered, Answer, At, Busy
  <2>2. \E i : pass' = [pass EXCEPT !.pc = "answered", !.id = i]
    BY <1>1 DEF Delivered
  <2>3. pass'.pc \in Busy /\ Onward(pass, pass')
    BY <2>1, <2>2, BusyPass DEF PassSet, Onward, Busy
  <2> QED BY <2>1, <2>3, ShownMoves
<1>2. CASE ReceiptRefused \/ AnswerLost \/ NotSent \/ Refused
  <2>1. \E p \in {"rejected", "uncertain", "reconnect", "other", "failed"} :
           Stop(p, None) \/ StopFlushed(p, None)
    BY <1>2 DEF ReceiptRefused, AnswerLost, NotSent, Refused
  <2>2. \A p \in {"rejected", "uncertain", "reconnect", "other", "failed"} : p \in Kinds
    BY DEF Kinds
  <2> QED BY <2>1, <2>2, StoppedIs, ShownStopped
<1> QED BY <1>1, <1>2

\* The operation goes on with its record bound, its value and its issue kept.
LEMMA ShownBound ==
    ASSUME Core, Core', Shown, pass.pc \in Busy, NEW pc \in Busy, Go(pc), NEW q \in RecordSet,
           checkpoint(Put(live, pass.cur, q)), \A t \in Subjects \ {pass.cur} : live'[t] = live[t]
    PROVE  Shown'
<1>1. ~Idle /\ pass.cur # None /\ pass \in PassSet
  BY BusyPass
<1>2. /\ pass'.pc = pc /\ pass'.cur = pass.cur /\ pass'.phase = pass.phase /\ pass'.held = pass.held
      /\ pass'.todo = pass.todo
  BY <1>1 DEF Go, PassSet
<1>3. live' = snap' /\ ~Idle'
  BY <1>2 DEF checkpoint, Idle, Busy
<1> QED BY <1>1, <1>2, <1>3, ShownPut

LEMMA ShownPublished == ASSUME Core, Core', Shown, Published PROVE Shown'
<1>1. /\ At("answered") /\ pass.pc \in Busy /\ "local" \in Busy /\ "failed" \in Kinds
      /\ "initial-fields" \in Steps /\ "label" \in Steps /\ "initial-label" \in Steps
  BY DEF Published, At, Busy, Kinds, Steps
<1>2. \/ StopFlushed("failed", None)
      \/ \E step \in {"initial-fields", "label", "initial-label"} : \E args, current :
            Requested(step, args, current)
      \/ checkpoint([live EXCEPT ![pass.cur].remote = Target]) /\ Go("local")
  BY DEF Published
<1>3. CASE checkpoint([live EXCEPT ![pass.cur].remote = Target]) /\ Go("local")
  <2>1. PICK q \in RecordSet : /\ checkpoint(Put(live, pass.cur, q))
                               /\ \A t \in Subjects \ {pass.cur} : live'[t] = live[t]
    BY <1>1, <1>3, PublishedWrites
  <2> QED BY <1>1, <1>3, <2>1, ShownBound
<1> QED BY <1>1, <1>2, <1>3, StoppedIs, ShownStopped, ShownRequested

LEMMA ShownLocal ==
    ASSUME Core, Core', Shown, PublishLocal \/ CreateLocal \/ BindLocal
    PROVE  Shown'
<1>1. pass.pc \in Busy /\ "verify" \in Busy /\ "bind" \in Busy
  BY DEF PublishLocal, CreateLocal, BindLocal, At, Busy
<1>2. "failed" \in Kinds /\ "rejected" \in Kinds /\ "other" \in Kinds
  BY DEF Kinds
<1>3. CASE PublishLocal
  <2>1. \/ StopFlushed("failed", None) \/ StopFlushed("rejected", None)
        \/ checkpoint(live) /\ Go("verify")
    BY <1>3 DEF PublishLocal, Refuse
  <2>2. CASE checkpoint(live) /\ Go("verify")
    <3>1. /\ live' = live /\ snap' = live /\ ~Idle /\ pass.cur # None /\ pass \in PassSet
      BY <1>1, <2>2, BusyPass DEF checkpoint
    <3>2. /\ pass'.pc = "verify" /\ pass'.cur = pass.cur /\ pass'.phase = pass.phase
          /\ pass'.held = pass.held /\ pass'.todo = pass.todo
      BY <2>2, <3>1 DEF Go, PassSet
    <3>3. ~Idle'
      BY <3>2 DEF Idle
    <3> QED BY <3>1, <3>2, <3>3, ShownPut
  <2> QED BY <1>2, <2>1, <2>2, StoppedIs, ShownStopped
<1>4. CASE CreateLocal
  <2>1. \/ StopFlushed("rejected", None) \/ StopFlushed("other", pass.cur)
        \/ UNCHANGED <<live, snap>> /\ \E r : pass' = [pass EXCEPT !.pc = "bind", !.id = r]
    BY <1>4 DEF CreateLocal, Refuse, session
  <2>2. CASE UNCHANGED <<live, snap>> /\ \E r : pass' = [pass EXCEPT !.pc = "bind", !.id = r]
    <3>1. pass'.pc \in Busy /\ Onward(pass, pass')
      BY <1>1, <2>2, BusyPass DEF PassSet, Onward, Busy
    <3> QED BY <1>1, <2>2, <3>1, ShownMoves
  <2> QED BY <1>2, <2>1, <2>2, StoppedIs, ShownStopped
<1>5. CASE BindLocal
  <2>1. \/ StopFlushed("failed", None)
        \/ checkpoint([live EXCEPT ![pass.cur].local = pass.id]) /\ Go("verify")
    BY <1>5 DEF BindLocal
  <2>2. CASE checkpoint([live EXCEPT ![pass.cur].local = pass.id]) /\ Go("verify")
    <3>1. At("bind")
      BY <1>5 DEF BindLocal
    <3>2. PICK q \in RecordSet : /\ checkpoint(Put(live, pass.cur, q))
                                 /\ \A t \in Subjects \ {pass.cur} : live'[t] = live[t]
      BY <2>2, <3>1, BindWrites
    <3> QED BY <1>1, <2>2, <3>2, ShownBound
  <2> QED BY <1>2, <2>1, <2>2, StoppedIs, ShownStopped
<1> QED BY <1>3, <1>4, <1>5

LEMMA ShownVerify == ASSUME Core, Core', Shown, Verify PROVE Shown'
<1>1. At("verify") /\ pass.pc \in Busy /\ pass.pc = "verify" /\ "concurrent-edit" \in Kinds
  BY DEF Verify, At, Busy, Kinds
<1>2. CASE ~Verified
  <2>1. StopFlushed("concurrent-edit", pass.cur)
    BY <1>2 DEF Verify
  <2> QED BY <1>1, <2>1, StoppedIs, ShownStopped
<1>3. CASE Verified
  <2>1. NextRecord
    BY <1>3 DEF Verify
  <2>2. PICK d, q \in RecordSet :
              /\ snap' = Put(live, pass.cur, d) /\ live' = Put(live, pass.cur, q)
              /\ d.pending = None /\ q.pending = None /\ q.base = Op.desired
              /\ RecordOK(pass.cur, d) /\ RecordOK(pass.cur, q)
    BY <1>1, <1>3, VerifyWrites
  <2>3. ~Idle /\ pass.cur # None /\ pass.cur \in Subjects /\ Op.desired \in Values
    BY <1>1, BusyPass, LocalFacts
  <2>4. /\ snap'[pass.cur] = d /\ \A t \in Subjects \ {pass.cur} : snap'[t] = live[t]
    BY <2>2, <2>3, CurReplaced
  <2>5. /\ live'[pass.cur] = q /\ \A t \in Subjects \ {pass.cur} : live'[t] = live[t]
    BY <2>2, <2>3, CurReplaced
  <2>6. \A s \in Known(live)' : live'[s].pending = snap'[s].pending
    BY <2>2, <2>4, <2>5 DEF Known
  <2>7. /\ pass'.pc \in {"resume", "plan"} /\ pass'.cur = None /\ pass'.phase = pass.phase
        /\ pass'.todo = pass.todo /\ {h \in pass.held : h.subject # pass.cur} \subseteq pass'.held
    BY <2>1, NextRecordIs DEF Others
  <2>8. q.base # None
    BY <2>2, <2>3, ModelValuesAssumption
  <2>9. SettledAs(pass.cur, live'[pass.cur], pass'.held) /\ ~Idle'
    BY <2>2, <2>5, <2>7, <2>8 DEF SettledAs, Idle
  <2> QED BY <2>2, <2>3, <2>5, <2>6, <2>7, <2>9, ShownPut
<1> QED BY <1>2, <1>3

LEMMA ShownPassFails == ASSUME Core, PassFails PROVE Shown'
<1>1. \E p \in {"failed", "reconnect"} : Stop(p, None)
  BY DEF PassFails
<1>2. "failed" \in Kinds /\ "reconnect" \in Kinds
  BY DEF Kinds
<1> QED BY <1>1, <1>2, StoppedIs, ShownStopped

LEMMA ShownRuns ==
    ASSUME Core, Core', Sync \/ Send \/ Resolve \/ KeepHereOnly \/ RemoveFromBoard
    PROVE  Shown'
<1>1. \/ \E approved : RunPass(snap', approved)
      \/ StopFlushed("failed", None) \/ Stop("rejected", None)
  BY DEF Sync, Send, Resolve, KeepHereOnly, RemoveFromBoard, SettleMissing, session
<1>2. "failed" \in Kinds /\ "rejected" \in Kinds
  BY DEF Kinds
<1> QED BY <1>1, <1>2, ShownBegun, StoppedIs, ShownStopped

LEMMA ShownAround ==
    ASSUME Core, Shown,
           \/ UNCHANGED vars \/ Edit \/ Create \/ Load \/ Connect \/ Disconnect
           \/ HostEdit \/ GitHubEdit \/ Reload
    PROVE  Shown'
<1>1. CASE Reload
  <2>1. shown' = None /\ pass'.pc = "idle" /\ pass'.phase = "resume"
    BY <1>1, NoPassOK DEF Reload
  <2> QED BY <2>1 DEF Shown, Idle
<1>2. CASE \/ UNCHANGED vars \/ Edit \/ Create \/ Load \/ Connect \/ Disconnect
           \/ HostEdit \/ GitHubEdit
  <2>1. UNCHANGED <<snap, pass, live>> /\ (shown' = None \/ UNCHANGED <<problem, shown>>)
    BY <1>2 DEF vars, Edit, Create, Load, Connect, Disconnect, HostEdit, GitHubEdit, session, view
  <2> QED BY <2>1 DEF Shown, Idle, Resumed, Known, ListedAs, SettledAs, IsHeld
<1> QED BY <1>1, <1>2

LEMMA NextShown == ASSUME Core, Core', Shown, [Next]_vars PROVE Shown'
<1>1. CASE PassStep
  BY <1>1, ShownListing, ShownListLocal, ShownPlan, ShownEndPass, ShownCheck, ShownPublishRemote,
     ShownFlight, ShownPublished, ShownLocal, ShownVerify, ShownPassFails DEF PassStep
<1>2. CASE Person \/ World \/ UNCHANGED vars
  BY <1>2, ShownRuns, ShownAround DEF Person, World
<1> QED BY <1>1, <1>2 DEF Next

LEMMA InitShown == ASSUME Init PROVE Shown
<1>1. shown = None /\ pass = NoPass
  BY DEF Init
<1> QED BY <1>1, NoPassOK DEF Shown, Idle

\* What a pass is done with is held and listed, or carries no operation, at every
\* step of the pass and when it reports its result.
THEOREM ShownInvariant == Spec => []Shown
<1>1. Init => Shown
  BY InitShown
<1>2. Core /\ Core' /\ Shown /\ [Next]_vars => Shown'
  BY NextShown
<1> QED BY <1>1, <1>2, CoreInvariant, PTL DEF Spec

\* After a pass that reports no problem (runPass(), sync.ts) every record is kept
\* here only, held with exactly its value in the review, or agreed.
THEOREM SettledAfterPass == Spec => []SettledOrShown
<1>1. Shown => SettledOrShown
  BY DEF Shown, SettledOrShown, SettledAs, ListedAs, IsHeld
<1> QED BY <1>1, ShownInvariant, PTL

-----------------------------------------------------------------------------
(* No issue is imported into two rows.                                      *)

\* The same records are bound to the same rows and issues.
SameLinks(M, N) ==
    /\ Known(N) = Known(M)
    /\ \A s \in Known(M) : /\ N[s].local = M[s].local /\ N[s].remote = M[s].remote
                           /\ N[s].localOnly => M[s].localOnly
\* No row is numbered or made for a record that was not so before.
Fewer(t, x, u, y) ==
    /\ \A r \in Numbered(u, y) : r \in Numbered(t, x) /\ u[r].number = t[r].number
                                 /\ u[r].localId = t[r].localId
    /\ \A r \in RowsOf(u) : u[r].localId # None => r \in RowsOf(t) /\ u[r].localId = t[r].localId

LEMMA FewerSame == ASSUME NEW t, NEW x PROVE Fewer(t, x, t, x)
BY DEF Fewer

LEMMA FewerLinked ==
    ASSUME NEW t, NEW x, NEW u, NEW y, Fewer(t, x, u, y), NEW M, NEW N, SameLinks(M, N)
    PROVE  /\ OneRecord(M) => OneRecord(N)
           /\ Linked(M, t, x) => Linked(N, u, y)
           /\ OneCreated(t) => OneCreated(u)
           /\ \A new : Settles(M, t, x, new) => Settles(N, u, y, new)
<1>1. OneRecord(M) => OneRecord(N)
  BY DEF SameLinks, OneRecord
<1>2. ASSUME Linked(M, t, x) PROVE Linked(N, u, y)
  <2>1. ASSUME NEW r \in Numbered(u, y) PROVE \E s \in Known(N) : Owns(s, N[s], r, u[r])
    <3>1. r \in Numbered(t, x) /\ u[r].number = t[r].number /\ u[r].localId = t[r].localId
      BY <2>1 DEF Fewer
    <3>2. PICK s \in Known(M) : Owns(s, M[s], r, t[r])
      BY <1>2, <3>1 DEF Linked
    <3>3. s \in Known(N) /\ Owns(s, N[s], r, u[r])
      BY <3>1, <3>2 DEF Owns, SameLinks
    <3> QED BY <3>3
  <2> QED BY <2>1 DEF Linked
<1>3. OneCreated(t) => OneCreated(u)
  BY DEF OneCreated, Fewer
<1>4. \A new : Settles(M, t, x, new) => Settles(N, u, y, new)
  BY DEF Settles, SameLinks, Fewer
<1> QED BY <1>1, <1>2, <1>3, <1>4

LEMMA LinksSame == ASSUME NEW M PROVE SameLinks(M, M)
BY DEF SameLinks

\* The records of the pass are bound as those of the last checkpoint.
LEMMA LiveLinks == ASSUME Core PROVE SameLinks(snap, live) /\ SameLinks(live, snap)
<1>1. Known(live) = Known(snap)
  BY DEF Core, Mirrored, Known
<1> QED BY <1>1 DEF Core, Mirrored, SameRecord, SameLinks

LEMMA NextLiveLinks == ASSUME Core' PROVE SameLinks(snap', live') /\ SameLinks(live', snap')
<1>1. Known(live') = Known(snap')
  BY DEF Core, Mirrored, Known
<1> QED BY <1>1 DEF Core, Mirrored, SameRecord, SameLinks, Known

LEMMA LinksThrough ==
    ASSUME NEW M, NEW N, NEW O, SameLinks(M, N), SameLinks(N, O)
    PROVE  SameLinks(M, O)
BY DEF SameLinks

\* The records as they are saved, or unchanged.
LEMMA BoundMaps ==
    ASSUME Bound, Fewer(rows, strays, rows', strays'), SameLinks(snap, snap') \/ snap' = disk.records,
           disk'.records \in {disk.records, snap'}
    PROVE  /\ OneRecord(snap') /\ OneRecord(disk'.records) /\ OneCreated(rows')
           /\ Linked(snap', rows', strays') /\ Linked(disk'.records, rows', strays')
<1>1. /\ OneRecord(snap) /\ OneRecord(disk.records) /\ OneCreated(rows)
      /\ Linked(snap, rows, strays) /\ Linked(disk.records, rows, strays)
  BY DEF Bound
<1>2. OneRecord(disk.records) /\ Linked(disk.records, rows', strays') /\ OneCreated(rows')
  BY <1>1, LinksSame, FewerLinked
<1>3. OneRecord(snap') /\ Linked(snap', rows', strays')
  BY <1>1, <1>2, FewerLinked
<1> QED BY <1>2, <1>3

\* Steps that bind nothing new.
Passing ==
    \/ pass' = pass /\ SameLinks(snap, snap')
    \/ pass'.phase = "resume" /\ pass'.pc # "bind"
    \/ /\ pass'.phase = pass.phase /\ pass.pc # "bind" /\ pass'.pc # "bind" /\ SameLinks(snap, snap')
MissingKept ==
    Idle' /\ problem' # None /\ problem'.kind = "missing" => Idle /\ problem' = problem /\ snap' = snap
Steady ==
    /\ Fewer(rows, strays, rows', strays') /\ (SameLinks(snap, snap') \/ snap' = disk.records)
    /\ disk'.records \in {disk.records, snap'} /\ Passing /\ MissingKept

\* Bound, of the next state.
LEMMA BoundNext ==
    ASSUME OneRecord(snap'), OneRecord(disk'.records), OneCreated(rows'),
           Linked(snap', rows', strays'), Linked(disk'.records, rows', strays'),
           pass'.phase = "plan" =>
              Settles(live', rows', strays', IF pass'.pc = "bind" THEN {pass'.cur} ELSE {}),
           pass'.pc = "bind" => \A r \in RowsOf(rows') : rows'[r].localId = pass'.cur => r = pass'.id,
           MissingSettles'
    PROVE  Bound'
<1>1. /\ OneRecord(snap)' /\ OneRecord(disk.records)' /\ OneCreated(rows)'
      /\ Linked(snap, rows, strays)' /\ Linked(disk.records, rows, strays)'
  BY DEF OneRecord, OneCreated, Linked, Owns, Known, Numbered, RowsOf
<1>2. PlanSettles'
  BY DEF PlanSettles, Settles, At, Known, Numbered, RowsOf
<1>3. Created'
  BY DEF Created, At, RowsOf
<1> QED BY <1>1, <1>2, <1>3 DEF Bound

LEMMA MissingStill ==
    ASSUME Bound, Fewer(rows, strays, rows', strays'), MissingKept
    PROVE  MissingSettles'
<1>1. SUFFICES ASSUME Idle', problem' # None, problem'.kind = "missing",
                      NEW r \in Numbered(rows', strays'),
                      rows'[r].number = snap'[problem'.subject].remote
               PROVE  snap'[problem'.subject].local = r
  BY DEF MissingSettles, Numbered, RowsOf
<1>2. Idle /\ problem' = problem /\ snap' = snap
  BY <1>1 DEF MissingKept
<1>3. r \in Numbered(rows, strays) /\ rows'[r].number = rows[r].number
  BY <1>1 DEF Fewer
<1> QED BY <1>1, <1>2, <1>3 DEF Bound, MissingSettles

LEMMA SteadyBound == ASSUME Core, Core', Bound, Steady PROVE Bound'
<1>1. /\ Fewer(rows, strays, rows', strays') /\ (SameLinks(snap, snap') \/ snap' = disk.records)
      /\ disk'.records \in {disk.records, snap'} /\ Passing /\ MissingKept
  BY DEF Steady
<1>2. /\ OneRecord(snap') /\ OneRecord(disk'.records) /\ OneCreated(rows')
      /\ Linked(snap', rows', strays') /\ Linked(disk'.records, rows', strays')
  BY <1>1, BoundMaps
<1>3. MissingSettles'
  BY <1>1, MissingStill
<1>4. ASSUME pass'.phase = "plan"
      PROVE  Settles(live', rows', strays', IF pass'.pc = "bind" THEN {pass'.cur} ELSE {})
  <2>1. /\ SameLinks(snap, snap') /\ pass.phase = "plan"
        /\ pass' = pass \/ (pass.pc # "bind" /\ pass'.pc # "bind")
    BY <1>1, <1>4 DEF Passing
  <2>2. SameLinks(live, snap) /\ SameLinks(snap', live')
    BY LiveLinks, NextLiveLinks
  <2>3. SameLinks(live, live')
    BY <2>1, <2>2, LinksThrough
  <2>4. Settles(live, rows, strays, IF pass.pc = "bind" THEN {pass.cur} ELSE {})
    BY <2>1 DEF Bound, PlanSettles, At
  <2>5. Settles(live', rows', strays', IF pass.pc = "bind" THEN {pass.cur} ELSE {})
    BY <1>1, <2>3, <2>4, FewerLinked
  <2> QED BY <2>1, <2>5
<1>5. ASSUME pass'.pc = "bind", NEW r \in RowsOf(rows'), rows'[r].localId = pass'.cur
      PROVE  r = pass'.id
  <2>1. pass' = pass
    BY <1>1, <1>5 DEF Passing
  <2>2. pass.cur # None
    BY <1>5, <2>1 DEF Core, PassOK, Busy
  <2>3. r \in RowsOf(rows) /\ rows[r].localId = pass.cur
    BY <1>1, <1>5, <2>1, <2>2 DEF Fewer
  <2> QED BY <1>5, <2>1, <2>3 DEF Bound, Created, At
<1> QED BY <1>2, <1>3, <1>4, <1>5, BoundNext

LEMMA StopsSteady ==
    ASSUME Core, NEW p, NEW about, p # "missing", Stop(p, about), UNCHANGED <<snap, rows, strays>>,
           disk'.records \in {disk.records, snap}
    PROVE  Steady
<1>1. problem'.kind = p /\ pass'.pc = "idle" /\ pass'.phase = "resume"
  BY NoPassOK DEF Stop
<1> QED BY <1>1, FewerSame, LinksSame DEF Steady, Passing, MissingKept

LEMMA StopsFlushedSteady ==
    ASSUME Core, NEW p, NEW about, p # "missing", StopFlushed(p, about), UNCHANGED <<rows, strays>>
    PROVE  Steady
<1>1. Stop(p, about) /\ UNCHANGED snap /\ disk'.records = snap
  BY DEF StopFlushed, flush
<1> QED BY <1>1, StopsSteady

\* The pass goes on.
LEMMA MovesSteady ==
    ASSUME Core, pass'.pc # "idle", pass'.phase = pass.phase, pass.pc # "bind", pass'.pc # "bind",
           UNCHANGED <<rows, strays>>, SameLinks(snap, snap'), disk'.records \in {disk.records, snap'}
    PROVE  Steady
BY FewerSame DEF Steady, Passing, MissingKept, Idle

LEMMA BeginsSteady ==
    ASSUME Core, NEW M, NEW approved, RunPass(M, approved), UNCHANGED <<rows, strays>>,
           SameLinks(snap, snap'), disk'.records \in {disk.records, snap'}
    PROVE  Steady
<1>1. pass'.pc = "resume" /\ pass'.phase = "resume"
  BY DEF RunPass, NoPass
<1> QED BY <1>1, FewerSame DEF Steady, Passing, MissingKept, Idle

\* One record replaced, bound as it was.
LEMMA PutLinks ==
    ASSUME Core, NEW c \in Known(live), NEW q \in RecordSet, NEW N, N[c] = q,
           \A t \in Subjects \ {c} : N[t] = live[t],
           q.local = live[c].local, q.remote = live[c].remote, q.localOnly => live[c].localOnly
    PROVE  SameLinks(snap, N)
<1>1. q # None /\ c \in Subjects
  BY KnownRecord, ModelValuesAssumption DEF Known
<1>2. Known(N) = Known(live)
  BY <1>1 DEF Known
<1>3. \A s \in Known(live) : s \in Subjects
  BY DEF Known
<1>4. SameLinks(live, N)
  BY <1>2, <1>3 DEF SameLinks
<1> QED BY <1>4, LiveLinks, LinksThrough

LEMMA CheckpointLinks ==
    ASSUME NEW M, checkpoint(M)
    PROVE  snap' = M /\ live' = M /\ disk'.records \in {disk.records, snap'}
BY DEF checkpoint, flush

LEMMA ListingSteady == ASSUME Core, Resume \/ ListRemote PROVE Steady
<1>1. /\ UNCHANGED <<snap, disk, rows, strays>> /\ pass.pc \in {"resume", "listRemote"}
      /\ pass \in PassSet
  BY PassFields DEF Resume, ListRemote, session, sides, ghosts, At
<1>2. pass'.pc \in {"resume", "listRemote", "check", "listLocal"} /\ pass'.phase = pass.phase
  <2>1. CASE Resume
    <3>1. \/ pass' = [pass EXCEPT !.pc = "listRemote"]
          \/ \E s : pass' = [pass EXCEPT !.todo = @ \ {s}] /\ pass.pc = "resume"
          \/ \E s : pass' = [pass EXCEPT !.todo = @ \ {s}, !.cur = s, !.pc = "check"]
      BY <2>1 DEF Resume, Go, At
    <3> QED BY <1>1, <3>1 DEF PassSet
  <2>2. CASE ListRemote
    <3>1. PICK l : pass' = [pass EXCEPT !.pc = "listLocal", !.remote = l]
      BY <2>2 DEF ListRemote
    <3> QED BY <1>1, <3>1 DEF PassSet
  <2> QED BY <2>1, <2>2
<1> QED BY <1>1, <1>2, LinksSame, MovesSteady

LEMMA PlanSteady ==
    ASSUME Core, NEW s \in Known(live), Skip(s) \/ Conflicting(s) \/ Acknowledge(s) \/ Operate(s)
    PROVE  Steady
<1>1. At("plan") /\ pass.pc = "plan" /\ UNCHANGED <<rows, strays>> /\ pass \in PassSet
  BY PassFields DEF Skip, Conflicting, Acknowledge, Operate, Plannable, Planning, At, sides, ghosts
<1>2. s \in Subjects /\ live \in RecordMaps
  BY DEF Core, TypeOK, Known
<1>3. CASE Conflicting(s)
  <2>1. StopFlushed("conflict", s) /\ "conflict" # "missing"
    BY <1>3 DEF Conflicting
  <2> QED BY <1>1, <2>1, StopsFlushedSteady
<1>4. CASE Skip(s)
  <2>1. pass'.pc = "plan" /\ pass'.phase = pass.phase /\ UNCHANGED <<snap, disk>>
    BY <1>1, <1>4 DEF Skip, PassSet, session
  <2> QED BY <1>1, <2>1, LinksSame, MovesSteady
<1>5. CASE Acknowledge(s)
  <2>1. pass'.pc = "plan" /\ pass'.phase = pass.phase
    BY <1>1, <1>5 DEF Acknowledge, PassSet
  <2>2. PICK q \in RecordSet :
              /\ checkpoint([live EXCEPT ![s] = q])
              /\ q.local = live[s].local /\ q.remote = live[s].remote /\ q.localOnly = live[s].localOnly
    BY <1>5, AcknowledgeWrites
  <2>3. /\ snap'[s] = q /\ \A t \in Subjects \ {s} : snap'[t] = live[t]
        /\ disk'.records \in {disk.records, snap'}
    <3>1. PICK M : M = [live EXCEPT ![s] = q]
      OBVIOUS
    <3>2. M[s] = q /\ \A t \in Subjects \ {s} : M[t] = live[t]
      BY <1>2, <3>1 DEF RecordMaps
    <3>3. snap' = M /\ disk'.records \in {disk.records, snap'}
      BY <2>2, <3>1, CheckpointLinks
    <3> QED BY <3>2, <3>3
  <2>4. SameLinks(snap, snap')
    BY <2>2, <2>3, PutLinks
  <2> QED BY <1>1, <2>1, <2>3, <2>4, MovesSteady
<1>6. CASE Operate(s)
  <2>1. pass'.pc = "check" /\ pass'.phase = pass.phase
    BY <1>1, <1>6 DEF Operate, PassSet
  <2>2. PICK q \in RecordSet :
              /\ checkpoint([live EXCEPT ![s] = q])
              /\ q.local = live[s].local /\ q.remote = live[s].remote /\ ~q.localOnly
    BY <1>6, OperateWrites
  <2>3. /\ snap'[s] = q /\ \A t \in Subjects \ {s} : snap'[t] = live[t]
        /\ disk'.records \in {disk.records, snap'}
    <3>1. PICK M : M = [live EXCEPT ![s] = q]
      OBVIOUS
    <3>2. M[s] = q /\ \A t \in Subjects \ {s} : M[t] = live[t]
      BY <1>2, <3>1 DEF RecordMaps
    <3>3. snap' = M /\ disk'.records \in {disk.records, snap'}
      BY <2>2, <3>1, CheckpointLinks
    <3> QED BY <3>2, <3>3
  <2>4. SameLinks(snap, snap')
    BY <2>2, <2>3, PutLinks
  <2> QED BY <1>1, <2>1, <2>3, <2>4, MovesSteady
<1> QED BY <1>3, <1>4, <1>5, <1>6

LEMMA EndPassSteady == ASSUME Core, EndPass PROVE Steady
<1>1. PICK M \in {live, snap} : snap' = M /\ flush(M, journal)
  BY DEF EndPass
<1>2. problem' = None /\ pass' = NoPass /\ UNCHANGED <<rows, strays>>
  BY DEF EndPass, sides, ghosts
<1>3. SameLinks(snap, snap') /\ disk'.records = snap'
  BY <1>1, LiveLinks, LinksSame DEF flush
<1>4. pass'.pc # "bind" /\ pass'.phase = "resume"
  BY <1>2, NoPassOK
<1> QED BY <1>2, <1>3, <1>4, FewerSame DEF Steady, Passing, MissingKept

LEMMA CheckSteady == ASSUME Core, Check PROVE Steady
<1>1. UNCHANGED <<rows, strays>> /\ pass.pc = "check" /\ pass \in PassSet
  BY PassFields DEF Check, sides, At
<1>2. \/ StopFlushed("failed", None) \/ StopFlushed("saved-operation", pass.cur)
      \/ Go("remote") /\ UNCHANGED <<snap, disk>>
  BY DEF Check, session
<1>3. CASE Go("remote") /\ UNCHANGED <<snap, disk>>
  <2>1. pass'.pc = "remote" /\ pass'.phase = pass.phase
    BY <1>1, <1>3 DEF Go, PassSet
  <2> QED BY <1>1, <1>3, <2>1, LinksSame, MovesSteady
<1>4. "failed" # "missing" /\ "saved-operation" # "missing"
  OBVIOUS
<1> QED BY <1>1, <1>2, <1>3, <1>4, StopsFlushedSteady

LEMMA RequestedSteady ==
    ASSUME Core, NEW step \in Steps, NEW args, NEW current, Requested(step, args, current),
           pass.pc \in {"remote", "answered"}, UNCHANGED <<rows, strays>>
    PROVE  Steady
<1>1. pass.pc \in Busy
  BY DEF Busy
<1>2. pass.cur \in Subjects /\ pass \in PassSet
  BY <1>1, BusyPass
<1>3. \/ Stop("rejected", None) /\ UNCHANGED snap /\ disk'.records \in {disk.records, snap}
      \/ \E p \in {"uncertain", "other"} : StopFlushed(p, pass.cur)
      \/ /\ UNCHANGED snap /\ disk'.records \in {disk.records, snap}
         /\ \/ pass' = [pass EXCEPT !.pc = "flight", !.step = step, !.current = current]
            \/ \E i \in Nat \cup {None} :
                  pass' = [pass EXCEPT !.pc = "answered", !.step = step, !.current = current, !.id = i]
  <2>1. \A J : flush(snap, J) => disk'.records = snap
    BY DEF flush
  <2>2. \A J : flush(snap, J) => disk'.records \in {disk.records, snap}
    BY <2>1
  <2> QED BY <1>2, <2>2, RequestedOutcomes DEF session
<1>4. CASE /\ UNCHANGED snap /\ disk'.records \in {disk.records, snap}
           /\ \/ pass' = [pass EXCEPT !.pc = "flight", !.step = step, !.current = current]
              \/ \E i \in Nat \cup {None} :
                  pass' = [pass EXCEPT !.pc = "answered", !.step = step, !.current = current, !.id = i]
  <2>1. pass'.pc \in {"flight", "answered"} /\ pass'.phase = pass.phase
    BY <1>2, <1>4 DEF PassSet
  <2>2. SameLinks(snap, snap')
    BY <1>4, LinksSame
  <2> QED BY <1>4, <2>1, <2>2, MovesSteady
<1>5. CASE Stop("rejected", None) /\ UNCHANGED snap /\ disk'.records \in {disk.records, snap}
  BY <1>5, StopsSteady
<1>6. CASE \E p \in {"uncertain", "other"} : StopFlushed(p, pass.cur)
  BY <1>6, StopsFlushedSteady
<1> QED BY <1>3, <1>4, <1>5, <1>6

LEMMA PublishRemoteSteady == ASSUME Core, PublishRemote PROVE Steady
<1>1. /\ At("remote") /\ pass.pc = "remote" /\ pass.pc \in Busy /\ UNCHANGED <<rows, strays>>
      /\ "create" \in Steps /\ "fields" \in Steps
  BY DEF PublishRemote, At, Busy, Steps, sides, ghosts
<1>2. \/ StopFlushed("failed", None) \/ Hold
      \/ Go("local") /\ UNCHANGED <<snap, disk>>
      \/ Requested("create", Op.desired.title, None)
      \/ Requested("fields", PatchArgs(Op.desired), RemoteValue.status)
  BY DEF PublishRemote, session
<1>3. /\ pass.cur \in Subjects /\ pass \in PassSet /\ pass.phase \in {"resume", "plan"}
      /\ pass.cur \in Known(live) /\ live \in RecordMaps
  BY <1>1, BusyPass, PassFields DEF Core, TypeOK
<1>4. CASE Go("local") /\ UNCHANGED <<snap, disk>>
  <2>1. pass'.pc = "local" /\ pass'.phase = pass.phase
    BY <1>3, <1>4 DEF Go, PassSet
  <2> QED BY <1>1, <1>4, <2>1, LinksSame, MovesSteady
<1>5. CASE Hold
  <2>1. PICK q \in RecordSet :
              /\ checkpoint([live EXCEPT ![pass.cur] = q]) /\ q.local = Cur.local
              /\ q.remote = Cur.remote /\ q.localOnly = Cur.localOnly
              /\ \E h : pass' = [pass EXCEPT !.pc = pass.phase, !.cur = None, !.held = h]
    BY <1>1, <1>5, HoldWrites
  <2>2. pass'.pc = pass.phase /\ pass'.phase = pass.phase
    BY <1>3, <2>1 DEF PassSet
  <2>3. PICK M : M = [live EXCEPT ![pass.cur] = q]
    OBVIOUS
  <2>4. M[pass.cur] = q /\ \A t \in Subjects \ {pass.cur} : M[t] = live[t]
    BY <1>3, <2>3 DEF RecordMaps
  <2>5. snap' = M /\ disk'.records \in {disk.records, snap'}
    BY <2>1, <2>3, CheckpointLinks
  <2>6. SameLinks(snap, snap')
    BY <1>3, <2>1, <2>4, <2>5, PutLinks DEF Cur
  <2> QED BY <1>1, <1>3, <2>2, <2>5, <2>6, MovesSteady
<1> QED BY <1>1, <1>2, <1>4, <1>5, StopsFlushedSteady, RequestedSteady

LEMMA FlightSteady ==
    ASSUME Core, Delivered \/ ReceiptRefused \/ AnswerLost \/ NotSent \/ Refused
    PROVE  Steady
<1>1. pass.pc = "flight" /\ pass.pc \in Busy /\ UNCHANGED <<rows, strays>>
  BY DEF Delivered, ReceiptRefused, Answer, AnswerLost, NotSent, Refused, At, Busy, sides, ghosts
<1>2. pass \in PassSet
  BY <1>1, BusyPass
<1>3. \A j : flush(snap, j) => disk'.records = snap
  BY DEF flush
<1>4. CASE Delivered
  <2>1. /\ UNCHANGED snap /\ (\E j : flush(snap, j))
        /\ \E i : pass' = [pass EXCEPT !.pc = "answered", !.id = i]
    BY <1>4 DEF Delivered, Answer
  <2>2. pass'.pc = "answered" /\ pass'.phase = pass.phase
    BY <1>2, <2>1 DEF PassSet
  <2> QED BY <1>1, <1>3, <2>1, <2>2, LinksSame, MovesSteady
<1>5. CASE AnswerLost \/ Refused
  <2>1. PICK p \in {"uncertain", "failed", "reconnect"} : StopFlushed(p, None)
    BY <1>5 DEF AnswerLost, Refused
  <2> QED BY <1>1, <2>1, StopsFlushedSteady
<1>6. CASE NotSent \/ ReceiptRefused
  <2>1. UNCHANGED snap /\ \E p \in {"rejected", "reconnect", "other"} : Stop(p, None)
    BY <1>6 DEF NotSent, ReceiptRefused, Answer
  <2>2. UNCHANGED disk \/ \E j : flush(snap, j)
    BY <1>6 DEF NotSent, ReceiptRefused
  <2>3. disk'.records \in {disk.records, snap}
    BY <1>3, <2>2
  <2> QED BY <1>1, <2>1, <2>3, StopsSteady
<1> QED BY <1>4, <1>5, <1>6

LEMMA VerifySteady == ASSUME Core, Verify PROVE Steady
<1>1. At("verify") /\ pass.pc = "verify" /\ UNCHANGED <<rows, strays>>
  BY DEF Verify, At, sides, ghosts
<1>2. CASE ~Verified
  BY <1>1, <1>2, StopsFlushedSteady DEF Verify
<1>3. CASE Verified
  <2>1. NextRecord
    BY <1>3 DEF Verify
  <2>2. PICK d, q \in RecordSet :
              /\ snap' = Put(live, pass.cur, d)
              /\ IF hasPending(snap') THEN flush(snap', journal) ELSE UNCHANGED disk
              /\ d.local = Cur.local /\ d.remote = Cur.remote /\ d.localOnly = Cur.localOnly
              /\ RecordOK(pass.cur, d)
    BY <1>1, <1>3, VerifyWrites
  <2>3. pass.cur # None /\ pass.cur \in Known(live)
    BY <1>1, LocalFacts, PassFields
  <2>4. /\ snap'[pass.cur] = d /\ \A t \in Subjects \ {pass.cur} : snap'[t] = live[t]
    BY <2>2, <2>3, CurReplaced
  <2>5. SameLinks(snap, snap')
    BY <2>2, <2>3, <2>4, PutLinks DEF Cur
  <2>6. disk'.records \in {disk.records, snap'}
    BY <2>2 DEF flush
  <2>7. pass'.pc \in {"resume", "plan"} /\ pass'.phase = pass.phase
    BY <2>1, NextRecordIs
  <2> QED BY <1>1, <2>5, <2>6, <2>7, MovesSteady
<1> QED BY <1>2, <1>3

LEMMA PassFailsSteady == ASSUME Core, PassFails PROVE Steady
<1>1. UNCHANGED <<rows, strays, snap>> /\ \E p \in {"failed", "reconnect"} : Stop(p, None)
  BY DEF PassFails, sides, ghosts, session
<1>2. disk'.records \in {disk.records, snap}
  BY DEF PassFails, flush
<1> QED BY <1>1, <1>2, StopsSteady

LEMMA RunsSteady == ASSUME Core, Sync \/ Send \/ Resolve PROVE Steady
<1>1. UNCHANGED <<rows, strays>>
  BY DEF Sync, Send, Resolve, sides, ghosts
<1>2. CASE Sync \/ Send
  <2>1. UNCHANGED <<snap, disk>> /\ \E approved : RunPass(snap, approved)
    BY <1>2 DEF Sync, Send, session
  <2> QED BY <1>1, <2>1, LinksSame, BeginsSteady
<1>3. CASE Resolve
  <2>1. CASE StopFlushed("failed", None)
    BY <1>1, <2>1, StopsFlushedSteady
  <2>2. ASSUME NEW q \in RecordSet, conflict \in Known(snap), RecordOK(conflict, q),
               q.local = snap[conflict].local, q.remote = snap[conflict].remote,
               q.localOnly = snap[conflict].localOnly,
               snap' = Put(snap, conflict, q), flush(snap', journal), RunPass(snap', {})
        PROVE  Steady
    <3>1. live = snap /\ snap \in RecordMaps /\ RecordsOK(snap) /\ conflict \in Subjects
      BY <1>3, <2>2 DEF Core, TypeOK, Mirrored, Resolve, CanRun, Known
    <3>2. snap'[conflict] = q /\ \A t \in Subjects \ {conflict} : snap'[t] = snap[t]
      BY <2>2, <3>1, PutRecord
    <3>3. SameLinks(snap, snap')
      BY <2>2, <3>1, <3>2, PutLinks
    <3>4. disk'.records = snap'
      BY <2>2 DEF flush
    <3> QED BY <1>1, <2>2, <3>3, <3>4, BeginsSteady
  <2> QED BY <1>3, <2>1, <2>2, ResolveWrites
<1> QED BY <1>2, <1>3

\* Rows edited, deleted or added without a number.
LEMMA RowFewer ==
    ASSUME Core, NEW r \in RowIds, NEW w, rows' = [rows EXCEPT ![r] = w], UNCHANGED strays,
           \/ w = Null
           \/ r \in RowsOf(rows) /\ w.number = rows[r].number /\ w.localId = rows[r].localId
           \/ w.number = None /\ w.localId = None
    PROVE  Fewer(rows, strays, rows', strays')
<1>1. rows'[r] = w /\ \A q \in RowIds \ {r} : rows'[q] = rows[q]
  BY CoreParts DEF Around
<1> QED BY <1>1 DEF Fewer, Numbered, RowsOf

LEMMA EditsSteady == ASSUME Core, Edit \/ Create \/ HostEdit PROVE Steady
<1>1. UNCHANGED <<disk, snap, problem, pass, strays>>
  BY DEF Edit, Create, HostEdit, session, view, ghosts
<1>2. Fewer(rows, strays, rows', strays')
  <2>1. CASE \E r \in InTable : \E v \in EditsOf(rows[r].val) : rows' = [rows EXCEPT ![r].val = v]
    <3>1. PICK r \in InTable, w \in RowSet :
             /\ r \in RowIds /\ rows' = [rows EXCEPT ![r] = w]
             /\ w.number = rows[r].number /\ w.localId = rows[r].localId
      BY <2>1, RowEdited
    <3>2. r \in RowsOf(rows)
      BY DEF InTable, RowsOf
    <3> QED BY <1>1, <3>1, <3>2, RowFewer
  <2>2. CASE \E r \in InTable : rows' = [rows EXCEPT ![r] = Null]
    BY <1>1, <2>2, RowFewer DEF InTable
  <2>3. CASE \E r \in FreshRows, v \in Values : rows' = [rows EXCEPT ![r] = Row(v, None, None, None)]
    <3>1. PICK r \in RowIds, v \in Values : rows' = [rows EXCEPT ![r] = Row(v, None, None, None)]
      BY <2>3 DEF FreshRows
    <3>2. PICK w : w = Row(v, None, None, None)
      OBVIOUS
    <3>3. w.number = None /\ w.localId = None
      BY <3>2 DEF Row
    <3> QED BY <1>1, <3>1, <3>2, <3>3, RowFewer
  <2> QED BY <2>1, <2>2, <2>3 DEF Edit, Create, HostEdit
<1>3. Idle' = Idle
  BY <1>1 DEF Idle
<1> QED BY <1>1, <1>2, <1>3, LinksSame DEF Steady, Passing, MissingKept

LEMMA AroundSteady ==
    ASSUME Core, UNCHANGED vars \/ Load \/ Connect \/ Disconnect \/ GitHubEdit \/ Reload
    PROVE  Steady
<1>1. UNCHANGED <<rows, strays>>
  BY DEF vars, Load, Connect, Disconnect, GitHubEdit, Reload, sides, ghosts
<1>2. CASE Reload
  <2>1. snap' = disk.records /\ UNCHANGED disk /\ problem' = None /\ pass' = NoPass
    BY <1>2 DEF Reload
  <2>2. pass'.pc # "bind" /\ pass'.phase = "resume"
    BY <2>1, NoPassOK
  <2> QED BY <1>1, <2>1, <2>2, FewerSame DEF Steady, Passing, MissingKept
<1>3. CASE UNCHANGED vars \/ Load \/ Connect \/ Disconnect \/ GitHubEdit
  <2>1. UNCHANGED <<snap, pass>> /\ (problem' = None \/ UNCHANGED problem)
        /\ disk'.records \in {disk.records, snap'}
    BY <1>3 DEF vars, Load, Connect, Disconnect, GitHubEdit, session, view, flush
  <2>2. Idle' = Idle
    BY <2>1 DEF Idle
  <2> QED BY <1>1, <2>1, <2>2, FewerSame, LinksSame DEF Steady, Passing, MissingKept
<1> QED BY <1>2, <1>3

\* What holds of the records of the pass.
LEMMA LiveBound == ASSUME Core, Bound PROVE OneRecord(live) /\ Linked(live, rows, strays)
<1>1. OneRecord(snap) /\ Linked(snap, rows, strays) /\ SameLinks(snap, live)
  BY LiveLinks DEF Bound
<1> QED BY <1>1, FewerSame, FewerLinked

\* A record whose issue went missing is the one its row is bound to.
LEMMA MissingBound == ASSUME Core, Bound, NEW s \in Known(live), Missing(s), Core' PROVE Bound'
<1>1. At("plan") /\ UNCHANGED <<rows, strays>>
  BY DEF Missing, Planning, sides, ghosts
<1>2. CASE StopFlushed("missing-local", s)
  BY <1>1, <1>2, StopsFlushedSteady, SteadyBound
<1>3. CASE StopFlushed("missing", s)
  <2>1. /\ snap' = snap /\ disk'.records = snap /\ problem'.subject = s /\ pass' = NoPass
    BY <1>3 DEF StopFlushed, Stop, flush
  <2>2. /\ OneRecord(snap') /\ OneRecord(disk'.records) /\ OneCreated(rows')
        /\ Linked(snap', rows', strays') /\ Linked(disk'.records, rows', strays')
    BY <1>1, <2>1, FewerSame, LinksSame, BoundMaps
  <2>3. Settles(live, rows, strays, {})
    BY <1>1, PlanFacts DEF Bound, PlanSettles, At
  <2>4. live[s].remote = snap[s].remote /\ live[s].local = snap[s].local
    BY DEF Core, Mirrored, SameRecord
  <2>5. \A r \in Numbered(rows, strays) : rows[r].number = snap[s].remote => snap[s].local = r
    BY <2>3, <2>4 DEF Settles
  <2>6. MissingSettles'
    BY <1>1, <2>1, <2>5 DEF MissingSettles, Numbered, RowsOf
  <2>7. pass'.pc = "idle" /\ pass'.phase = "resume"
    BY <2>1, NoPassOK
  <2> QED BY <2>2, <2>6, <2>7, BoundNext
<1> QED BY <1>2, <1>3 DEF Missing

\* A created issue is bound to the record of the operation, and to no other.
LEMMA PublishedBound == ASSUME Core, Bound, Published, Core' PROVE Bound'
<1>1. /\ At("answered") /\ pass.pc = "answered" /\ pass.pc \in Busy /\ UNCHANGED <<rows, strays>>
      /\ "initial-fields" \in Steps /\ "label" \in Steps /\ "initial-label" \in Steps
  BY DEF Published, At, Busy, Steps, sides, ghosts
<1>2. \/ StopFlushed("failed", None)
      \/ \E step \in {"initial-fields", "label", "initial-label"} : \E args, current :
            Requested(step, args, current)
      \/ /\ pass.id = None \/ BoundTo(live, "remote", pass.id) = {}
         /\ checkpoint([live EXCEPT ![pass.cur].remote = Target]) /\ Go("local")
  BY DEF Published
<1>3. CASE /\ pass.id = None \/ BoundTo(live, "remote", pass.id) = {}
           /\ checkpoint([live EXCEPT ![pass.cur].remote = Target]) /\ Go("local")
  <2>1. PICK q \in RecordSet :
              /\ checkpoint(Put(live, pass.cur, q)) /\ live'[pass.cur] = q
              /\ \A t \in Subjects \ {pass.cur} : live'[t] = live[t]
              /\ q.remote = Target /\ q.local = Cur.local /\ ~q.localOnly
              /\ Cur.remote \in {None, Target}
    BY <1>1, <1>3, PublishedWrites
  <2>2. /\ snap' = live' /\ disk'.records \in {disk.records, snap'}
    BY <2>1, CheckpointLinks
  <2>3. /\ pass.cur \in Known(live) /\ pass.cur # None /\ pass.cur \in Subjects /\ pass \in PassSet
    BY <1>1, BusyPass, PassFields
  <2>4. pass'.pc = "local" /\ pass'.phase = pass.phase /\ pass'.cur = pass.cur
    BY <1>3, <2>3 DEF Go, PassSet
  <2>5. CASE Cur.remote = Target
    <3>1. SameLinks(snap, snap')
      BY <2>1, <2>2, <2>3, <2>5, PutLinks DEF Cur
    <3> QED BY <1>1, <2>2, <2>4, <3>1, MovesSteady, SteadyBound
  <2>6. CASE Cur.remote = None /\ Target # None
    <3>1. BoundTo(live, "remote", Target) = {}
      BY <1>3, <2>6 DEF Target
    <3>2. \A t \in Known(live) : live[t].remote # Target
      BY <3>1 DEF BoundTo
    <3>3. OneRecord(live) /\ Linked(live, rows, strays) /\ live[pass.cur].remote = None
      BY <2>6, LiveBound DEF Cur
    <3>4. \A t \in Known(live') : t = pass.cur \/ (t # pass.cur /\ t \in Known(live) /\ live'[t] = live[t])
      BY <2>1 DEF Known
    <3>5. OneRecord(live')
      BY <2>1, <3>2, <3>3, <3>4 DEF OneRecord
    <3>6. ASSUME NEW r \in Numbered(rows, strays)
          PROVE  \E t \in Known(live') : t # pass.cur /\ Owns(t, live'[t], r, rows[r])
      <4>1. PICK t \in Known(live) : Owns(t, live[t], r, rows[r])
        BY <3>3 DEF Linked
      <4>2. t # pass.cur
        BY <3>3, <4>1 DEF Owns, Numbered
      <4>3. live'[t] = live[t] /\ t \in Known(live')
        BY <2>1, <4>2 DEF Known
      <4> QED BY <4>1, <4>2, <4>3
    <3>7. Linked(live', rows', strays')
      BY <1>1, <3>6 DEF Linked
    <3>8. ASSUME pass'.phase = "plan" PROVE Settles(live', rows', strays', {})
      <4>1. Settles(live, rows, strays, {})
        BY <1>1, <2>4, <3>8 DEF Bound, PlanSettles, At
      <4>2. ASSUME NEW r \in Numbered(rows, strays) PROVE rows[r].number # Target
        <5>1. PICK t \in Known(live) : Owns(t, live[t], r, rows[r])
          BY <3>3, <4>2 DEF Linked
        <5> QED BY <3>2, <5>1 DEF Owns
      <4> QED BY <1>1, <2>1, <3>4, <4>1, <4>2 DEF Settles
    <3>9. /\ OneRecord(disk.records) /\ Linked(disk.records, rows, strays) /\ OneCreated(rows)
      BY DEF Bound
    <3>10. MissingSettles'
      BY <2>4 DEF MissingSettles, Idle
    <3> QED BY <1>1, <2>2, <2>4, <3>5, <3>7, <3>8, <3>9, <3>10, BoundNext
  <2>7. Target # None
    BY <1>1, TargetIs, NoId
  <2> QED BY <2>1, <2>5, <2>6, <2>7
<1> QED BY <1>1, <1>2, <1>3, StopsFlushedSteady, RequestedSteady, SteadyBound

\* A row is written for the record it is bound to.
LEMMA PublishLocalBound == ASSUME Core, Bound, PublishLocal, Core' PROVE Bound'
<1>1. /\ At("local") /\ pass.pc = "local" /\ pass.pc \in Busy /\ Cur.local # None /\ UNCHANGED strays
  BY DEF PublishLocal, At, Busy, ghosts
<1>2. /\ pass.cur \in Known(live) /\ pass.cur # None /\ pass.cur \in Subjects /\ pass \in PassSet
      /\ Op # None /\ Cur.remote \in Numbers /\ ~Cur.localOnly /\ Cur # None
  BY <1>1, BusyPass, LocalFacts DEF Known, Cur
<1>3. CASE rows' = rows
  <2>1. CASE StopFlushed("failed", None) \/ StopFlushed("rejected", None)
    BY <1>1, <1>3, <2>1, StopsFlushedSteady, SteadyBound
  <2>2. CASE checkpoint(live) /\ Go("verify")
    <3>1. snap' = live /\ disk'.records \in {disk.records, snap'}
      BY <2>2, CheckpointLinks
    <3>2. pass'.pc = "verify" /\ pass'.phase = pass.phase
      BY <1>2, <2>2 DEF Go, PassSet
    <3>3. SameLinks(snap, snap')
      BY <3>1, LiveLinks
    <3> QED BY <1>1, <1>3, <3>1, <3>2, <3>3, MovesSteady, SteadyBound
  <2> QED BY <2>1, <2>2 DEF PublishLocal, Refuse
<1>4. CASE /\ Cur.local \in InTable /\ Cur.local \in RowIds /\ rows[Cur.local] \in RowSet
           /\ rows' = [rows EXCEPT ![Cur.local] = Written(rows[Cur.local])]
           /\ checkpoint(live) /\ UNCHANGED <<journal, view, left>> /\ Go("verify")
  <2>1. PICK r \in RowIds, w \in RowSet :
           /\ r = Cur.local /\ w = Written(rows[r]) /\ w.localId = rows[r].localId
           /\ w.number \in {rows[r].number, Cur.remote}
    BY <1>1, <1>4, WrittenRow
  <2>2. rows'[r] = w /\ \A q \in RowIds \ {r} : rows'[q] = rows[q]
    BY <1>4, <2>1, CoreParts DEF Around
  <2>3. w \notin {None, Null} /\ r \in RowsOf(rows)
    BY <1>4, <2>1, ModelValuesAssumption DEF InTable, RowsOf
  <2>4. RowsOf(rows') = RowsOf(rows)
    BY <2>2, <2>3 DEF RowsOf
  <2>5. OneRecord(live) /\ Linked(live, rows, strays) /\ OneCreated(rows)
    BY LiveBound DEF Bound
  <2>6. \A q \in RowsOf(rows) : q \in RowIds /\ rows'[q].localId = rows[q].localId
    BY <2>1, <2>2 DEF RowsOf
  <2>7. OneCreated(rows')
    BY <2>4, <2>5, <2>6 DEF OneCreated
  <2>8. ASSUME NEW q \in Numbered(rows', strays)
        PROVE  \/ q \in Numbered(rows, strays) /\ rows'[q].number = rows[q].number
               \/ q = r /\ rows'[q].number = Cur.remote
    BY <2>1, <2>2, <2>4, <2>6 DEF Numbered
  <2>9. ASSUME NEW q \in Numbered(rows', strays)
        PROVE  \E s \in Known(live) : Owns(s, live[s], q, rows'[q])
    <3>1. CASE q = r /\ rows'[q].number = Cur.remote
      <4>1. Owns(pass.cur, live[pass.cur], q, rows'[q])
        BY <1>2, <2>1, <3>1 DEF Owns, Cur
      <4> QED BY <1>2, <4>1
    <3>2. CASE q \in Numbered(rows, strays) /\ rows'[q].number = rows[q].number
      <4>1. PICK s \in Known(live) : Owns(s, live[s], q, rows[q])
        BY <2>5, <3>2 DEF Linked
      <4>2. rows'[q].localId = rows[q].localId
        BY <2>6, <3>2 DEF Numbered
      <4>3. Owns(s, live[s], q, rows'[q])
        BY <3>2, <4>1, <4>2 DEF Owns
      <4> QED BY <4>3
    <3> QED BY <2>8, <3>1, <3>2
  <2>10. Linked(live, rows', strays)
    BY <2>9 DEF Linked
  <2>11. /\ live' = live /\ snap' = live /\ disk'.records = live
    <3>1. hasPending(live)
      BY <1>2 DEF hasPending, Op, Cur
    <3> QED BY <1>4, <3>1 DEF checkpoint, flush
  <2>12. pass'.pc = "verify" /\ pass'.phase = pass.phase
    BY <1>2, <1>4 DEF Go, PassSet
  <2>13. ASSUME pass'.phase = "plan" PROVE Settles(live, rows', strays, {})
    <3>1. Settles(live, rows, strays, {})
      BY <1>1, <2>12, <2>13 DEF Bound, PlanSettles, At
    <3>2. ASSUME NEW q \in Numbered(rows', strays), NEW s \in Known(live),
                 live[s].remote = rows'[q].number
          PROVE  live[s].local = q
      <4>1. CASE q = r /\ rows'[q].number = Cur.remote
        <5>1. live[s].remote = live[pass.cur].remote /\ live[s].remote # None
          BY <1>2, <3>2, <4>1, NoId DEF Cur
        <5>2. s = pass.cur
          BY <1>2, <2>5, <5>1 DEF OneRecord
        <5> QED BY <2>1, <4>1, <5>2 DEF Cur
      <4>2. CASE q \in Numbered(rows, strays) /\ rows'[q].number = rows[q].number
        BY <3>1, <3>2, <4>2 DEF Settles
      <4> QED BY <2>8, <4>1, <4>2
    <3> QED BY <3>2 DEF Settles
  <2>14. MissingSettles'
    BY <2>12 DEF MissingSettles, Idle
  <2> QED BY <1>1, <2>5, <2>7, <2>10, <2>11, <2>12, <2>13, <2>14, BoundNext
<1> QED BY <1>3, <1>4, PublishedRows

\* A row is made for the record of the operation once: AtomicPort.create() finds
\* the one made before.
LEMMA CreateLocalBound == ASSUME Core, Bound, CreateLocal, Core' PROVE Bound'
<1>1. /\ At("local") /\ pass.pc = "local" /\ pass.pc \in Busy /\ Cur.local = None /\ UNCHANGED strays
  BY DEF CreateLocal, At, Busy, ghosts
<1>2. /\ pass.cur \in Known(live) /\ pass.cur # None /\ pass.cur \in Subjects /\ pass \in PassSet
      /\ Op # None /\ Cur.remote \in Numbers /\ ~Cur.localOnly /\ Cur # None /\ ~Op.held
  BY <1>1, BusyPass, LocalFacts DEF Known, Cur
<1>3. OneRecord(live) /\ Linked(live, rows, strays) /\ OneCreated(rows)
      /\ OneRecord(snap) /\ OneRecord(disk.records)
      /\ Linked(snap, rows, strays) /\ Linked(disk.records, rows, strays)
  BY LiveBound DEF Bound
<1>4. CASE StopFlushed("rejected", None) /\ UNCHANGED rows
  BY <1>1, <1>4, StopsFlushedSteady, SteadyBound
<1>5. CASE StopFlushed("other", pass.cur) /\ UNCHANGED rows
  BY <1>1, <1>5, StopsFlushedSteady, SteadyBound
<1>6. pass.phase = "plan" => Settles(live, rows, strays, {})
  BY <1>1 DEF Bound, PlanSettles, At
<1>7. ASSUME NEW r \in RowIds, r \in InTable, rows[r].localId = pass.cur, UNCHANGED rows,
             pass' = [pass EXCEPT !.pc = "bind", !.id = r], UNCHANGED <<disk, session, view, live, left>>
      PROVE  Bound'
  <2>1. pass'.pc = "bind" /\ pass'.id = r /\ pass'.cur = pass.cur /\ pass'.phase = pass.phase
    BY <1>2, <1>7 DEF PassSet
  <2>2. UNCHANGED <<snap, disk, live>>
    BY <1>7 DEF session
  <2>3. pass'.phase = "plan" => Settles(live', rows', strays', {pass'.cur})
    BY <1>1, <1>6, <1>7, <2>1, <2>2 DEF Settles
  <2>4. ASSUME NEW q \in RowsOf(rows'), rows'[q].localId = pass'.cur PROVE q = pass'.id
    <3>1. r \in RowsOf(rows) /\ q \in RowsOf(rows)
      BY <1>7, <2>4 DEF RowsOf, InTable
    <3> QED BY <1>2, <1>3, <1>7, <2>1, <2>4, <3>1 DEF OneCreated
  <2>5. MissingSettles'
    BY <2>1 DEF MissingSettles, Idle
  <2> QED BY <1>1, <1>3, <1>7, <2>1, <2>2, <2>3, <2>4, <2>5, BoundNext
<1>8. ASSUME NEW r \in RowIds, NEW w \in RowSet, Recovered = {}, rows[r] = None,
             rows' = [rows EXCEPT ![r] = w], w.number = Cur.remote, w.localId = pass.cur,
             pass' = [pass EXCEPT !.pc = "bind", !.id = r], UNCHANGED <<disk, session, view, live, left>>
      PROVE  Bound'
  <2>1. pass'.pc = "bind" /\ pass'.id = r /\ pass'.cur = pass.cur /\ pass'.phase = pass.phase
    BY <1>2, <1>8 DEF PassSet
  <2>2. UNCHANGED <<snap, disk, live>>
    BY <1>8 DEF session
  <2>3. rows'[r] = w /\ (\A q \in RowIds \ {r} : rows'[q] = rows[q]) /\ w \notin {None, Null}
    BY <1>8, CoreParts, ModelValuesAssumption DEF Around
  <2>4. RowsOf(rows') = RowsOf(rows) \cup {r} /\ r \notin RowsOf(rows)
    BY <1>8, <2>3 DEF RowsOf
  <2>5. \A q \in RowsOf(rows) : q \in RowIds \ {r} /\ rows'[q] = rows[q] /\ rows[q].localId # pass.cur
    BY <1>8, <2>3, <2>4 DEF RowsOf, Recovered, InTable
  <2>6. OneCreated(rows')
    BY <1>3, <1>8, <2>3, <2>4, <2>5 DEF OneCreated
  <2>7. ASSUME NEW q \in Numbered(rows', strays)
        PROVE  (q \in Numbered(rows, strays) /\ rows'[q] = rows[q]) \/ q = r
    BY <2>4, <2>5 DEF Numbered
  <2>8. disk.records = snap
    <3>1. live[pass.cur].pending # None /\ SameRecord(live[pass.cur], snap[pass.cur])
          /\ pass.cur \in Known(snap)
      BY <1>2 DEF Core, Mirrored, Known, Op, Cur
    <3>2. snap[pass.cur].pending # None
      BY <3>1 DEF SameRecord
    <3>3. hasPending(snap)
      BY <3>1, <3>2 DEF hasPending
    <3> QED BY <3>3 DEF Core, Mirrored
  <2>9. ASSUME NEW q \in Numbered(rows', strays)
        PROVE  \E s \in Known(snap) : Owns(s, snap[s], q, rows'[q])
    <3>1. CASE q = r
      <4>1. /\ pass.cur \in Known(snap) /\ snap[pass.cur].local = None
            /\ snap[pass.cur].remote = Cur.remote /\ ~snap[pass.cur].localOnly
        BY <1>1, <1>2, LiveLinks DEF Core, Mirrored, SameRecord, Known, Cur
      <4>2. Owns(pass.cur, snap[pass.cur], q, rows'[q])
        BY <1>8, <2>3, <3>1, <4>1 DEF Owns
      <4> QED BY <4>1, <4>2
    <3>2. CASE q \in Numbered(rows, strays) /\ rows'[q] = rows[q]
      BY <1>3, <3>2 DEF Linked
    <3> QED BY <2>7, <3>1, <3>2
  <2>10. Linked(snap, rows', strays)
    BY <2>9 DEF Linked
  <2>11. ASSUME pass'.phase = "plan" PROVE Settles(live, rows', strays, {pass.cur})
    <3>1. Settles(live, rows, strays, {})
      BY <1>6, <2>1, <2>11
    <3>2. ASSUME NEW q \in Numbered(rows', strays), NEW s \in Known(live) \ {pass.cur},
                 live[s].remote = rows'[q].number
          PROVE  live[s].local = q
      <4>1. CASE q = r
        <5>1. live[s].remote = live[pass.cur].remote /\ live[s].remote # None
          BY <1>2, <1>8, <2>3, <3>2, <4>1, NoId DEF Cur
        <5>2. s = pass.cur
          BY <1>2, <1>3, <5>1 DEF OneRecord
        <5> QED BY <5>2
      <4>2. CASE q \in Numbered(rows, strays) /\ rows'[q] = rows[q]
        BY <3>1, <3>2, <4>2 DEF Settles
      <4> QED BY <2>7, <4>1, <4>2
    <3> QED BY <3>2 DEF Settles
  <2>12. ASSUME NEW q \in RowsOf(rows'), rows'[q].localId = pass'.cur PROVE q = pass'.id
    BY <2>1, <2>4, <2>5, <2>12
  <2>13. MissingSettles'
    BY <2>1 DEF MissingSettles, Idle
  <2> QED BY <1>1, <1>3, <2>1, <2>2, <2>6, <2>8, <2>10, <2>11, <2>12, <2>13, BoundNext
<1> QED BY <1>4, <1>5, <1>7, <1>8, CreatedRows

\* The row made for the record is bound to it.
LEMMA BindLocalBound == ASSUME Core, Bound, BindLocal, Core' PROVE Bound'
<1>1. /\ At("bind") /\ pass.pc = "bind" /\ pass.pc \in Busy /\ UNCHANGED <<rows, strays>>
  BY DEF BindLocal, At, Busy, sides, ghosts
<1>2. CASE StopFlushed("failed", None)
  BY <1>1, <1>2, StopsFlushedSteady, SteadyBound
<1>3. CASE checkpoint([live EXCEPT ![pass.cur].local = pass.id]) /\ Go("verify")
  <2>1. PICK q \in RecordSet :
           /\ checkpoint(Put(live, pass.cur, q)) /\ live'[pass.cur] = q
           /\ \A t \in Subjects \ {pass.cur} : live'[t] = live[t]
           /\ q.local = pass.id /\ q.remote = Cur.remote /\ ~q.localOnly
    BY <1>1, <1>3, BindWrites
  <2>2. /\ snap' = live' /\ disk'.records \in {disk.records, snap'}
    BY <2>1, CheckpointLinks
  <2>3. /\ pass.cur \in Known(live) /\ pass.cur # None /\ pass.cur \in Subjects /\ pass \in PassSet
        /\ Cur.remote \in Numbers /\ Cur.local = None /\ Cur # None
    BY <1>1, BusyPass, LocalFacts DEF Known, Cur, Core, OperationOK
  <2>4. pass'.pc = "verify" /\ pass'.phase = pass.phase /\ pass'.cur = pass.cur
    BY <1>3, <2>3 DEF Go, PassSet
  <2>5. OneRecord(live) /\ Linked(live, rows, strays) /\ OneCreated(rows)
        /\ OneRecord(disk.records) /\ Linked(disk.records, rows, strays)
    BY LiveBound DEF Bound
  <2>6. Known(live') = Known(live) /\ \A t \in Known(live) : live'[t].remote = live[t].remote
    <3>1. q # None
      BY ModelValuesAssumption
    <3> QED BY <2>1, <2>3, <3>1 DEF Known, Cur
  <2>7. OneRecord(live')
    BY <2>5, <2>6 DEF OneRecord
  <2>8. ASSUME NEW r \in Numbered(rows, strays), NEW s \in Known(live), Owns(s, live[s], r, rows[r])
        PROVE  Owns(s, live'[s], r, rows[r]) /\ (s = pass.cur => r = pass.id)
    <3>1. CASE s = pass.cur
      <4>1. rows[r].localId = pass.cur /\ r \in RowsOf(rows)
        BY <2>3, <2>8, <3>1, NoId DEF Owns, Cur, Numbered, RowsOf
      <4>2. r = pass.id
        BY <1>1, <4>1 DEF Bound, Created
      <4> QED BY <2>1, <2>3, <2>8, <3>1, <4>2 DEF Owns, Cur
    <3>2. CASE s # pass.cur
      BY <2>1, <2>8, <3>2 DEF Known
    <3> QED BY <3>1, <3>2
  <2>9. Linked(live', rows, strays)
    BY <2>5, <2>6, <2>8 DEF Linked
  <2>10. ASSUME pass'.phase = "plan" PROVE Settles(live', rows, strays, {})
    <3>1. Settles(live, rows, strays, {pass.cur})
      BY <1>1, <2>4, <2>10 DEF Bound, PlanSettles
    <3>2. ASSUME NEW r \in Numbered(rows, strays), NEW s \in Known(live'),
                 live'[s].remote = rows[r].number
          PROVE  live'[s].local = r
      <4>1. CASE s # pass.cur
        BY <2>1, <2>6, <3>1, <3>2, <4>1 DEF Settles, Known
      <4>2. CASE s = pass.cur
        <5>1. PICK t \in Known(live) : Owns(t, live[t], r, rows[r])
          BY <2>5 DEF Linked
        <5>2. live[t].remote = live[s].remote /\ live[t].remote # None /\ s \in Known(live)
          BY <2>6, <3>2, <5>1 DEF Owns, Numbered
        <5>3. t = s
          BY <2>5, <5>2 DEF OneRecord
        <5>4. r = pass.id
          BY <2>8, <4>2, <5>1, <5>3
        <5> QED BY <2>1, <4>2, <5>4
      <4> QED BY <4>1, <4>2
    <3> QED BY <3>2 DEF Settles
  <2>11. MissingSettles'
    BY <2>4 DEF MissingSettles, Idle
  <2> QED BY <1>1, <2>2, <2>4, <2>5, <2>7, <2>9, <2>10, <2>11, BoundNext
<1> QED BY <1>2, <1>3 DEF BindLocal

\* keepHereOnly() and removeFromBoard(): the record lets its issue go with its row.
LEMMA SettleMissingRows ==
    ASSUME Core, CanSettleMissing, NEW N, NEW r \in RowIds \cup {None}, NEW row,
           row = Null \/ (row.number = None /\ (r \in InTable => row.localId = rows[r].localId)),
           SettleMissing(N, r, row)
    PROVE  /\ Fewer(rows, strays, rows', strays') /\ r \notin Numbered(rows', strays')
           /\ pass'.pc # "bind" /\ pass'.phase = "resume" /\ MissingSettles'
<1>1. CASE /\ rows' = (IF r \in InTable THEN [rows EXCEPT ![r] = row] ELSE rows)
           /\ RunPass(N, {}) /\ UNCHANGED <<view, strays, left>>
  <2>1. pass'.pc = "resume" /\ pass'.phase = "resume"
    BY <1>1 DEF RunPass, NoPass
  <2>2. ASSUME r \in InTable
        PROVE  Fewer(rows, strays, rows', strays') /\ r \notin Numbered(rows', strays')
    <3>1. r \in RowIds /\ r \in RowsOf(rows) /\ rows' = [rows EXCEPT ![r] = row] /\ UNCHANGED strays
      BY <1>1, <2>2 DEF InTable, RowsOf
    <3>2. rows'[r] = row /\ \A q \in RowIds \ {r} : rows'[q] = rows[q]
      BY <3>1, CoreParts DEF Around
    <3> QED BY <2>2, <3>1, <3>2 DEF Fewer, Numbered, RowsOf
  <2>3. ASSUME r \notin InTable
        PROVE  Fewer(rows, strays, rows', strays') /\ r \notin Numbered(rows', strays')
    <3>1. rows' = rows /\ UNCHANGED strays
      BY <1>1, <2>3
    <3>2. r \notin Numbered(rows', strays')
      BY <2>3, <3>1 DEF InTable, Numbered, RowsOf
    <3> QED BY <3>1, <3>2, FewerSame
  <2>4. MissingSettles'
    BY <2>1 DEF MissingSettles, Idle
  <2> QED BY <2>1, <2>2, <2>3, <2>4
<1>2. CASE Spend /\ Stop("rejected", None) /\ strays' = strays \cup {r} /\ UNCHANGED rows
  <2>1. pass'.pc = "idle" /\ pass'.phase = "resume" /\ problem'.kind = "rejected"
    BY <1>2, NoPassOK DEF Stop
  <2>2. Fewer(rows, strays, rows', strays') /\ r \notin Numbered(rows', strays')
    BY <1>2 DEF Fewer, Numbered, RowsOf
  <2>3. MissingSettles'
    BY <2>1 DEF MissingSettles
  <2> QED BY <2>1, <2>2, <2>3
<1>3. CASE RunPass(N, {}) /\ strays' = strays \cup {r} /\ UNCHANGED rows
  <2>1. pass'.pc = "resume" /\ pass'.phase = "resume"
    BY <1>3 DEF RunPass, NoPass
  <2>2. Fewer(rows, strays, rows', strays') /\ r \notin Numbered(rows', strays')
    BY <1>3 DEF Fewer, Numbered, RowsOf
  <2>3. MissingSettles'
    BY <2>1 DEF MissingSettles, Idle
  <2> QED BY <2>1, <2>2, <2>3
<1> QED BY <1>1, <1>2, <1>3 DEF SettleMissing

LEMMA SettleMissingBound ==
    ASSUME Core, Bound, CanSettleMissing, NEW s, s = problem.subject, NEW N,
           \A t \in Subjects \ {s} : N[t] = snap[t], N[s] = None \/ N[s].remote = None,
           NEW r, r = snap[s].local, snap' = N, disk'.records = N,
           Fewer(rows, strays, rows', strays'), r \notin Numbered(rows', strays'),
           pass'.pc # "bind", pass'.phase = "resume", MissingSettles'
    PROVE  Bound'
<1>1. /\ Idle /\ s \in Subjects /\ snap[s] \in RecordSet /\ problem # None /\ problem.kind = "missing"
  BY MissingRecord DEF CanSettleMissing
<1>2. OneRecord(snap) /\ Linked(snap, rows, strays) /\ OneCreated(rows)
  BY DEF Bound
<1>3. OneCreated(rows')
  BY <1>2, FewerLinked, LinksSame
<1>4. \A t \in Known(N) : N[t].remote # None => t \in Known(snap) /\ N[t] = snap[t]
  BY DEF Known
<1>5. OneRecord(N)
  BY <1>2, <1>4 DEF OneRecord
<1>6. ASSUME NEW q \in Numbered(rows', strays')
      PROVE  \E t \in Known(N) : Owns(t, N[t], q, rows'[q])
  <2>1. q \in Numbered(rows, strays) /\ rows'[q].number = rows[q].number
        /\ rows'[q].localId = rows[q].localId
    BY DEF Fewer
  <2>2. PICK t \in Known(snap) : Owns(t, snap[t], q, rows[q])
    BY <1>2, <2>1 DEF Linked
  <2>3. CASE t = s
    <3>1. snap[s].local = q
      BY <1>1, <2>1, <2>2, <2>3 DEF Owns, Bound, MissingSettles
    <3> QED BY <1>6, <3>1
  <2>4. CASE t # s
    <3>1. N[t] = snap[t] /\ t \in Known(N)
      BY <2>2, <2>4 DEF Known
    <3>2. Owns(t, N[t], q, rows'[q])
      BY <2>1, <2>2, <3>1 DEF Owns
    <3> QED BY <3>1, <3>2
  <2> QED BY <2>3, <2>4
<1>7. Linked(N, rows', strays')
  BY <1>6 DEF Linked
<1> QED BY <1>3, <1>5, <1>7, BoundNext

LEMMA KeepHereOnlyBound == ASSUME Core, Bound, KeepHereOnly PROVE Bound'
<1>1. PICK s, r, row, N : /\ s = problem.subject /\ r = snap[s].local
                          /\ row = [rows[r] EXCEPT !.number = None] /\ N = KeptHere(s)
                          /\ SettleMissing(N, r, row)
  BY DEF KeepHereOnly
<1>2. CanSettleMissing /\ snap' = N /\ disk'.records = N
  BY <1>1 DEF SettleMissing, flush
<1>3. /\ \A t \in Subjects \ {s} : N[t] = snap[t]
      /\ N[s].remote = None /\ r \in RowIds \cup {None}
  BY <1>1, <1>2, KeptHereRecords, MissingRecord
<1>4. r \in InTable => row.number = None /\ row.localId = rows[r].localId
  BY <1>1, CoreParts DEF InTable, Around, RowSet
<1>5. CASE r \in InTable
  BY <1>1, <1>2, <1>3, <1>4, <1>5, SettleMissingRows, SettleMissingBound
<1>6. CASE r \notin InTable
  <2>1. SettleMissing(N, r, Null)
    BY <1>1, <1>6 DEF SettleMissing
  <2> QED BY <1>1, <1>2, <1>3, <2>1, SettleMissingRows, SettleMissingBound
<1> QED BY <1>5, <1>6

LEMMA RemoveFromBoardBound == ASSUME Core, Bound, RemoveFromBoard PROVE Bound'
<1>1. PICK s, r, N : /\ s = problem.subject /\ r = snap[s].local /\ N = Forgotten(s)
                     /\ SettleMissing(N, r, Null)
  BY DEF RemoveFromBoard
<1>2. CanSettleMissing /\ snap' = N /\ disk'.records = N
  BY <1>1 DEF SettleMissing, flush
<1>3. /\ \A t \in Subjects \ {s} : N[t] = snap[t]
      /\ N[s] = None /\ r \in RowIds \cup {None}
  BY <1>1, <1>2, ForgottenRecords, MissingRecord
<1> QED BY <1>1, <1>2, <1>3, SettleMissingRows, SettleMissingBound

\* A record is only ever bound to an issue that no record was bound to.
LEMMA OneMore ==
    ASSUME NEW M, NEW N, OneRecord(M),
           \A s \in Known(N) : N[s].remote # None =>
              \/ s \in Known(M) /\ N[s].remote = M[s].remote
              \/ s = <<"remote", N[s].remote>> /\ BoundTo(M, "remote", N[s].remote) = {}
    PROVE  OneRecord(N)
<1>1. SUFFICES ASSUME NEW s \in Known(N), NEW t \in Known(N), N[s].remote # None,
                      N[s].remote = N[t].remote
               PROVE  s = t
  BY DEF OneRecord
<1>2. \/ s \in Known(M) /\ N[s].remote = M[s].remote
      \/ s = <<"remote", N[s].remote>> /\ BoundTo(M, "remote", N[s].remote) = {}
  BY <1>1
<1>3. \/ t \in Known(M) /\ N[t].remote = M[t].remote
      \/ t = <<"remote", N[t].remote>> /\ BoundTo(M, "remote", N[t].remote) = {}
  BY <1>1
<1>4. CASE s \in Known(M) /\ N[s].remote = M[s].remote
  <2>1. s \in BoundTo(M, "remote", N[t].remote)
    BY <1>1, <1>4 DEF BoundTo
  <2> QED BY <1>1, <1>3, <1>4, <2>1 DEF OneRecord
<1>5. CASE s = <<"remote", N[s].remote>> /\ BoundTo(M, "remote", N[s].remote) = {}
  <2>1. t \notin Known(M) \/ N[t].remote # M[t].remote
    BY <1>1, <1>5 DEF BoundTo
  <2> QED BY <1>1, <1>3, <1>5, <2>1
<1> QED BY <1>2, <1>4, <1>5

\* Listing both sides binds every numbered row to the record of its issue.
LEMMA DiscoveredLinks ==
    ASSUME NEW M \in RecordMaps, RecordsOK(M), NEW remote \in ListedIssues, NEW list \in ListedRows,
           ~ColumnClash(M, list), OneRecord(M), NEW D, D = Discovered(M, remote, list),
           NEW t, NEW x, Linked(M, t, x), \A r \in RowsOf(t) : list[r] = t[r]
    PROVE  /\ OneRecord(D)
           /\ \A r \in Numbered(t, x) :
                 \E s \in Known(D) : D[s].local = r /\ D[s].remote = t[r].number /\ ~D[s].localOnly
<1>1. PICK C, A, ids, rs : /\ C = ColumnBinds(M, list) /\ ids = {n \in Numbers : remote[n] # None}
                           /\ A = IngestSide(C, "remote", ids) /\ rs = {r \in RowIds : list[r] # None}
  OBVIOUS
<1>2. D = IngestSide(A, "local", rs) /\ ids \in SUBSET Numbers /\ rs \in SUBSET RowIds
  BY <1>1 DEF Discovered
<1>3. C \in RecordMaps /\ RecordsOK(C) /\ A \in RecordMaps /\ RecordsOK(A)
  BY <1>1, DiscoveredRecords
<1>4. ASSUME NEW s \in Known(C), C[s].remote # None
      PROVE  \/ s \in Known(M) /\ C[s].remote = M[s].remote
             \/ s = <<"remote", C[s].remote>> /\ BoundTo(M, "remote", C[s].remote) = {}
  <2>1. s \in Subjects /\ C[s] # None
    BY DEF Known
  <2>2. CASE C[s] = M[s]
    BY <2>1, <2>2 DEF Known
  <2>3. CASE C[s] # M[s]
    <3>1. PICK r \in ByColumn(M, list) :
             SubjectFor(M, list[r].number) = s /\ C[s].remote = list[r].number
      BY <1>1, <2>1, <2>3, ColumnBound
    <3>2. /\ s \in Known(M) => M[s].remote = list[r].number
          /\ s \notin Known(M) => s = <<"remote", list[r].number>>
                                  /\ BoundTo(M, "remote", list[r].number) = {}
      BY <3>1, RowBound
    <3> QED BY <3>1, <3>2
  <2> QED BY <2>2, <2>3
<1>5. OneRecord(C)
  BY <1>4, OneMore
<1>6. ASSUME NEW s \in Known(A), A[s].remote # None
      PROVE  \/ s \in Known(C) /\ A[s].remote = C[s].remote
             \/ s = <<"remote", A[s].remote>> /\ BoundTo(C, "remote", A[s].remote) = {}
  <2>1. s \in Subjects /\ A[s] # None
    BY DEF Known
  <2>2. CASE A[s] = C[s]
    BY <2>1, <2>2 DEF Known
  <2>3. CASE A[s] # C[s]
    <3>1. s[1] = "remote" /\ BoundTo(C, "remote", s[2]) = {} /\ A[s].remote = s[2]
      BY <1>1, <1>2, <1>3, <2>1, <2>3, IssueIngested
    <3>2. s = <<"remote", s[2]>>
      BY <2>1, <3>1, SubjectIds
    <3> QED BY <3>1, <3>2
  <2> QED BY <2>2, <2>3
<1>7. OneRecord(A)
  BY <1>5, <1>6, OneMore
<1>8. ASSUME NEW s \in Known(D), D[s].remote # None
      PROVE  s \in Known(A) /\ D[s].remote = A[s].remote
  <2>1. s \in Subjects /\ D[s] # None
    BY DEF Known
  <2>2. D[s] = A[s]
    BY <1>2, <1>3, <1>8, <2>1, RowIngested
  <2> QED BY <2>1, <2>2 DEF Known
<1>9. OneRecord(D)
  BY <1>7, <1>8, OneMore
<1>10. ASSUME NEW r \in Numbered(t, x)
       PROVE  \E s \in Known(D) : D[s].local = r /\ D[s].remote = t[r].number /\ ~D[s].localOnly
  <2>1. PICK s \in Known(M) : Owns(s, M[s], r, t[r])
    BY DEF Linked
  <2>2. r \in RowIds /\ list[r] = t[r] /\ t[r] # None /\ t[r].number # None
    BY DEF Numbered, RowsOf
  <2>3. PICK n \in Numbers : n = t[r].number
    BY <2>2 DEF ListedRows, RowSet
  <2>4. /\ s \in Subjects /\ M[s] # None /\ M[s].remote = n /\ ~M[s].localOnly
    BY <2>1, <2>3 DEF Owns, Known
  <2>5. SubjectFor(M, n) = s
    <3>1. BoundTo(M, "remote", n) # {}
      BY <2>1, <2>4 DEF BoundTo
    <3>2. SubjectFor(M, n) \in Known(M) /\ M[SubjectFor(M, n)].remote = n
      BY <2>3, <3>1, SubjectIs
    <3> QED BY <2>1, <2>2, <2>3, <2>4, <3>2 DEF OneRecord
  <2>6. r \in ByColumn(M, list)
    BY <2>2, <2>3, <2>4, <2>5 DEF ByColumn
  <2>7. PICK q \in ByColumn(M, list) :
           /\ SubjectFor(M, list[q].number) = s /\ C[s] \in RecordSet
           /\ C[s].local = q /\ C[s].remote = list[q].number /\ ~C[s].localOnly
    BY <1>1, <2>2, <2>3, <2>4, <2>5, <2>6, ColumnBound
  <2>8. q = r
    BY <2>2, <2>3, <2>5, <2>6, <2>7, RowBound
  <2>9. s \in Known(C) /\ C[s].local = r /\ C[s].remote = t[r].number /\ C[s].remote # None
    BY <2>2, <2>4, <2>7, <2>8, ModelValuesAssumption DEF Known
  <2>10. A[s] = C[s]
    BY <1>1, <1>2, <1>3, <2>4, <2>9, IssueIngested
  <2>11. s \in Known(A)
    BY <2>9, <2>10 DEF Known
  <2>12. D[s] = A[s]
    BY <1>2, <1>3, <2>4, <2>11, RowIngested
  <2>13. s \in Known(D)
    BY <2>11, <2>12 DEF Known
  <2> QED BY <2>7, <2>9, <2>10, <2>12, <2>13
<1> QED BY <1>9, <1>10

LEMMA ListLocalBound == ASSUME Core, Bound, ListLocal, Core' PROVE Bound'
<1>1. PICK list : list = [r \in RowIds |-> IF r \in InTable THEN rows[r] ELSE None]
  OBVIOUS
<1>2. PICK found : found = Discovered(live, pass.remote, list)
  OBVIOUS
<1>3. list \in ListedRows /\ \A r \in RowsOf(rows) : list[r] = rows[r]
  BY <1>1, TableListed DEF RowsOf, InTable
<1>4. At("listLocal") /\ UNCHANGED <<rows, strays>>
  BY DEF ListLocal, sides, ghosts
<1>5. CASE ColumnClash(live, list)
  <2>1. StopFlushed("failed", None)
    BY <1>1, <1>5 DEF ListLocal
  <2> QED BY <1>4, <2>1, StopsFlushedSteady, SteadyBound
<1>6. CASE ~ColumnClash(live, list)
  <2>1. /\ checkpoint(found)
        /\ pass' = [pass EXCEPT !.pc = "plan", !.phase = "plan", !.local = list, !.todo = Known(found)]
    BY <1>1, <1>2, <1>6 DEF ListLocal
  <2>2. pass.remote \in ListedIssues /\ live \in RecordMaps /\ RecordsOK(live) /\ pass \in PassSet
    BY <1>4 DEF Core, PassOK, TypeOK, At
  <2>3. OneRecord(live) /\ Linked(live, rows, strays) /\ OneCreated(rows)
        /\ OneRecord(disk.records) /\ Linked(disk.records, rows, strays)
    BY LiveBound DEF Bound
  <2>4. /\ OneRecord(found)
        /\ \A r \in Numbered(rows, strays) :
              \E s \in Known(found) : found[s].local = r /\ found[s].remote = rows[r].number
                                      /\ ~found[s].localOnly
    BY <1>2, <1>3, <1>6, <2>2, <2>3, DiscoveredLinks
  <2>5. Linked(found, rows, strays)
    BY <2>4 DEF Linked, Owns
  <2>6. Settles(found, rows, strays, {})
    <3>1. SUFFICES ASSUME NEW r \in Numbered(rows, strays), NEW s \in Known(found),
                          found[s].remote = rows[r].number
                   PROVE  found[s].local = r
      BY DEF Settles
    <3>2. PICK t \in Known(found) : found[t].local = r /\ found[t].remote = rows[r].number
      BY <2>4
    <3>3. s = t
      BY <2>4, <3>1, <3>2 DEF OneRecord, Numbered
    <3> QED BY <3>2, <3>3
  <2>7. live' = found /\ snap' = found /\ disk'.records \in {disk.records, snap'}
    BY <2>1, CheckpointLinks
  <2>8. pass'.pc = "plan" /\ pass'.phase = "plan"
    BY <2>1, <2>2 DEF PassSet
  <2>9. MissingSettles'
    BY <2>8 DEF MissingSettles, Idle
  <2> QED BY <1>4, <2>3, <2>4, <2>5, <2>6, <2>7, <2>8, <2>9, BoundNext
<1> QED BY <1>5, <1>6

LEMMA PlanBound == ASSUME Core, Bound, Plan, Core' PROVE Bound'
BY PlanSteady, SteadyBound, MissingBound DEF Plan

LEMMA NextBound == ASSUME Core, Core', Bound, [Next]_vars PROVE Bound'
<1>1. CASE PassStep
  BY <1>1, ListingSteady, EndPassSteady, CheckSteady, PublishRemoteSteady, FlightSteady, VerifySteady,
     PassFailsSteady, SteadyBound, ListLocalBound, PlanBound, PublishedBound, PublishLocalBound,
     CreateLocalBound, BindLocalBound DEF PassStep
<1>2. CASE Person \/ World \/ UNCHANGED vars
  BY <1>2, RunsSteady, EditsSteady, AroundSteady, SteadyBound, KeepHereOnlyBound, RemoveFromBoardBound
     DEF Person, World
<1> QED BY <1>1, <1>2 DEF Next

LEMMA InitBound == ASSUME Init PROVE Bound
<1>1. /\ snap = [s \in Subjects |-> None] /\ disk.records = snap /\ pass = NoPass /\ problem = None
      /\ strays = {}
  BY DEF Init
<1>2. Known(snap) = {} /\ pass.phase = "resume" /\ pass.pc = "idle"
  BY <1>1, NoPassOK DEF Known
<1>3. \A r \in RowsOf(rows) : rows[r].number = None /\ rows[r].localId = None
  BY DEF Init, RowsOf, Row
<1>4. Numbered(rows, strays) = {} /\ OneCreated(rows)
  BY <1>3 DEF Numbered, OneCreated
<1>5. OneRecord(snap) /\ Linked(snap, rows, strays)
  BY <1>2, <1>4 DEF OneRecord, Linked
<1> QED BY <1>1, <1>2, <1>4, <1>5 DEF Bound, PlanSettles, Created, MissingSettles, At

\* Every numbered row is owned by the one record of its issue, at every step, in the
\* session and on disk, so that a frame that comes back finds the row made before.
THEOREM BoundInvariant == Spec => []Bound
<1>1. Init => Bound
  BY InitBound
<1>2. Core /\ Core' /\ Bound /\ [Next]_vars => Bound'
  BY NextBound
<1> QED BY <1>1, <1>2, CoreInvariant, PTL DEF Spec

\* No issue is imported into two rows (AtomicPort.create(), port.ts), but for a row
\* the table refused to change after a person settled its missing issue.
THEOREM OneRowEach == Spec => []OneRowPerIssue
<1>1. Bound => OneRowPerIssue
  <2>1. SUFFICES ASSUME Bound, NEW q \in InTable \ strays, NEW r \in InTable \ strays,
                        rows[q].number # None, rows[q].number = rows[r].number
                 PROVE  q = r
    BY DEF OneRowPerIssue
  <2>2. q \in Numbered(rows, strays) /\ r \in Numbered(rows, strays)
    BY <2>1 DEF Numbered, RowsOf, InTable
  <2>3. OneRecord(snap) /\ Linked(snap, rows, strays) /\ OneCreated(rows)
    BY <2>1 DEF Bound
  <2>4. PICK s \in Known(snap) : Owns(s, snap[s], q, rows[q])
    BY <2>2, <2>3 DEF Linked
  <2>5. PICK t \in Known(snap) : Owns(t, snap[t], r, rows[r])
    BY <2>2, <2>3 DEF Linked
  <2>6. s = t
    BY <2>1, <2>3, <2>4, <2>5 DEF Owns, OneRecord
  <2>7. q \in RowsOf(rows) /\ r \in RowsOf(rows) /\ s # None
    BY <2>2, NoId DEF Numbered, Known
  <2>8. CASE snap[s].local = None
    <3>1. s \in Subjects /\ s # None
      BY NoId DEF Known
    <3>2. q # None /\ r # None
      BY <2>7, NoId DEF RowsOf
    <3>3. rows[q].localId = s /\ rows[r].localId = s
      BY <2>4, <2>5, <2>6, <2>8, <3>2 DEF Owns
    <3> QED BY <2>3, <2>7, <3>1, <3>3 DEF OneCreated
  <2>9. CASE snap[s].local # None
    BY <2>4, <2>5, <2>6, <2>9 DEF Owns
  <2> QED BY <2>8, <2>9
<1> QED BY <1>1, BoundInvariant, PTL

=============================================================================
