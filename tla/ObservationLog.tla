--------------------------- MODULE ObservationLog ---------------------------
(***************************************************************************)
(* The Clockify timesheets app: reads of the provider are observations,    *)
(* stored as incrementals (what differs from the mirror) in a log that all *)
(* devices of a user share, and the mirror, their fold, is projected onto  *)
(* the rows of a table (observations.ts, observationLog.ts,                *)
(* clockifyObserve.ts, sync.ts of integrations/timesheets/app).            *)
(*                                                                         *)
(* Each device runs passes: open the log, re-check the entries a list did  *)
(* not return, read the list page by page, append, compact, save the head, *)
(* write the rows.  Passes of two devices overlap freely; the entries      *)
(* change at Clockify between any two requests.  The store is external: a  *)
(* resource is read and saved as a whole, without compare-and-swap.        *)
(*                                                                         *)
(* A start time is a cell of time and a range a set of cells.  The list is *)
(* asked for a range and known to be complete for a part of it, which the  *)
(* user's time zone narrows.  receivedAt is read from the device's own     *)
(* clock, which may be behind; no two observations have the same one, so   *)
(* that it also names them.                                                *)
(***************************************************************************)
EXTENDS Naturals, FiniteSets, Sequences, SequencesExt

CONSTANTS
    Devices,
    Entries,       \* time entries, by id
    Cells,         \* start times, numbers
    Values,        \* what an entry may be: running or completed, its project if any
                   \* (for all that an entry need not have), and its start
    Starting,      \* what Clockify may hold before the first pass, the setting, and
                   \* bounds (left): passes, and changes at Clockify and failures
    PageSize,
    CompactAfter,  \* COMPACT_AFTER_INCREMENTALS
    None,
    MaxReads       \* bound: responses observed

VARIABLES
    clockify,   \* entry -> its value, Unborn or Gone
    incs,       \* receivedAt -> stored incremental, or None
    snaps,      \* the stored snapshots
    heads,      \* the stored log heads
    log,        \* the App's clockify-observation-log: a head, or 0
    rows,       \* the table's rows, in the order they were created
    clock,      \* responses observed so far
    setting,    \* the devices whose clock is behind (slow), the windows of a pass and
                \* the most pages a list may have (MAX_PAGES)
    dev,        \* each device's pass
    listed,     \* ghost: the incrementals some saved head listed
    overlap,    \* ghost: a pass ran while another device's was under way
    left        \* what is left of the bounds

store == <<incs, snaps, heads, log>>
ghosts == <<listed, overlap>>
vars == <<clockify, store, rows, clock, setting, dev, ghosts, left>>

Times == 1..2 * MaxReads + 3
NoProject == 0
Unborn == [done |-> FALSE, project |-> NoProject, at |-> 0]
Gone == [done |-> TRUE, project |-> NoProject, at |-> 0]
ASSUME ValuesAssumption == Values \subseteq [done : BOOLEAN, project : Nat, at : Cells \ {0}]
Live(e) == clockify[e] \notin {Unborn, Gone}

Max2(a, b) == IF a >= b THEN a ELSE b
Spend(what) == left[what] > 0 /\ left' = [left EXCEPT ![what] = @ - 1]

-----------------------------------------------------------------------------
(* observations.ts *)

NoRecord == [value |-> None, absentSince |-> 0, deletedAt |-> 0]
emptyMirror == [records |-> [e \in Entries |-> NoRecord], coverage |-> [c \in Cells |-> 0]]

Known(r) == r.value # None
rangeScope(known) == [type |-> "range", cells |-> known]
idScope(e) == [type |-> "id", id |-> e]

inScope(scope, e, r) ==
    /\ Known(r)
    /\ IF scope.type = "id" THEN e = scope.id ELSE r.value.at \in scope.cells

\* Every span keeps its latest confirmation.
mergeCoverage(a, b) == [c \in Cells |-> Max2(a[c], b[c])]
Covers(i) ==
    [c \in Cells |-> IF i.complete /\ i.scope.type = "range" /\ c \in i.scope.cells
                     THEN i.receivedAt ELSE 0]

\* Mutant: a record that came back is taken for unchanged.
DiffIgnoresAbsence(mirror, o) ==
    [receivedAt |-> o.receivedAt, scope |-> o.scope, complete |-> o.complete,
     upserts |-> [e \in {e \in DOMAIN o.records : mirror.records[e].value # o.records[e]}
                     |-> o.records[e]],
     absent |-> IF o.complete
                THEN {e \in Entries \ DOMAIN o.records :
                        LET r == mirror.records[e]
                        IN  /\ r.deletedAt = 0
                            /\ r.absentSince = 0 \/ o.scope.type = "id"
                            /\ inScope(o.scope, e, r)}
                ELSE {}]

\* Mutant: absence is concluded from every read.
DiffAccuses(mirror, o) ==
    [receivedAt |-> o.receivedAt, scope |-> o.scope, complete |-> o.complete,
     upserts |-> [e \in {e \in DOMAIN o.records :
                           mirror.records[e] # [NoRecord EXCEPT !.value = o.records[e]]}
                     |-> o.records[e]],
     absent |-> {e \in Entries \ DOMAIN o.records :
                    LET r == mirror.records[e]
                    IN  /\ r.deletedAt = 0
                        /\ r.absentSince = 0 \/ o.scope.type = "id"
                        /\ inScope(o.scope, e, r)}]

\* What of an observation is new against the mirror.
diffObservation(mirror, o) ==
    [receivedAt |-> o.receivedAt, scope |-> o.scope, complete |-> o.complete,
     upserts |-> [e \in {e \in DOMAIN o.records :
                           mirror.records[e] # [NoRecord EXCEPT !.value = o.records[e]]}
                     |-> o.records[e]],
     absent |-> IF o.complete
                THEN {e \in Entries \ DOMAIN o.records :
                        LET r == mirror.records[e]
                        IN  /\ r.deletedAt = 0
                            /\ r.absentSince = 0 \/ o.scope.type = "id"
                            /\ inScope(o.scope, e, r)}
                ELSE {}]

isEmpty(i) == DOMAIN i.upserts = {} /\ i.absent = {}

\* Mutant: what a list did not return is taken for deleted.
Deletes(i, e, r) ==
    [r EXCEPT !.deletedAt = i.receivedAt, !.absentSince = 0]

\* A point read that finds nothing confirms a deletion, a list only suspects it.
Absent(i, e, r) ==
    IF ~Known(r) THEN r
    ELSE IF i.scope.type = "id" THEN [r EXCEPT !.deletedAt = i.receivedAt, !.absentSince = 0]
    ELSE IF r.deletedAt = 0 /\ r.absentSince = 0 THEN [r EXCEPT !.absentSince = i.receivedAt]
    ELSE r

applyIncremental(mirror, i) ==
    [records |-> [e \in Entries |->
                    IF e \in DOMAIN i.upserts THEN [NoRecord EXCEPT !.value = i.upserts[e]]
                    ELSE IF e \in i.absent THEN Absent(i, e, mirror.records[e])
                    ELSE mirror.records[e]],
     coverage |-> mergeCoverage(mirror.coverage, Covers(i))]

\* Incrementals are folded by (receivedAt, id).
fold(base, times) ==
    FoldLeft(LAMBDA m, t : applyIncremental(m, incs[t]), base, SetToSortSeq(times, <))

-----------------------------------------------------------------------------
(* observationLog.ts: reading the log *)

\* Every incremental the snapshots back from s absorbed.
chain[s \in 0..Len(snaps)] ==
    IF s = 0 THEN {} ELSE snaps[s].compacted \cup chain[snaps[s].previous]

\* Mutant: a late incremental is folded on top of the snapshot.
FoldedOnTop(head) ==
    LET folded == fold(snaps[head.snapshot].mirror, head.tail)
    IN  [folded EXCEPT !.coverage = mergeCoverage(@, head.coverage)]

\* ObservationLog.open: snapshot and tail, or the whole log when an
\* incremental of the tail sorts before the snapshot's cut.
Opened(head) ==
    LET snapshot == snaps[head.snapshot]
        late == \E t \in head.tail : t <= snapshot.cut
        folded == IF late THEN fold(emptyMirror, chain[head.snapshot] \cup head.tail)
                  ELSE fold(snapshot.mirror, head.tail)
    IN  [folded EXCEPT !.coverage = mergeCoverage(@, head.coverage)]

\* ObservationLog.replay
Replayed(head) ==
    LET folded == fold(emptyMirror, chain[head.snapshot] \cup head.tail)
    IN  [folded EXCEPT !.coverage = mergeCoverage(@, head.coverage)]

-----------------------------------------------------------------------------
(* A device's pass: syncClockify *)

NoHead == [snapshot |-> 0, cut |-> 0, tail |-> {}, coverage |-> emptyMirror.coverage]

IdlePass ==
    [pc |-> "idle", window |-> [query |-> {}, known |-> {}], head |-> 0, state |-> NoHead, mirror |-> emptyMirror,
     dirty |-> FALSE, candidates |-> {}, page |-> 0, read |-> <<>>, failed |-> FALSE,
     own |-> {}, todo |-> {}, calm |-> TRUE]

At(d, pc) == dev[d].pc = pc
Set(d, p) == dev' = [dev EXCEPT ![d] = p]
Others(d) == {x \in Devices \ {d} : ~At(x, "idle")}

\* What disturbs the passes of the other devices.
Disturb(d, p) ==
    dev' = [x \in Devices |-> IF x = d THEN p ELSE [dev[x] EXCEPT !.calm = FALSE]]

absenceCandidates(mirror) ==
    {e \in Entries : mirror.records[e].absentSince # 0 /\ mirror.records[e].deletedAt = 0}

\* The log is opened; the entries to re-check are decided here.
Start(d) ==
    /\ At(d, "idle") /\ Spend("passes")
    /\ \E window \in setting.windows :
          LET state == IF log = 0 THEN NoHead ELSE heads[log]
              mirror == IF log = 0 THEN emptyMirror ELSE Opened(state)
          IN  Disturb(d, [IdlePass EXCEPT !.pc = "recheck", !.window = window, !.head = log,
                                          !.state = state, !.mirror = mirror, !.page = 1,
                                          !.candidates = absenceCandidates(mirror),
                                          !.calm = Others(d) = {}])
    /\ overlap' = (overlap \/ Others(d) # {})
    /\ UNCHANGED <<clockify, store, rows, clock, setting, listed>>

\* append: the incremental is stored if it changed anything, and folded in.
Append_(d, o, p) ==
    LET i == diffObservation(p.mirror, o)
        t == o.receivedAt
    IN  /\ incs' = IF isEmpty(i) THEN incs ELSE [incs EXCEPT ![t] = i]
        /\ Disturb(d, [p EXCEPT
              !.mirror = applyIncremental(@, i),
              !.state.tail = IF isEmpty(i) THEN @ ELSE @ \cup {t},
              !.state.coverage = mergeCoverage(@, Covers(i)),
              !.dirty = TRUE])

Received == clock < MaxReads /\ clock' = clock + 1 /\ UNCHANGED setting
\* A slow clock puts a response before the one that came before it.
receivedAt(d) == 2 * clock' + IF d \in setting.slow THEN 0 ELSE 3

NextCandidate(d) == CHOOSE e \in dev[d].candidates : TRUE

\* A candidate is read by id: it is there, or Clockify says it is gone.
Recheck(d) ==
    /\ At(d, "recheck") /\ dev[d].candidates # {}
    /\ Received
    /\ LET e == NextCandidate(d)
       IN  Append_(d, [receivedAt |-> receivedAt(d), scope |-> idScope(e), complete |-> TRUE,
                       records |-> [x \in {x \in {e} : Live(x)} |-> clockify[x]]],
                   [dev[d] EXCEPT !.candidates = @ \ {e}])
    /\ UNCHANGED <<clockify, snaps, heads, log, rows, ghosts, left>>

\* That failed: a warning, and the candidate stays one.
RecheckFails(d) ==
    /\ At(d, "recheck") /\ dev[d].candidates # {}
    /\ Spend("events")
    /\ Set(d, [dev[d] EXCEPT !.candidates = @ \ {NextCandidate(d)}])
    /\ UNCHANGED <<clockify, store, rows, clock, setting, ghosts>>

\* The list: newest start first.
Listing(window) ==
    SetToSortSeq({e \in Entries : Live(e) /\ clockify[e].at \in window},
                 LAMBDA a, b : clockify[a].at > clockify[b].at)

PageOf(window, k) ==
    LET all == Listing(window)
    IN  SubSeq(all, (k - 1) * PageSize + 1, IF k * PageSize < Len(all) THEN k * PageSize ELSE Len(all))

\* readRange, one page; a later copy of an entry replaces an earlier one.
ReadPage(d) ==
    /\ At(d, "recheck") /\ dev[d].candidates = {}
    /\ LET p == dev[d]
           items == PageOf(p.window.query, p.page)
           read == [e \in DOMAIN p.read \cup ToSet(items) |->
                      IF e \in ToSet(items) THEN clockify[e] ELSE p.read[e]]
           last == Len(items) < PageSize
       IN  Set(d, [p EXCEPT !.read = read, !.page = @ + 1,
                            !.failed = ~last /\ p.page = setting.pages,
                            !.pc = IF last \/ p.page = setting.pages THEN "append" ELSE "recheck"])
    /\ UNCHANGED <<clockify, store, rows, clock, setting, ghosts, left>>

\* A failure on the first page observes nothing, on a later one it ends the read.
PageFails(d) ==
    /\ At(d, "recheck") /\ dev[d].candidates = {}
    /\ Spend("events")
    /\ Set(d, [dev[d] EXCEPT !.failed = TRUE,
                             !.pc = IF dev[d].page = 1 THEN "flush" ELSE "append"])
    /\ UNCHANGED <<clockify, store, rows, clock, setting, ghosts>>

\* ensureHead: the first append of an app without a log makes head and
\* snapshot, and only then does the App name them.
EnsureHead(d) ==
    /\ At(d, "append") /\ dev[d].head = 0
    /\ LET first == [mirror |-> emptyMirror, cut |-> 0, previous |-> 0, compacted |-> {}]
           state == [NoHead EXCEPT !.snapshot = Len(snaps) + 1]
       IN  /\ snaps' = Append(snaps, first)
           /\ heads' = Append(heads, state)
           /\ log' = Len(heads) + 1
           /\ Disturb(d, [dev[d] EXCEPT !.head = Len(heads) + 1, !.state = state])
    /\ UNCHANGED <<clockify, incs, rows, clock, setting, listed, overlap, left>>

AppendRange(d) ==
    /\ At(d, "append") /\ dev[d].head # 0
    /\ Received
    /\ LET p == dev[d]
       IN  Append_(d, [receivedAt |-> receivedAt(d), scope |-> rangeScope(p.window.known), records |-> p.read,
                       complete |-> ~p.failed],
                   [p EXCEPT !.read = <<>>, !.pc = "flush"])
    /\ UNCHANGED <<clockify, snaps, heads, log, rows, ghosts, left>>

\* Mutant: the new snapshot does not name what it absorbed.
WriteSnapshotForgets(p) ==
    [mirror |-> p.mirror, previous |-> p.state.snapshot, compacted |-> {},
     cut |-> CHOOSE t \in p.state.tail \cup {p.state.cut} :
                \A u \in p.state.tail \cup {p.state.cut} : u <= t]

\* writeSnapshot
NewSnapshot(p) ==
    [mirror |-> p.mirror, previous |-> p.state.snapshot, compacted |-> p.state.tail,
     cut |-> CHOOSE t \in p.state.tail \cup {p.state.cut} :
                \A u \in p.state.tail \cup {p.state.cut} : u <= t]

AfterFlush(p) == IF p.failed THEN IdlePass ELSE [p EXCEPT !.pc = "project"]

\* flush: the stored head is read again and what others added to the same
\* snapshot's tail is kept.
Merged(p) ==
    LET stored == heads[p.head]
    IN  IF ~p.dirty \/ p.head = 0 THEN AfterFlush(p)
        ELSE IF stored.snapshot = p.state.snapshot
             THEN [p EXCEPT !.pc = "save", !.state.tail = @ \cup stored.tail,
                            !.state.coverage = mergeCoverage(@, stored.coverage)]
             ELSE [p EXCEPT !.pc = "save"]

\* compactIfNeeded, after a complete read, and the start of flush.
CompactAndMerge(d) ==
    /\ At(d, "flush")
    /\ LET p == dev[d]
           snapshot == NewSnapshot(p)
       IN  IF p.failed \/ Cardinality(p.state.tail) < CompactAfter
           THEN Set(d, Merged(p)) /\ UNCHANGED snaps
           ELSE /\ snaps' = Append(snaps, snapshot)
                /\ Set(d, Merged([p EXCEPT !.state.snapshot = Len(snaps) + 1,
                                           !.state.cut = snapshot.cut, !.state.tail = {}]))
    /\ UNCHANGED <<clockify, incs, heads, log, rows, clock, setting, ghosts, left>>

\* ... and it is saved.
FlushSave(d) ==
    /\ At(d, "save")
    /\ LET p == dev[d]
       IN  /\ heads' = [heads EXCEPT ![p.head] = p.state]
           /\ listed' = IF p.head = log
                        THEN listed \cup p.state.tail \cup chain[p.state.snapshot] ELSE listed
           /\ Disturb(d, AfterFlush(p))
    /\ UNCHANGED <<clockify, incs, snaps, log, rows, clock, setting, overlap, left>>

\* projectRows: the rows of the table are listed, then the mirror's entries
\* are written one by one, but for running timers.
Shown(r) == Known(r) /\ r.deletedAt = 0 /\ r.value.done
Project(d) ==
    /\ At(d, "project")
    /\ Set(d, [dev[d] EXCEPT !.pc = "rows", !.own = {n \in DOMAIN rows : rows[n].entry # None},
                             !.todo = {e \in Entries : LET r == dev[d].mirror.records[e]
                                                       IN  Shown(r) \/ r.deletedAt # 0}])
    /\ UNCHANGED <<clockify, store, rows, clock, setting, ghosts, left>>

RowsOf(e) == {n \in DOMAIN rows : rows[n].entry = e}

\* rowValues and what is set of them: a value that the entry does not have is
\* neither compared nor removed.
RowValue(old, v) == IF v.project = NoProject THEN [v EXCEPT !.project = old.project] ELSE v

ProjectEntry(d) ==
    /\ At(d, "rows") /\ dev[d].todo # {}
    /\ LET p == dev[d]
           e == CHOOSE e \in p.todo : \A x \in p.todo : Shown(p.mirror.records[x]) => Shown(p.mirror.records[e])
           r == p.mirror.records[e]
           mine == RowsOf(e) \cap p.own
           done == [p EXCEPT !.todo = @ \ {e}]
       IN  IF Shown(r)
           THEN IF mine = {}
                THEN /\ rows' = Append(rows, [entry |-> e, value |-> r.value])
                     /\ Disturb(d, [done EXCEPT !.own = @ \cup {Len(rows) + 1}])
                ELSE \E n \in mine :
                        /\ rows' = [rows EXCEPT ![n].value = RowValue(@, r.value)]
                        /\ Disturb(d, done)
           ELSE IF mine = {}
                THEN UNCHANGED rows /\ Set(d, done)
                ELSE \E n \in mine :
                        /\ rows' = [rows EXCEPT ![n] = [entry |-> None, value |-> r.value]]
                        /\ Disturb(d, done)
    /\ UNCHANGED <<clockify, store, clock, setting, ghosts, left>>

Finish(d) ==
    /\ At(d, "rows") /\ dev[d].todo = {}
    /\ Set(d, IdlePass)
    /\ UNCHANGED <<clockify, store, rows, clock, setting, ghosts, left>>

\* The frame is closed, or a call to the store fails outside a try.
Stop(d) ==
    /\ ~At(d, "idle") /\ Spend("events")
    /\ Set(d, IdlePass)
    /\ UNCHANGED <<clockify, store, rows, clock, setting, ghosts>>

-----------------------------------------------------------------------------
(* Clockify *)

\* An entry is started, completed, resumed, changed, moved or deleted; its id is not used again.
Change(e) ==
    /\ Spend("events")
    /\ \/ clockify[e] = Unborn /\ \E v \in Values : clockify' = [clockify EXCEPT ![e] = v]
       \/ Live(e) /\ \E v \in Values \ {clockify[e]} : clockify' = [clockify EXCEPT ![e] = v]
       \/ Live(e) /\ clockify' = [clockify EXCEPT ![e] = Gone]
    /\ dev' = [x \in Devices |-> [dev[x] EXCEPT !.calm = At(x, "idle")]]
    /\ UNCHANGED <<store, rows, clock, setting, ghosts>>

-----------------------------------------------------------------------------
Init ==
    /\ incs = [t \in Times |-> None] /\ snaps = <<>> /\ heads = <<>> /\ log = 0
    /\ rows = <<>> /\ clock = 0
    /\ dev = [d \in Devices |-> IdlePass]
    /\ listed = {} /\ overlap = FALSE
    /\ \E start \in Starting :
          /\ clockify = start.entries /\ setting = start.setting
          /\ left = start.left

Step(d) ==
    \/ Start(d) \/ Recheck(d) \/ RecheckFails(d) \/ ReadPage(d) \/ PageFails(d) \/ EnsureHead(d)
    \/ AppendRange(d) \/ CompactAndMerge(d) \/ FlushSave(d) \/ Project(d)
    \/ ProjectEntry(d) \/ Finish(d) \/ Stop(d)

Next ==
    \/ \E d \in Devices : Step(d)
    \/ \E e \in Entries : Change(e)

Spec == Init /\ [][Next]_vars

-----------------------------------------------------------------------------
(* Properties. *)

InLog == IF log = 0 THEN {} ELSE heads[log].tail \cup chain[heads[log].snapshot]

\* "snapshot + tail equals the full fold" (README): whatever the devices
\* stored, also late and across compactions, opening the log gives the mirror
\* that replaying every incremental gives.  Assumed: the head's snapshot was
\* taken of a mirror folded in order, which a pass of a device whose clock is
\* behind, appending to what it opened, does not do.
InOrder(s) == snaps[s].mirror.records = fold(emptyMirror, chain[s]).records
OpenEqualsReplay ==
    log # 0 /\ InOrder(heads[log].snapshot) => Opened(heads[log]) = Replayed(heads[log])

\* "Nothing is pruned": as long as no two passes overlapped, every incremental
\* a saved head listed is in its tail or absorbed by a snapshot of its chain.
LogKept == ~overlap => listed \subseteq InLog

\* A row is destroyed only after Clockify deleted its entry: not because a
\* page shifted, a read was cut short, the entry left the window or a deletion
\* was seen by another device.
DestroyedWasDeleted ==
    [][\A n \in DOMAIN rows : rows[n].entry # None /\ rows'[n].entry = None
          => clockify[rows[n].entry] = Gone]_vars

\* A row has all that the entry's value v has.
Shows(row, v) ==
    /\ row.done = v.done /\ row.at = v.at
    /\ v.project # NoProject => row.project = v.project

\* After a pass during which neither Clockify nor another device did anything,
\* the table shows Clockify's entries: every completed entry of the window has a
\* row with what the entry has, and is not suspected to be gone; an entry that
\* is gone is known or suspected to be.  What an entry does not have may be left
\* in its row from before.
PassMirrors ==
    \A d \in Devices : At(d, "rows") /\ dev[d].todo = {} /\ dev[d].calm =>
        \A e \in Entries :
            LET r == dev[d].mirror.records[e]
            IN  /\ Live(e) /\ clockify[e].at \in dev[d].window.query =>
                      /\ r = [NoRecord EXCEPT !.value = clockify[e]]
                      /\ clockify[e].done => \E n \in RowsOf(e) : Shows(rows[n].value, clockify[e])
                /\ clockify[e] = Gone /\ inScope(rangeScope(dev[d].window.known), e, r) =>
                      r.absentSince # 0 \/ r.deletedAt # 0

\* "it proves no absence": a read that failed on a later page or met the page
\* limit makes no entry suspect that Clockify still has in the range asked for;
\* nor does a complete one, unless something changed while it was read.
NoFalseSuspect ==
    \A d \in Devices : At(d, "flush") /\ dev[d].calm =>
        \A e \in absenceCandidates(dev[d].mirror) :
            Live(e) /\ clockify[e].at \in dev[d].window.query =>
                e \in absenceCandidates(Opened(heads[dev[d].head]))

=============================================================================
