----------------------------- MODULE CalendarApp -----------------------------
(***************************************************************************)
(* The Calendar plugin, integrations/calendar: a table with one row per     *)
(* Google event, previews that bring Google's edits in, and a reviewed send *)
(* that takes local edits out.  The controller's asynchronous operations    *)
(* (refresh, send, connect) are jobs whose steps interleave with the person *)
(* in the app, with edits in the host's own table and with Google.          *)
(*                                                                         *)
(* An event's value is its start and end; a value is valid when it ends     *)
(* after it starts.  Google's versions of an event are a sequence and an    *)
(* ETag is a position in it.                                                *)
(***************************************************************************)
EXTENDS Naturals, Sequences, FiniteSets

CONSTANTS
    N,            \* events 1..N, read one per page in this order
    MaxRows,      \* rows the table may hold
    NoRow, None,  \* "no such row", "no such value": model values
    Clock,        \* start and end are in 0..Clock
    MaxVersions,  \* bound: no send once an event has this many versions
    MaxEvents,    \* bound: edits, discards, cancellations, refusals, lost calls,
                  \* store failures, reloads and reconnections in one behaviour
    MaxSaves      \* bound: operations of the person waiting for their row to be stored

ASSUME CalendarAssumption ==
    /\ N \in Nat \ {0} /\ MaxRows \in Nat \ {0} /\ Clock \in Nat /\ Clock >= 2
    /\ MaxVersions \in Nat /\ MaxEvents \in Nat \ {0} /\ MaxSaves \in Nat \ {0}

VARIABLES
    versions,   \* Google: event -> the sequence of its values
    gone,       \* Google: the events cancelled since
    delegated,  \* proxy: connections delegated to this app
    rows,       \* table: row id -> row
    madeFor,    \* table: row id -> the event it was created for, 0 when not drawn yet
    onTable,    \* table: a calendar was chosen
    kind,       \* controller: state.kind
    last,       \* controller: the last preview, or None
    offer,      \* controller: state.summary, what "ready" shows and send() takes
    stale,      \* controller: local changes since the last preview
    connections,\* controller: how many connections are left to try
    calendar,   \* controller: calendarId is known
    jobs,       \* refreshes under way: at most two
    sending,    \* the send under way
    asked,      \* the host's consent bar is open
    countdown,  \* main.ts: a rate-limited refresh is to be tried again
    saved,      \* what the person stored and whose operation has not gone on yet
    untracked,  \* ghost: rows changed where the running preview cannot see it
    interrupted,\* ghost: Connect or Disconnect was used while a job ran, or the
                \* countdown ended while the consent bar was open
    left        \* how many of MaxEvents are left

google == <<versions, gone, delegated>>
table  == <<rows, madeFor, onTable>>
view   == <<kind, last, offer, stale, connections, calendar>>
ghosts == <<untracked, interrupted>>
app    == <<asked, countdown, saved>>
vars   == <<google, table, view, jobs, sending, app, ghosts, left>>

Events == 1..N
RowIds == 1..MaxRows
Fields == {"start", "end"}
Values == [Fields -> 0..Clock]
Valid(v) == v.start < v.end
ValidValues == {v \in Values : Valid(v)}
(* An edit changes one field.                                              *)
EditsOf(v) == {[v EXCEPT ![f] = t] : f \in Fields, t \in 0..Clock} \ {v}

R == INSTANCE ReconcileRecord WITH
       Properties <- Fields, Absent <- None, Null <- NoRow, Undefined <- None

Spend == left > 0 /\ left' = left - 1

-----------------------------------------------------------------------------
(* Rows.  A row with event 0 was made or kept here: it has no binding.     *)

Row == [event : 0..N, val : Values, base : ValidValues \cup {None}, etag : Nat]
ASSUME ModelValuesAssumption == NoRow \notin Row \cup Values /\ None \notin Values
Table == [RowIds -> Row \cup {NoRow}]
Bound(table_, r) == table_[r] # NoRow /\ table_[r].event # 0
Pending(r) == Bound(rows, r) /\ rows[r].val # rows[r].base
Current(e) == versions[e][Len(versions[e])]

(* host().cards(): a row that cannot be sent is held back, its baseline     *)
(* standing in for it.                                                     *)
Card(row) == IF Valid(row.val) THEN row.val ELSE row.base

(* The row an event is bound to in a snapshot of the table.                *)
RowsOf(snap, e) == {r \in RowIds : Bound(snap, r) /\ snap[r].event = e}
RowOf(snap, e) == CHOOSE r \in RowsOf(snap, e) : TRUE

-----------------------------------------------------------------------------
(* adapter.preview(): what the pages read (seen: event -> ETag, 0 when not  *)
(* there) and the rows as they were before the first page give.            *)

Remote(seen, e) == versions[e][seen[e]]
BothChanged(snap, seen, e) ==
    /\ seen[e] # 0 /\ RowsOf(snap, e) # {}
    /\ LET row == snap[RowOf(snap, e)]
       IN  R!Decision(row.base, Card(row), Remote(seen, e)).conflict
MissingRemote(snap, seen, e) == seen[e] = 0 /\ RowsOf(snap, e) # {}
\* Mutant: Google's value wins.
DesiredRemote(snap, seen, e) == Remote(seen, e)
Desired(snap, seen, e) ==
    IF RowsOf(snap, e) = {} THEN Remote(seen, e)
    ELSE LET row == snap[RowOf(snap, e)]
         IN  R!Merged(row.base, Card(row), Remote(seen, e))
Changes(snap, seen) ==
    {e \in Events : seen[e] # 0 /\ ~BothChanged(snap, seen, e)}
PreviewFails(snap, seen) ==
    \/ \E e \in Events : Cardinality(RowsOf(snap, e)) > 1
    \/ \E e \in Changes(snap, seen) : ~Valid(Desired(snap, seen, e))

Conflicts(snap, seen) ==
    {[row |-> RowOf(snap, e), etag |-> seen[e],
      kind |-> IF seen[e] = 0 THEN "missing-remote" ELSE "both",
      base |-> snap[RowOf(snap, e)].base, local |-> Card(snap[RowOf(snap, e)]),
      remote |-> IF seen[e] = 0 THEN None ELSE Remote(seen, e)] :
       e \in {e \in Events : BothChanged(snap, seen, e) \/ MissingRemote(snap, seen, e)}}

(* The changes refresh() goes through: a row held back is left alone.       *)
Applied(snap, seen) ==
    {e \in Changes(snap, seen) :
       RowsOf(snap, e) = {} \/ Valid(snap[RowOf(snap, e)].val)}

(* The PendingEdit list: planEdit() gives one for each row that differs.    *)
Review(snap, seen) ==
    {[row |-> RowOf(snap, e), event |-> e, etag |-> seen[e],
      remote |-> Remote(seen, e), desired |-> Desired(snap, seen, e)] :
       e \in {e \in Applied(snap, seen) :
                RowsOf(snap, e) # {} /\ Desired(snap, seen, e) # Remote(seen, e)}}

-----------------------------------------------------------------------------
(* Jobs.                                                                    *)

JobIds == {1, 2}
NoJob == [pc |-> "idle", snap |-> None, seen |-> None, at |-> 0]
Running(j) == jobs[j].pc # "idle"
NotSending == [pc |-> "idle", queue |-> {}, conflicts |-> {}, etag |-> 0, lost |-> FALSE]

Working == sending.pc \in {"layout", "patch", "confirm"} \/ \E j \in JobIds : Running(j)

(* readRows() and the start of the scan.                                   *)
NewJob == [pc |-> "scan", snap |-> rows, seen |-> [e \in Events |-> 0], at |-> 1]

(* fail(): the error state, with the last preview still shown under it.     *)
Fail == kind' = "error"

(* Operations of the person that wait for their row: what they do when it   *)
(* is stored, and what they drop from the preview.  A new preview has       *)
(* nothing an earlier operation would drop.                                *)
SaveIds == 1..MaxSaves
NoSave == [does |-> "none", row |-> 1, item |-> None]
NoSaves == [i \in SaveIds |-> NoSave]
Waits(i) == saved[i].does # "none"
Superseded(s) ==
    IF s.does = "discard" THEN NoSave
    ELSE IF s.does = "settle" THEN [s EXCEPT !.does = "edit", !.item = None] ELSE s

(* What controller.refresh() does when it is called and not refused: start  *)
(* a job, or list the calendars when none is chosen.                       *)
Begin(chosen) ==
    /\ kind' = "refreshing"
    /\ IF chosen
       THEN \E j \in JobIds :
              /\ ~Running(j) /\ \A i \in JobIds : i < j => Running(i)
              /\ jobs' = [jobs EXCEPT ![j] = NewJob]
              /\ untracked' = IF \E i \in JobIds : Running(i)
                              THEN untracked ELSE {}
       ELSE UNCHANGED <<jobs, untracked>>

\* Mutant: a refresh does not count as busy.
BusySending == kind = "sending"
Busy == kind \in {"refreshing", "sending"}

(* main.ts screen(): the calendar and its menus are drawn in these states,  *)
(* once a calendar is chosen; the other states have a screen of their own. *)
Shown == calendar /\ kind \in {"refreshing", "ready", "sending", "error"}

CanSend == Shown /\ kind = "ready" /\ ~stale /\ offer.review # {}
(* The review sheet lists the state's summary, or the last preview.         *)
Reviewed == IF kind = "ready" THEN offer.review ELSE IF last = None THEN {} ELSE last.review
CanDiscard(p) == Shown /\ kind # "sending" /\ p \in Reviewed
CanSettle(c) == Shown /\ last # None /\ c \in last.conflicts

-----------------------------------------------------------------------------
(* Opening, connecting, choosing.                                           *)

(* load(): the connection, then the calendar, then one refresh.            *)
LoadWith(n) ==
    /\ connections' = n
    /\ IF n = 0
       THEN kind' = "disconnected" /\ UNCHANGED <<calendar, jobs, untracked>>
       ELSE /\ calendar' = (calendar \/ onTable)
            /\ IF onTable /\ Busy THEN UNCHANGED <<kind, jobs, untracked>>
               ELSE Begin(onTable)
Load ==
    /\ kind = "loading" /\ LoadWith(delegated)
    /\ UNCHANGED <<google, table, last, offer, stale, sending, app, interrupted, left>>

(* listCalendars() answers, or fails.                                      *)
Listed ==
    /\ kind = "refreshing" /\ ~calendar
    /\ \/ connections > 0 /\ delegated > 0 /\ kind' = "choosing"
          /\ UNCHANGED <<connections, countdown, left>>
       \/ delegated = 0 /\ Fail /\ connections' = 0 /\ UNCHANGED <<countdown, left>>
       \/ Spend /\ Fail /\ countdown' \in {countdown, TRUE} /\ UNCHANGED connections
    /\ UNCHANGED <<google, table, last, offer, stale, calendar, jobs, sending, asked, saved, ghosts>>

Choose ==
    /\ kind = "choosing"
    /\ \/ /\ onTable' = TRUE /\ calendar' = TRUE /\ Begin(TRUE)
          /\ UNCHANGED left
       \/ /\ Spend /\ Fail
          /\ UNCHANGED <<onTable, calendar, jobs, untracked>>
    /\ UNCHANGED <<google, rows, madeFor, last, offer, stale, connections, sending, app, interrupted>>

(* Connect on the first screen, Reconnect in the menu and in a banner: the  *)
(* menu offers it whatever runs.                                           *)
Connect ==
    /\ kind = "disconnected" \/ Shown \/ kind = "error"
    /\ Spend
    /\ kind' = "connecting" /\ asked' = TRUE
    /\ countdown' \in {countdown, FALSE}  \* the banner's button clears it
    /\ interrupted' = (interrupted \/ Working)
    /\ UNCHANGED <<google, table, last, offer, stale, connections, calendar, jobs, sending, saved,
                   untracked>>

Connected ==
    /\ asked /\ asked' = FALSE
    /\ delegated' = (IF delegated = 0 THEN 1 ELSE delegated) /\ LoadWith(delegated')
    /\ UNCHANGED <<versions, gone, table, last, offer, stale, sending, countdown, saved, interrupted, left>>

ConnectFails ==
    /\ asked /\ asked' = FALSE
    /\ \/ kind' = "disconnected" /\ UNCHANGED left
       \/ Spend /\ Fail
    /\ UNCHANGED <<google, table, last, offer, stale, connections, calendar, jobs, sending, countdown, saved,
                   ghosts>>

CancelConnect ==
    /\ kind = "connecting" /\ kind' = "disconnected"
    /\ UNCHANGED <<google, table, last, offer, stale, connections, calendar, jobs, sending, app,
                   ghosts, left>>

Disconnect ==
    /\ Shown /\ Spend
    /\ delegated' = 0 /\ connections' = 0 /\ kind' = "disconnected"
    /\ interrupted' = (interrupted \/ Working)
    /\ UNCHANGED <<versions, gone, table, last, offer, stale, calendar, jobs, sending, app, untracked>>

(* The frame is closed and opened again, or leaves to connect an account:   *)
(* everything in memory is gone, mid-refresh and mid-send.                 *)
Reload ==
    /\ Spend
    /\ kind' = "loading" /\ last' = None /\ offer' = None /\ stale' = FALSE
    /\ connections' = 0 /\ calendar' = FALSE
    /\ asked' = FALSE /\ countdown' = FALSE /\ saved' = NoSaves
    /\ jobs' = [j \in JobIds |-> NoJob] /\ sending' = NotSending
    /\ UNCHANGED <<google, table, ghosts>>

-----------------------------------------------------------------------------
(* refresh().                                                              *)

Refresh ==
    /\ ~Busy /\ (Shown \/ kind = "error")
    /\ Begin(calendar) /\ countdown' \in {countdown, countdown /\ kind # "error"}
    /\ UNCHANGED <<google, table, last, offer, stale, connections, calendar, sending, asked, saved,
                   interrupted, left>>

(* retryIn(): the countdown of the rate-limit banner ends, whatever the     *)
(* state is by then.                                                       *)
Retry ==
    /\ countdown /\ countdown' = FALSE
    /\ IF Busy THEN UNCHANGED <<kind, jobs, ghosts>>
       ELSE Begin(calendar) /\ interrupted' = (interrupted \/ asked)
    /\ UNCHANGED <<google, table, last, offer, stale, connections, calendar, sending, asked, saved, left>>

Ended(j) == jobs' = [jobs EXCEPT ![j] = NoJob]

(* One page; after the last one preview() reconciles what was read with the *)
(* rows read before the first page, and throws for all when it must.       *)
ReadPage(j) ==
    /\ jobs[j].pc = "scan" /\ delegated > 0
    /\ LET e    == jobs[j].at
           seen == [jobs[j].seen EXCEPT ![e] = IF e \in gone THEN 0 ELSE Len(versions[e])]
       IN  IF e < N
           THEN jobs' = [jobs EXCEPT ![j].seen = seen, ![j].at = e + 1] /\ UNCHANGED kind
           ELSE IF PreviewFails(jobs[j].snap, seen)
           THEN Ended(j) /\ Fail
           ELSE /\ jobs' = [jobs EXCEPT ![j].seen = seen, ![j].at = 1, ![j].pc = "apply"]
                /\ UNCHANGED kind
    /\ UNCHANGED <<google, table, last, offer, stale, connections, calendar, sending, app, ghosts,
                   left>>

(* A read the proxy refuses with "Connect again": the connection is spent,  *)
(* and the whole operation starts over with the next one, if there is one. *)
SpentConnection(j) ==
    /\ jobs[j].pc = "scan"
    /\ \/ delegated = 0 /\ connections' = 0 /\ UNCHANGED <<delegated, left>>
       \/ /\ delegated > 0 /\ connections > 0 /\ Spend
          /\ delegated' = delegated - 1 /\ connections' = connections - 1
    /\ IF connections' = 0
       THEN Ended(j) /\ Fail
       ELSE jobs' = [jobs EXCEPT ![j] = NewJob] /\ UNCHANGED kind
    /\ UNCHANGED <<versions, gone, table, last, offer, stale, calendar, sending, app, ghosts>>

(* Any other failure of a read or of the store ends the refresh; rows       *)
(* written so far stay.  A 429 may say when to try again.                  *)
RefreshFails(j) ==
    /\ Running(j) /\ Spend
    /\ Ended(j) /\ Fail
    /\ countdown' \in {countdown, countdown \/ jobs[j].pc = "scan"}
    /\ UNCHANGED <<google, table, last, offer, stale, connections, calendar, sending, asked, saved,
                   ghosts>>

(* One change: a new row under a subject never used before, or the row of   *)
(* the snapshot written back with the merged value and the new bookkeeping. *)
(* Save stores the whole snapshot.                                         *)
ApplyChange(j) ==
    /\ jobs[j].pc = "apply" /\ jobs[j].at <= N
    /\ LET snap == jobs[j].snap
           seen == jobs[j].seen
           e    == jobs[j].at
           row  == [event |-> e, val |-> Desired(snap, seen, e),
                    base |-> Remote(seen, e), etag |-> seen[e]]
           free == {r \in RowIds : madeFor[r] = 0}
       IN  IF e \notin Applied(snap, seen) THEN UNCHANGED <<rows, madeFor>>
           ELSE IF RowsOf(snap, e) = {}
           THEN \E r \in free :
                  /\ \A q \in free : r <= q
                  /\ rows' = [rows EXCEPT ![r] = row] /\ madeFor' = [madeFor EXCEPT ![r] = e]
           ELSE /\ rows' = IF snap[RowOf(snap, e)] = row THEN rows
                           ELSE [rows EXCEPT ![RowOf(snap, e)] = row]
                /\ UNCHANGED madeFor
    /\ jobs' = [jobs EXCEPT ![j].at = @ + 1]
    /\ UNCHANGED <<google, onTable, view, sending, app, ghosts, left>>

(* The new preview takes the place of the last, then reload() reads the     *)
(* rows and the preview is shown as it was, whatever became of the last.    *)
Summary(j) == [review |-> Review(jobs[j].snap, jobs[j].seen),
               conflicts |-> Conflicts(jobs[j].snap, jobs[j].seen), sent |-> FALSE]
FinishRefresh(j) ==
    /\ jobs[j].pc = "apply" /\ jobs[j].at = N + 1
    /\ last' = Summary(j) /\ stale' = FALSE
    /\ saved' = [i \in SaveIds |-> Superseded(saved[i])]
    /\ jobs' = [jobs EXCEPT ![j].pc = "reload"]
    /\ UNCHANGED <<google, table, kind, offer, connections, calendar, sending, asked, countdown,
                   ghosts, left>>
Reloaded(j) ==
    /\ jobs[j].pc = "reload" /\ Ended(j)
    /\ kind' = "ready" /\ offer' = Summary(j)
    /\ UNCHANGED <<google, table, last, stale, connections, calendar, sending, app, ghosts, left>>

-----------------------------------------------------------------------------
(* send(): one PATCH per reviewed edit, in order, once the layout is read.  *)

Send ==
    /\ CanSend /\ sending.pc \in {"idle", "wedged"}
    /\ \A p \in offer.review : Len(versions[p.event]) < MaxVersions
    /\ kind' = "sending"
    /\ sending' = [pc |-> "layout", queue |-> offer.review, conflicts |-> offer.conflicts,
                   etag |-> 0, lost |-> FALSE]
    /\ UNCHANGED <<google, table, last, offer, stale, connections, calendar, jobs, app, ghosts, left>>

LayoutRead ==
    /\ sending.pc = "layout"
    /\ \/ /\ connections > 0 /\ sending' = [sending EXCEPT !.pc = "patch"]
          /\ UNCHANGED <<kind, left>>
       \/ /\ sending' = NotSending /\ Fail
          /\ IF connections = 0 THEN UNCHANGED left ELSE Spend
    /\ UNCHANGED <<google, table, last, offer, stale, connections, calendar, jobs, app, ghosts>>

First == CHOOSE p \in sending.queue : \A q \in sending.queue : p.event <= q.event
Sends == sending.pc = "patch" /\ sending.queue # {} /\ ~sending.lost
Advance == sending' = [sending EXCEPT !.queue = @ \ {First}, !.pc = "patch"]

(* planEdit(): only the fields the edit touches are in the patch.          *)
Patched(p) == [f \in Fields |-> IF p.desired[f] # p.remote[f]
                               THEN p.desired[f] ELSE Current(p.event)[f]]
\* Mutant: the event is asked for its ETag when the edit is sent.
IfMatchLatest(p) == Len(versions[p.event])
(* applyEdit() sends the ETag the preview read.                            *)
IfMatch(p) == p.etag
(* Google applies a PATCH only when If-Match names its current version.    *)
Matches(p) == p.event \notin gone /\ IfMatch(p) = Len(versions[p.event])
Patch(p) == versions' = [versions EXCEPT ![p.event] = Append(@, Patched(p))]

SendPatch ==
    /\ Sends
    /\ \/ /\ delegated > 0 /\ Matches(First) /\ Patch(First)
          /\ sending' = [sending EXCEPT !.pc = "confirm", !.etag = Len(versions'[First.event])]
       \/ /\ delegated = 0 \/ ~Matches(First)          \* refused, or 412
          /\ Advance /\ UNCHANGED versions
    /\ UNCHANGED <<gone, delegated, table, view, jobs, app, ghosts, left>>

(* A refusal affects only its event; a call that throws may have reached    *)
(* Google, and stops the batch.                                            *)
SendRefused ==
    /\ Sends /\ Spend /\ Advance
    /\ UNCHANGED <<google, table, view, jobs, app, ghosts>>
SendLost ==
    /\ Sends /\ Spend
    /\ sending' = [sending EXCEPT !.lost = TRUE]
    /\ \/ UNCHANGED versions
       \/ delegated > 0 /\ Matches(First) /\ Patch(First)
    /\ UNCHANGED <<gone, delegated, table, view, jobs, app, ghosts>>

Touched(r) == untracked' = IF \E j \in JobIds : Running(j) THEN untracked \cup {r} ELSE untracked

\* Mutant: the event is read again instead of taken from the answer.
AnswerNow(p) == Current(p.event)
Answer(p) == versions[p.event][sending.etag]
(* Google confirmed: the row's baseline advances to what it answered.      *)
SendConfirm ==
    /\ sending.pc = "confirm" /\ Advance
    /\ \/ rows[First.row] = NoRow /\ UNCHANGED <<rows, left>>
       \/ /\ rows[First.row] # NoRow
          /\ rows' = [rows EXCEPT ![First.row].etag = sending.etag,
                                  ![First.row].base = Answer(First)]
          /\ UNCHANGED left
       \/ Spend /\ UNCHANGED rows
    /\ Touched(First.row)
    /\ UNCHANGED <<google, madeFor, onTable, view, jobs, app, interrupted>>

(* The plan is used up; the rows are read again outside any try.           *)
SendEnd ==
    /\ sending.pc = "patch" /\ (sending.queue = {} \/ sending.lost)
    /\ last' = [review |-> {}, conflicts |-> sending.conflicts, sent |-> TRUE]
    /\ \/ kind' = (IF sending.lost THEN "error" ELSE "ready") /\ offer' = last'
          /\ sending' = NotSending /\ UNCHANGED left
       \/ Spend /\ sending' = [NotSending EXCEPT !.pc = "wedged"] /\ UNCHANGED <<kind, offer>>
    /\ UNCHANGED <<google, table, stale, connections, calendar, jobs, app, ghosts>>

-----------------------------------------------------------------------------
(* The person in the app.  What is written is the value the sheet or the    *)
(* form holds, not what the row holds by then.  The operation goes on once   *)
(* the row is stored: it outdates the preview, or drops what it settled.    *)

\* Mutant: a local change does not outdate the preview.
OutdateNot == stale' = stale
Outdate == stale' = TRUE
WriteRow(r, row, does, item) ==
    /\ rows' = [rows EXCEPT ![r] = row] /\ Touched(r)
    /\ \E i \in SaveIds :
         ~Waits(i) /\ saved' = [saved EXCEPT ![i] = [does |-> does, row |-> r, item |-> item]]
    /\ UNCHANGED <<google, madeFor, onTable, view, jobs, sending, asked, countdown, interrupted>>

(* What saveLocal, discard, resolveConflict and keepAsLocal make of a row.  *)
(* mine is the set of clashing fields kept.                                *)
Edited(row, v) == [row EXCEPT !.val = v]
Discarded(row, p) == [row EXCEPT !.val = p.remote, !.base = p.remote, !.etag = p.etag]
MergeOf(c, mine) ==
    [f \in Fields |->
       IF f \in R!Clashing(c.base, c.local, c.remote)
       THEN (IF f \in mine THEN c.local[f] ELSE c.remote[f])
       ELSE IF c.base[f] # c.local[f] THEN c.local[f] ELSE c.remote[f]]
Resolved(row, c, mine) ==
    [row EXCEPT !.val = MergeOf(c, mine), !.base = c.remote, !.etag = c.etag]
KeptAsLocal(row) == [row EXCEPT !.event = 0, !.base = None, !.etag = 0]

SaveEvent(r, v) ==
    /\ Shown /\ Bound(rows, r) /\ v \in EditsOf(rows[r].val) /\ Spend
    /\ WriteRow(r, Edited(rows[r], v), "edit", None)
Discard(p) ==
    /\ CanDiscard(p) /\ rows[p.row] # NoRow /\ Spend
    /\ WriteRow(p.row, Discarded(rows[p.row], p), "discard", p)
Resolve(c, mine) ==
    /\ CanSettle(c) /\ c.kind = "both" /\ rows[c.row] # NoRow
    /\ Valid(MergeOf(c, mine))
    /\ WriteRow(c.row, Resolved(rows[c.row], c, mine), "settle", c) /\ UNCHANGED left
KeepAsLocal(c) ==
    /\ CanSettle(c) /\ c.kind = "missing-remote" /\ rows[c.row] # NoRow
    /\ WriteRow(c.row, KeptAsLocal(rows[c.row]), "settle", c) /\ UNCHANGED left
RemoveLocal(c) ==
    /\ CanSettle(c) /\ c.kind = "missing-remote" /\ rows[c.row] # NoRow
    /\ WriteRow(c.row, NoRow, "settle", c) /\ UNCHANGED left

Dropped(s) ==
    IF last = None \/ s.does = "edit" THEN last
    ELSE IF s.does = "discard" THEN [last EXCEPT !.review = @ \ {s.item}]
    ELSE [last EXCEPT !.conflicts = @ \ {s.item}]
Saved(i) ==
    /\ Waits(i) /\ saved' = [saved EXCEPT ![i] = NoSave]
    /\ IF saved[i].does = "discard" THEN UNCHANGED stale ELSE Outdate
    /\ last' = Dropped(saved[i])
    /\ offer' = IF kind = "ready" /\ saved[i].does # "edit" /\ last # None THEN last' ELSE offer
    /\ UNCHANGED <<google, table, kind, connections, calendar, jobs, sending, asked, countdown,
                   ghosts, left>>

(* The host's own table: any edit, invalid ones too, and deleting a row.   *)
HostEdit(r) ==
    /\ Bound(rows, r) /\ Spend
    /\ \/ \E v \in EditsOf(rows[r].val) : rows' = [rows EXCEPT ![r].val = v]
       \/ rows' = [rows EXCEPT ![r] = NoRow]
    /\ untracked' = untracked \cup {r}
    /\ UNCHANGED <<google, madeFor, onTable, view, jobs, sending, app, interrupted>>

(* Google: other people edit and cancel events.                            *)
GoogleEdit(e) ==
    /\ e \notin gone /\ Spend
    /\ \E v \in ValidValues \cap EditsOf(Current(e)) :
         versions' = [versions EXCEPT ![e] = Append(@, v)]
    /\ UNCHANGED <<gone, delegated, table, view, jobs, sending, app, ghosts>>
GoogleCancel(e) ==
    /\ e \notin gone /\ Spend /\ gone' = gone \cup {e}
    /\ UNCHANGED <<versions, delegated, table, view, jobs, sending, app, ghosts>>

-----------------------------------------------------------------------------
Original == [start |-> 0, end |-> Clock]
Imported(e) == [event |-> e, val |-> Original, base |-> Original, etag |-> 1]

(* A new app, or one whose last import is complete; all events exist, or    *)
(* one does and more can happen to it, if it is imported or the app is not  *)
(* connected yet.                                                          *)
Init ==
    /\ versions = [e \in Events |-> <<Original>>] /\ gone \in {{}, Events \ {1}}
    /\ delegated \in {0, 2}  \* none yet, or one to fall back to
    /\ onTable \in BOOLEAN
    /\ rows = [r \in RowIds |-> IF onTable /\ r \in Events \ gone THEN Imported(r) ELSE NoRow]
    /\ madeFor = [r \in RowIds |-> IF rows[r] = NoRow THEN 0 ELSE r]
    /\ kind = "loading" /\ last = None /\ offer = None /\ stale = FALSE
    /\ connections = 0 /\ calendar = FALSE
    /\ jobs = [j \in JobIds |-> NoJob] /\ sending = NotSending
    /\ asked = FALSE /\ countdown = FALSE /\ saved = NoSaves
    /\ untracked = {} /\ interrupted = FALSE
    /\ left = IF (gone = {} /\ N > 1) \/ (delegated > 0 /\ ~onTable)
              THEN MaxEvents - 1 ELSE MaxEvents

RefreshStep(j) ==
    \/ ReadPage(j) \/ SpentConnection(j) \/ RefreshFails(j) \/ ApplyChange(j) \/ FinishRefresh(j)
    \/ Reloaded(j)
SendStep == LayoutRead \/ SendPatch \/ SendRefused \/ SendLost \/ SendConfirm \/ SendEnd
ConnectStep == Connect \/ Connected \/ ConnectFails \/ CancelConnect \/ Disconnect
Person ==
    \/ Refresh \/ Retry \/ Send \/ Choose
    \/ \E i \in SaveIds : Saved(i)
    \/ \E r \in RowIds, v \in ValidValues : SaveEvent(r, v)
    \/ \E p \in Reviewed : Discard(p)
    \/ last # None /\ \E c \in last.conflicts :
          KeepAsLocal(c) \/ RemoveLocal(c) \/ \E mine \in SUBSET Fields : Resolve(c, mine)
Next ==
    \/ Load \/ Listed \/ Reload \/ ConnectStep \/ Person \/ SendStep
    \/ \E j \in JobIds : RefreshStep(j)
    \/ \E r \in RowIds : HostEdit(r)
    \/ \E e \in Events : GoogleEdit(e) \/ GoogleCancel(e)

Spec == Init /\ [][Next]_vars

-----------------------------------------------------------------------------
(* Properties.                                                              *)

(* The types of the state; Google never holds an impossible interval.       *)
Kinds == {"loading", "disconnected", "connecting", "choosing", "refreshing", "ready",
          "sending", "error"}
Job == [pc : {"scan", "apply", "reload"}, snap : Table, seen : [Events -> Nat], at : 1..N+1]
Edit == [row : RowIds, event : Events, etag : Nat, remote : ValidValues, desired : ValidValues]
Conflict == [row : RowIds, etag : Nat, kind : {"both", "missing-remote"}, base : ValidValues,
             local : Values, remote : ValidValues \cup {None}]
Preview == [review : SUBSET Edit, conflicts : SUBSET Conflict, sent : BOOLEAN]
ASSUME NoPreviewAssumption == None \notin Preview
Save == [does : {"none", "edit", "discard", "settle"}, row : RowIds, item : Edit \cup Conflict \cup {None}]
Sending == [pc : {"idle", "layout", "patch", "confirm", "wedged"}, queue : SUBSET Edit,
            conflicts : SUBSET Conflict, etag : Nat, lost : BOOLEAN]
TypeOK ==
    /\ versions \in [Events -> Seq(ValidValues)] /\ gone \subseteq Events
    /\ delegated \in 0..2 /\ connections \in 0..2
    /\ rows \in Table /\ madeFor \in [RowIds -> 0..N]
    /\ kind \in Kinds /\ last \in Preview \cup {None} /\ offer \in Preview \cup {None}
    /\ onTable \in BOOLEAN /\ stale \in BOOLEAN /\ calendar \in BOOLEAN
    /\ asked \in BOOLEAN /\ countdown \in BOOLEAN /\ interrupted \in BOOLEAN
    /\ saved \in [SaveIds -> Save]
    /\ untracked \subseteq RowIds
    /\ jobs \in [JobIds -> Job \cup {NoJob}] /\ sending \in Sending
    /\ left \in Nat

(* What a row keeps as its baseline is what Google had under the ETag it    *)
(* keeps, through previews, sends, discards, resolutions, reloads and       *)
(* failures in between: the three-way comparison compares with a real past. *)
BaselineWasGoogle ==
    \A r \in RowIds : Bound(rows, r) =>
        /\ rows[r].etag \in 1..Len(versions[rows[r].event])
        /\ rows[r].base = versions[rows[r].event][rows[r].etag]

(* A change the app makes in Google starts from the value the reviewed edit *)
(* showed and ends in the one it showed, however long ago the preview was.  *)
NoBlindWrite ==
    [][\A e \in Events : versions'[e] # versions[e] /\ sending' # sending =>
        \E p \in sending.queue :
           /\ p.event = e /\ p.remote = Current(e)
           /\ versions'[e] = Append(versions[e], p.desired)]_vars

(* A refresh never changes a field that carries a local edit, unless the    *)
(* row was changed where its snapshot could not see it.                    *)
LocalEditKept ==
    [][\A r \in RowIds \ untracked :
         Bound(rows, r) /\ rows'[r] # rows[r] /\ jobs' # jobs /\ ~interrupted =>
           \A f \in Fields : rows[r].val[f] # rows[r].base[f]
                              => rows'[r] # NoRow /\ rows'[r].val[f] = rows[r].val[f]]_vars

(* Ready and not stale means the review list is the rows: every sendable    *)
(* row that differs from its baseline is listed or in conflict, and every   *)
(* listed edit is what its row holds now, but for a row whose save has not  *)
(* returned to the controller yet.                                         *)
InPreview(r) == \E x \in offer.review \cup offer.conflicts : x.row = r
Unseen == untracked \cup {saved[i].row : i \in {i \in SaveIds : Waits(i)}}
ReviewReflectsRows ==
    kind = "ready" /\ ~stale /\ ~interrupted /\ ~offer.sent =>
        /\ \A r \in RowIds \ Unseen : Pending(r) /\ Valid(rows[r].val) => InPreview(r)
        /\ \A p \in offer.review : p.row \notin Unseen =>
             rows[p.row] = [event |-> p.event, val |-> p.desired, base |-> p.remote,
                            etag |-> p.etag]

(* One row per imported event, unless a reconnection, or a countdown that    *)
(* ended under the consent bar, let two refreshes run.                      *)
OneRowPerEvent ==
    ~interrupted => \A e \in Events : Cardinality(RowsOf(rows, e)) <= 1

=============================================================================
