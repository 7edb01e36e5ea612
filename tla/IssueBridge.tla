----------------------------- MODULE IssueBridge -----------------------------
(***************************************************************************)
(* The Issue tracker plugin, integrations/issue-tracker: a table with one   *)
(* row per GitHub issue, kept in step by the Bridge's checkpointed passes.   *)
(* A pass resumes saved operations, lists both sides, plans one operation   *)
(* per record that differs and carries it out, GitHub first; a write to      *)
(* GitHub leaves only when a person approved exactly that value, and its     *)
(* journal entry is saved before it does.  The snapshot and the journal are  *)
(* one resource, all that outlives the frame.                               *)
(*                                                                         *)
(* An issue's value is its title and its status; on GitHub the status is    *)
(* the closed flag and the atomic:doing label.  rev stands for the metadata  *)
(* (updated_at and the rest) that comes with every version.                 *)
(***************************************************************************)
EXTENDS Naturals, FiniteSets

CONSTANTS
    MaxIssues,  \* issue numbers 1..MaxIssues
    MaxRows,    \* the table may hold rows 1..MaxRows
    Titles, Statuses,
    None, Null, \* "no such thing", "an explicit deletion": model values
    MaxEvents   \* bound: edits, new rows, deletions, failures, lost calls and
                \* reloads in one behaviour

ASSUME IssueAssumption ==
    /\ MaxIssues \in Nat \ {0} /\ MaxRows \in Nat \ {0} /\ MaxEvents \in Nat
    /\ Titles # {} /\ Statuses \subseteq {"Todo", "Doing", "Done"}
    /\ "Todo" \in Statuses

VARIABLES
    issues,    \* GitHub: number -> issue, or None
    rows,      \* the table: row id -> row, or None
    disk,      \* the sync resource: the saved snapshot and journal
    snap,      \* session: the last checkpoint's records
    journal,   \* session: the write journal
    kind,      \* controller: state.kind
    problem,   \* controller: state.problem, or None
    conflict,  \* controller: the subject of the conflict to settle, or None
    shown,     \* controller: last.result.held, None before the first result
    pass,      \* the pass under way
    live,      \* the Bridge's records during a pass
    reviewed,  \* ghost: the writes a person approved
    unseen,    \* ghost: the sides changed since the running operation was checked
    strays,    \* ghost: rows that were not deleted, or kept their number, though a
               \* person settled their issue
    left       \* how many of MaxEvents are left

sides   == <<issues, rows>>
session == <<snap, journal>>
view    == <<kind, problem, conflict, shown>>
ghosts  == <<reviewed, unseen, strays>>
vars    == <<sides, disk, session, view, pass, live, ghosts, left>>

Numbers == 1..MaxIssues
RowIds  == 1..MaxRows
Fields  == {"title", "status"}
Values  == [title : Titles, status : Statuses]
EditsOf(v) == ({[v EXCEPT !.title = t] : t \in Titles}
               \cup {[v EXCEPT !.status = s] : s \in Statuses}) \ {v}

R == INSTANCE ReconcileRecord WITH
       Properties <- Fields, Absent <- None, Null <- Null, Undefined <- None

Spend == left > 0 /\ left' = left - 1

-----------------------------------------------------------------------------
(* The two sides.                                                           *)

(* by and wrote are ghosts: the record an issue was created for, and the    *)
(* last value the app wrote to it.                                         *)
Issue(title, by, wrote) ==
    [title |-> title, closed |-> FALSE, doing |-> FALSE, rev |-> 1,
     gone |-> FALSE, by |-> by, wrote |-> wrote]
OnGitHub == {n \in Numbers : issues[n] # None /\ ~issues[n].gone}
project(i) ==
    [title |-> i.title,
     status |-> IF i.closed THEN "Done" ELSE IF i.doing THEN "Doing" ELSE "Todo"]
(* What a request does to an issue: update_issue, add_ and remove_doing_label. *)
issueFields(i, v) ==
    [i EXCEPT !.title = v.title, !.closed = (v.status = "Done"),
              !.rev = @ + 1]
Labelled(i, on) == [i EXCEPT !.doing = on, !.rev = @ + 1]

(* A row: its value, its issue-number column, its provenance and the        *)
(* record whose creation it answers (its localId).                         *)
Row(v, number, meta, localId) ==
    [val |-> v, number |-> number, meta |-> meta, localId |-> localId]

InTable == {r \in RowIds : rows[r] \notin {None, Null}}  \* Null: deleted

(* A subject is named after the side and the id it was first seen under.    *)
Subjects == {"remote"} \X Numbers \cup {"local"} \X RowIds
Record(local, remote) ==
    [local |-> local, remote |-> remote, base |-> None, pending |-> None,
     localOnly |-> FALSE, unconfirmed |-> FALSE]
Known(records) == {s \in Subjects : records[s] # None}
BoundTo(records, side, id) == {s \in Known(records) : records[s][side] = id}

-----------------------------------------------------------------------------
(* The write journal.  A create's entries are keyed by the record, an       *)
(* update's by the operation: planning a new operation leaves none of it.   *)

Steps == {"create", "initial-fields", "initial-label", "fields", "label"}
NoEntries == [t \in Steps |-> None]
NewOperation(j, s) == [j EXCEPT ![s].fields = None, ![s].label = None]
Entry(state, args, id) == [state |-> state, args |-> args, id |-> id]

-----------------------------------------------------------------------------
(* What the state holds.  A closed flag or a label is only ever set for a    *)
(* status there is.                                                         *)

Keys == [id : Numbers \cup {None}, val : Values]
Flags(status) == IF status \in Statuses THEN BOOLEAN ELSE {FALSE}
IssueSet == [title : Titles, closed : Flags("Done"), doing : Flags("Doing"), rev : Nat,
             gone : BOOLEAN, by : Subjects \cup {None}, wrote : Keys \cup {None}]
RowSet == [val : Values, number : Numbers \cup {None}, meta : Nat \cup {None},
           localId : Subjects \cup {None}]
Bases == [title : Titles \cup {None}, status : Statuses \cup {None}]
OpSet == [local : Values \cup {None}, remote : Values \cup {None}, desired : Values,
          meta : Nat \cup {None}, held : BOOLEAN, relink : BOOLEAN]
RecordSet == [local : RowIds \cup {None}, remote : Numbers \cup {None},
              base : Bases \cup {None}, pending : OpSet \cup {None},
              localOnly : BOOLEAN, unconfirmed : BOOLEAN]
RecordMaps == [Subjects -> RecordSet \cup {None}]
Args == Titles \cup [title : Titles, closed : BOOLEAN] \cup {None}
EntrySet == [state : {"sent", "receipt"}, args : Args, id : Numbers \cup {None}]
Journals == [Subjects -> [Steps -> EntrySet \cup {None}]]
Kinds == {"failed", "reconnect", "conflict", "missing", "missing-local", "saved-operation",
          "concurrent-edit", "uncertain", "rejected", "other"}
ProblemSet == [kind : Kinds, subject : Subjects \cup {None}]
HeldSet == [subject : Subjects, key : Keys, unconfirmed : BOOLEAN]
ListedIssues == [Numbers -> [val : Values, rev : Nat] \cup {None}]
ListedRows == [RowIds -> RowSet \cup {None}]
Pcs == {"idle", "resume", "listRemote", "listLocal", "plan", "check", "remote", "flight",
        "answered", "local", "bind", "verify"}
PassSet == [pc : Pcs, phase : {"resume", "plan"}, todo : SUBSET Subjects,
            cur : Subjects \cup {None}, remote : ListedIssues \cup {None},
            local : ListedRows \cup {None}, approved : SUBSET Keys,
            held : SUBSET HeldSet, step : Steps \cup {None},
            current : Statuses \cup {None}, id : Nat \cup {None}]

\* None and Null are none of these.
ASSUME ModelValuesAssumption ==
    /\ None # Null
    /\ \A x \in {None, Null} :
          /\ x \notin Nat \cup Titles \cup Statuses \cup Steps \cup Subjects
          /\ x \notin Values \cup Bases \cup Keys \cup IssueSet \cup RowSet \cup OpSet
          /\ x \notin RecordSet \cup EntrySet \cup ProblemSet
          /\ x \notin [val : Values, rev : Nat]

-----------------------------------------------------------------------------
(* Persistence, the end of a pass.                                          *)

NoPass == [pc |-> "idle", phase |-> "resume", todo |-> {}, cur |-> None,
           remote |-> None, local |-> None, approved |-> {}, held |-> {},
           step |-> None, current |-> None, id |-> None]
Idle == pass.pc = "idle"

hasPending(records) == \E s \in Known(records) : records[s].pending # None

flush(records, j) == disk' = [records |-> records, journal |-> j]

(* checkpoint(): only one that carries a pending operation is written at    *)
(* once.                                                                    *)
checkpoint(records) ==
    /\ live' = records /\ snap' = records
    /\ IF hasPending(records) THEN flush(records, journal') ELSE UNCHANGED disk

(* runPass() when the Bridge throws: the state is flushed, or not, and the  *)
(* error becomes the problem.                                               *)
Stop(p, about) ==
    /\ problem' = [kind |-> p, subject |-> about]
    /\ conflict' = IF p = "conflict" THEN about ELSE conflict
    /\ pass' = NoPass /\ live' = snap' /\ UNCHANGED <<kind, shown>>
StopFlushed(p, about) ==
    /\ UNCHANGED <<snap, journal>> /\ flush(snap, journal) /\ Stop(p, about)

At(pc) == pass.pc = pc
Go(pc) == pass' = [pass EXCEPT !.pc = pc]
Cur == live[pass.cur]
Op  == Cur.pending
(* The record is done with: it is not held, and the next one of this phase  *)
(* follows.                                                                 *)
Resumed == pass.phase = "resume"
Others(held) == {h \in held : h.subject # pass.cur}
NextRecord == pass' = [pass EXCEPT !.pc = pass.phase, !.cur = None, !.held = Others(@),
                                   !.step = None, !.current = None, !.id = None]

-----------------------------------------------------------------------------
(* Passes.                                                                  *)

(* runPass() from the last checkpoint: the saved operations come first.     *)
IsHeld(rec) == rec.pending # None /\ rec.pending.held
RunPass(records, approved) ==
    /\ live' = records
    /\ pass' = [NoPass EXCEPT !.pc = "resume", !.approved = approved,
                              !.todo = {s \in Known(records) : records[s].pending # None}]

CanRun == kind = "ready" /\ Idle
Sync ==
    /\ CanRun /\ RunPass(snap, {})
    /\ UNCHANGED <<sides, disk, session, view, ghosts, left>>

(* send(): what the review lists is approved, by value.                     *)
Key(id, v) == [id |-> id, val |-> v]
Send ==
    /\ CanRun /\ shown \notin {None, {}}
    /\ LET keys == {h.key : h \in shown}
       IN  RunPass(snap, keys) /\ reviewed' = reviewed \cup keys
    /\ UNCHANGED <<sides, disk, session, view, unseen, strays, left>>

(* One by one, a held operation is dropped, to be planned again, and any    *)
(* other resumed.                                                           *)
Resume ==
    /\ At("resume")
    /\ \/ pass.todo = {} /\ Go("listRemote") /\ UNCHANGED live
       \/ \E s \in pass.todo :
             /\ IsHeld(live[s]) /\ pass' = [pass EXCEPT !.todo = @ \ {s}]
             /\ live' = [live EXCEPT ![s] = [live[s] EXCEPT !.pending = None]]
       \/ \E s \in pass.todo :
             /\ ~IsHeld(live[s])
             /\ pass' = [pass EXCEPT !.todo = @ \ {s}, !.cur = s, !.pc = "check"]
             /\ UNCHANGED live
    /\ UNCHANGED <<sides, disk, session, view, ghosts, left>>

ListRemote ==
    /\ At("listRemote")
    /\ pass' = [pass EXCEPT !.pc = "listLocal",
                            !.remote = [n \in Numbers |->
                               IF n \in OnGitHub
                               THEN [val |-> project(issues[n]), rev |-> issues[n].rev]
                               ELSE None]]
    /\ UNCHANGED <<sides, disk, session, view, live, ghosts, left>>

(* The local list; rows are bound by their issue-number column, then what   *)
(* neither map knows is ingested.                                          *)
SubjectFor(records, n) ==
    IF BoundTo(records, "remote", n) = {} THEN <<"remote", n>>
    ELSE CHOOSE s \in BoundTo(records, "remote", n) : TRUE
ByColumn(records, list) ==
    {r \in RowIds : list[r] # None /\ list[r].number # None
                    /\ LET s == SubjectFor(records, list[r].number)
                       IN  ~(records[s] # None /\ records[s].localOnly)}
ColumnBinds(records, list) ==
    [s \in Subjects |->
       LET rs == {r \in ByColumn(records, list) : SubjectFor(records, list[r].number) = s}
       IN  IF rs = {} THEN records[s]
           ELSE LET r == CHOOSE r \in rs : TRUE
                IN  [IF records[s] = None THEN Record(r, None) ELSE records[s]
                     EXCEPT !.local = r, !.remote = list[r].number]]
(* bind(): an id or a subject that is bound elsewhere.                      *)
ColumnClash(records, list) ==
    \E r \in ByColumn(records, list) :
       LET s == SubjectFor(records, list[r].number)
       IN  \/ records[s] # None /\ records[s].local \notin {None, r}
           \/ records[s] # None /\ records[s].remote \notin {None, list[r].number}
           \/ BoundTo(records, "local", r) \ {s} # {}
           \/ \E q \in ByColumn(records, list) \ {r} :
                 SubjectFor(records, list[q].number) = s
(* ingest(): the subject is there already when it was kept here only.       *)
IngestSide(records, side, ids) ==
    [s \in Subjects |->
       IF s[1] = side /\ s[2] \in ids /\ BoundTo(records, side, s[2]) = {}
       THEN IF records[s] = None
            THEN [Record(None, None) EXCEPT ![side] = s[2]]
            ELSE [records[s] EXCEPT ![side] = s[2]]
       ELSE records[s]]
Discovered(records, remote, local) ==
    IngestSide(IngestSide(ColumnBinds(records, local),
                          "remote", {n \in Numbers : remote[n] # None}),
               "local", {r \in RowIds : local[r] # None})

ListLocal ==
    /\ At("listLocal")
    /\ LET list == [r \in RowIds |-> IF r \in InTable THEN rows[r] ELSE None]
           found == Discovered(live, pass.remote, list)
       IN  IF ColumnClash(live, list) THEN StopFlushed("failed", None)
           ELSE /\ UNCHANGED <<journal, view>> /\ checkpoint(found)
                /\ pass' = [pass EXCEPT !.pc = "plan", !.phase = "plan",
                                        !.local = list, !.todo = Known(found)]
    /\ UNCHANGED <<sides, ghosts, left>>

(* One record of syncEntity(): left alone, an error, agreed, or a new       *)
(* operation, saved before it is attempted.                                *)
Listed(s, side) ==
    IF live[s][side] = None THEN None
    ELSE IF side = "local" THEN pass.local[live[s].local]
    ELSE pass.remote[live[s].remote]
HereOnly(s) == live[s].localOnly /\ live[s].remote = None
Lost(s, side) == ~HereOnly(s) /\ live[s][side] # None /\ Listed(s, side) = None
OnBoth(s) == Listed(s, "local") # None /\ Listed(s, "remote") # None
Clash(s) == OnBoth(s) /\ R!Decision(live[s].base, Listed(s, "local").val,
                                    Listed(s, "remote").val).conflict
Agreed(s) == /\ OnBoth(s) /\ ~live[s].localOnly
             /\ Listed(s, "local").val = Listed(s, "remote").val
             /\ Listed(s, "local").meta = Listed(s, "remote").rev
Val(x) == IF x = None THEN None ELSE x.val
Planned(s) ==
    LET l == Listed(s, "local")  r == Listed(s, "remote")
    IN  [local |-> Val(l), remote |-> Val(r), held |-> FALSE,
         relink |-> live[s].localOnly,
         desired |-> IF r = None THEN l.val ELSE IF l = None THEN r.val
                     ELSE R!Merged(live[s].base, l.val, r.val),
         meta |-> IF r = None THEN None ELSE r.rev]

Planning(s) == At("plan") /\ s \in pass.todo /\ UNCHANGED <<sides, ghosts, left>>
Skip(s) ==
    /\ Planning(s) /\ HereOnly(s) /\ pass' = [pass EXCEPT !.todo = @ \ {s}]
    /\ UNCHANGED <<disk, session, view, live>>
Missing(s) ==
    /\ Planning(s) /\ \E side \in {"local", "remote"} : Lost(s, side)
    /\ StopFlushed(IF Lost(s, "local") THEN "missing-local" ELSE "missing", s)
Plannable(s) == Planning(s) /\ ~HereOnly(s)
                /\ \A side \in {"local", "remote"} : ~Lost(s, side)
Conflicting(s) == Plannable(s) /\ Clash(s) /\ StopFlushed("conflict", s)
Acknowledge(s) ==
    /\ Plannable(s) /\ ~Clash(s) /\ Agreed(s)
    /\ UNCHANGED <<journal, view>>
    /\ checkpoint([live EXCEPT ![s].base = Listed(s, "local").val])
    /\ pass' = [pass EXCEPT !.todo = @ \ {s}]
Operate(s) ==
    /\ Plannable(s) /\ ~Clash(s) /\ ~Agreed(s)
    /\ journal' = NewOperation(journal, s) /\ UNCHANGED view
    /\ checkpoint([live EXCEPT ![s].pending = Planned(s), ![s].localOnly = FALSE])
    /\ pass' = [pass EXCEPT !.todo = @ \ {s}, !.cur = s, !.pc = "check"]
Plan == \E s \in Known(live) : Skip(s) \/ Missing(s) \/ Conflicting(s)
                               \/ Acknowledge(s) \/ Operate(s)

(* Every record done.  The comment lists of the bound issues checkpoint     *)
(* once more; the result is what the review and the board show.            *)
EndPass ==
    /\ At("plan") /\ pass.todo = {}
    /\ LET bound == \E s \in Known(live) : live[s].local # None /\ live[s].remote # None
           records == IF bound THEN live ELSE snap
       IN  snap' = records /\ live' = records /\ flush(records, journal)
    /\ problem' = None /\ conflict' = None /\ shown' = pass.held
    /\ pass' = NoPass
    /\ UNCHANGED <<sides, journal, kind, ghosts, left>>

-----------------------------------------------------------------------------
(* finish(): one operation.                                                 *)

(* Both sides must hold what was observed, or this operation's result.      *)
Accepts(side, v) == v \in {Op[side], Op.desired}
LocalLost == Cur.local # None /\ Cur.local \notin InTable
RemoteLost == Cur.remote # None /\ Cur.remote \notin OnGitHub
LocalValue == rows[Cur.local].val
RemoteValue == project(issues[Cur.remote])

Check ==
    /\ At("check")
    /\ IF LocalLost \/ RemoteLost
       THEN StopFlushed("failed", None) /\ UNCHANGED unseen
       ELSE IF /\ Cur.local # None => Accepts("local", LocalValue)
               /\ Cur.remote # None => Accepts("remote", RemoteValue)
       THEN /\ Go("remote") /\ unseen' = {}
            /\ UNCHANGED <<disk, session, view, live>>
       ELSE StopFlushed("saved-operation", pass.cur) /\ UNCHANGED unseen
    /\ UNCHANGED <<sides, reviewed, strays, left>>

(* reviewGate(): the value must be one a person approved for this issue.    *)
\* Mutant: an approval covers the issue, whatever the value.
ApprovedIssue == \E k \in pass.approved : k.id = Cur.remote
Approved == Key(Cur.remote, Op.desired) \in pass.approved

(* attempt() when the gate throws: held for review.                         *)
\* Mutant: held, but not listed.
HoldQuietly ==
    /\ UNCHANGED <<journal, view>> /\ checkpoint([live EXCEPT ![pass.cur].pending.held = TRUE])
    /\ NextRecord
Hold ==
    /\ UNCHANGED <<journal, view>>
    /\ LET records == [live EXCEPT ![pass.cur].pending.held = TRUE,
                                   ![pass.cur].unconfirmed = @ \/ Resumed]
       IN  /\ checkpoint(records)
           /\ pass' = [pass EXCEPT !.pc = pass.phase, !.cur = None,
                                   !.held = Others(@) \cup
                         {[subject |-> pass.cur, key |-> Key(Cur.remote, Op.desired),
                           unconfirmed |-> records[pass.cur].unconfirmed]}]

(* proxyTransport(): journalled and sent, replayed, or refused.              *)
\* Mutant: a request without a receipt is sent again.
UnansweredToo(old) == old = None \/ (old # None /\ old.state = "sent")
Unsent(old) == old = None
Requested(step, args, current) ==
    LET old == journal[pass.cur][step]
        entered == [journal EXCEPT ![pass.cur][step] = Entry("sent", args, None)]
        next(pc) == [pass EXCEPT !.pc = pc, !.step = step, !.current = current]
    IN  \/ /\ Unsent(old) /\ journal' = entered /\ flush(snap, entered)
           /\ pass' = next("flight") /\ UNCHANGED <<snap, live, view, left>>
        \/ /\ Unsent(old) /\ Spend /\ journal' = entered  \* the save is refused
           /\ UNCHANGED snap /\ Stop("rejected", None)
           /\ UNCHANGED disk \/ flush(snap, entered)
        \/ /\ ~Unsent(old) /\ old.args = args /\ old.state = "receipt"
           /\ pass' = [next("answered") EXCEPT !.id = IF step = "create" THEN old.id ELSE @]
           /\ UNCHANGED <<disk, session, view, live, left>>
        \/ /\ ~Unsent(old) /\ (old.args # args \/ old.state = "sent")
           /\ StopFlushed(IF old.args = args THEN "uncertain" ELSE "other", pass.cur)
           /\ UNCHANGED left

RemoteDiffers ==
    Cur.remote # None => Cur.remote \in OnGitHub /\ RemoteValue # Op.desired
PatchArgs(v) == [title |-> v.title, closed |-> v.status = "Done"]
PublishRemote ==
    /\ At("remote")
    /\ \/ /\ RemoteLost /\ StopFlushed("failed", None) /\ UNCHANGED left
       \/ /\ Cur.remote # None /\ ~RemoteLost /\ RemoteValue = Op.desired
          /\ Go("local") /\ UNCHANGED <<disk, session, view, live, left>>
       \/ RemoteDiffers /\ ~Approved /\ Hold /\ UNCHANGED left
       \/ /\ Cur.remote = None /\ Approved
          /\ Requested("create", Op.desired.title, None)
       \/ /\ Cur.remote # None /\ RemoteDiffers /\ Approved
          /\ Requested("fields", PatchArgs(Op.desired), RemoteValue.status)
    /\ UNCHANGED <<sides, ghosts>>

-----------------------------------------------------------------------------
(* A request on its way.                                                    *)

Target == IF pass.id # None THEN pass.id ELSE Cur.remote
NewNumbers == {n \in Numbers : issues[n] = None /\ \A m \in 1..(n - 1) : issues[m] # None}
NewNumber == CHOOSE n \in NewNumbers : TRUE
Effect ==
    CASE pass.step = "create" ->
           [issues EXCEPT ![NewNumber] =
              Issue(Op.desired.title, pass.cur, Key(None, Op.desired))]
      [] pass.step \in {"fields", "initial-fields"} ->
           [issues EXCEPT ![Target] =
              [issueFields(@, Op.desired) EXCEPT !.wrote = Key(Cur.remote, Op.desired)]]
      [] pass.step \in {"label", "initial-label"} ->
           [issues EXCEPT ![Target] = Labelled(@, Op.desired.status = "Doing")]
Possible == IF pass.step = "create" THEN NewNumbers # {}
            ELSE Target \in OnGitHub

(* Answered with 2xx: the receipt is saved, or the save is refused.          *)
NewId == IF pass.step = "create" THEN NewNumber ELSE None
Answer ==
    /\ At("flight") /\ Possible /\ issues' = Effect
    /\ journal' = [journal EXCEPT ![pass.cur][pass.step] = Entry("receipt", @.args, NewId)]
    /\ UNCHANGED <<rows, snap, ghosts>>
Delivered ==
    /\ Answer /\ flush(snap, journal')
    /\ pass' = [pass EXCEPT !.pc = "answered", !.id = IF NewId = None THEN @ ELSE NewId]
    /\ UNCHANGED <<view, live, left>>
ReceiptRefused ==
    /\ Answer /\ Spend /\ Stop("rejected", None)
    /\ UNCHANGED disk \/ flush(snap, journal')

(* The answer is lost, whether GitHub did it or not.                        *)
AnswerLost ==
    /\ At("flight") /\ Spend
    /\ \/ Possible /\ issues' = Effect
       \/ UNCHANGED issues
    /\ StopFlushed("uncertain", None) /\ UNCHANGED <<rows, ghosts>>

(* Refused by the host or the proxy, so never sent: the entry is dropped.   *)
NotSent ==
    /\ At("flight") /\ Spend
    /\ LET j == [journal EXCEPT ![pass.cur][pass.step] = None]
       IN  journal' = j /\ flush(snap, j)
    /\ UNCHANGED snap /\ \E p \in {"reconnect", "other"} : Stop(p, None)
    /\ UNCHANGED <<sides, ghosts>>

(* Refused by GitHub, with 401 or otherwise: the entry stays, without a      *)
(* receipt.                                                                 *)
Refused ==
    /\ At("flight")
    /\ \/ ~Possible /\ StopFlushed("failed", None) /\ UNCHANGED left
       \/ Spend /\ \E p \in {"failed", "reconnect"} : StopFlushed(p, None)
    /\ UNCHANGED <<sides, ghosts>>

(* What the port does next: the initial state of a created issue, then the  *)
(* doing label, then the binding.                                          *)
NeedsInitial == pass.step = "create" /\ Op.desired.status # "Todo"
NeedsLabel ==
    /\ pass.step \in {"fields", "initial-fields"}
    /\ \/ Op.desired.status = "Doing" /\ pass.current # "Doing"
       \/ Op.desired.status = "Todo" /\ issues[Target].doing
Published ==
    /\ At("answered")
    /\ \/ /\ Target \notin OnGitHub /\ NeedsInitial
          /\ StopFlushed("failed", None) /\ UNCHANGED left
       \/ /\ NeedsInitial /\ Target \in OnGitHub
          /\ Requested("initial-fields", PatchArgs(Op.desired),
                       project(issues[Target]).status)
       \/ /\ NeedsLabel
          /\ Requested(IF pass.step = "fields" THEN "label" ELSE "initial-label",
                       None, pass.current)
       \/ /\ ~NeedsInitial /\ ~NeedsLabel
          /\ pass.id # None /\ BoundTo(live, "remote", pass.id) # {}
          /\ StopFlushed("failed", None) /\ UNCHANGED left  \* bind() throws
       \/ /\ ~NeedsInitial /\ ~NeedsLabel
          /\ pass.id = None \/ BoundTo(live, "remote", pass.id) = {}
          /\ UNCHANGED <<journal, view, left>>
          /\ checkpoint([live EXCEPT ![pass.cur].remote = Target]) /\ Go("local")
    /\ UNCHANGED <<sides, ghosts>>

-----------------------------------------------------------------------------
(* The local side of an operation, and its end.                             *)

Refuse(p) == Spend /\ StopFlushed(p, None) /\ UNCHANGED rows

(* AtomicPort.values(): the value, and what came from GitHub with it.       *)
Written(row) ==
    [row EXCEPT !.val = Op.desired,
                !.number = IF Op.meta = None THEN @ ELSE Cur.remote,
                !.meta = IF Op.meta = None THEN @ ELSE Op.meta]
PublishLocal ==
    /\ At("local") /\ Cur.local # None
    /\ \/ LocalLost /\ StopFlushed("failed", None) /\ UNCHANGED <<rows, left>>
       \/ ~LocalLost /\ Refuse("rejected")
       \/ /\ ~LocalLost /\ UNCHANGED <<journal, view, left>>
          /\ rows' = IF /\ LocalValue = Op.desired /\ ~Op.relink
                        /\ rows[Cur.local].meta = Op.meta
                     THEN rows ELSE [rows EXCEPT ![Cur.local] = Written(@)]
          /\ checkpoint(live) /\ Go("verify")
    /\ UNCHANGED <<issues, ghosts>>

(* AtomicPort.create(): a row made for this record before is found again.   *)
\* Mutant: the creation identity is not looked up.
RecoveredNone == {}
Recovered == {r \in InTable : rows[r].localId = pass.cur}
FreshRows == {r \in RowIds : rows[r] = None /\ \A q \in 1..(r - 1) : rows[q] # None}
CreateLocal ==
    /\ At("local") /\ Cur.local = None
    /\ \/ Refuse("rejected")
       \/ /\ \E r \in Recovered : rows[r].val # Op.desired
          /\ StopFlushed("other", pass.cur) /\ UNCHANGED <<rows, left>>
       \/ /\ \E r \in Recovered : rows[r].val = Op.desired
                                  /\ pass' = [pass EXCEPT !.pc = "bind", !.id = r]
          /\ UNCHANGED <<rows, disk, session, view, live, left>>
       \/ /\ Recovered = {}
          /\ \E r \in FreshRows :
                /\ rows' = [rows EXCEPT ![r] =
                              Row(Op.desired, Cur.remote, Op.meta, pass.cur)]
                /\ pass' = [pass EXCEPT !.pc = "bind", !.id = r]
          /\ UNCHANGED <<disk, session, view, live, left>>
    /\ UNCHANGED <<issues, ghosts>>
BindLocal ==
    /\ At("bind")
    /\ IF BoundTo(live, "local", pass.id) # {} THEN StopFlushed("failed", None)
       ELSE /\ UNCHANGED <<journal, view>>
            /\ checkpoint([live EXCEPT ![pass.cur].local = pass.id])
            /\ Go("verify")
    /\ UNCHANGED <<sides, ghosts, left>>

Verified == ~LocalLost /\ ~RemoteLost
            /\ LocalValue = Op.desired /\ RemoteValue = Op.desired
(* The last checkpoint comes before attempt() clears unconfirmed.           *)
Verify ==
    /\ At("verify")
    /\ IF ~Verified THEN StopFlushed("concurrent-edit", pass.cur)
       ELSE /\ LET done == [live EXCEPT ![pass.cur] =
                           [@ EXCEPT !.base = Op.desired, !.pending = None]]
               IN  /\ snap' = done
                   /\ IF hasPending(done) THEN flush(done, journal)
                      ELSE UNCHANGED disk
                   /\ live' = [done EXCEPT ![pass.cur].unconfirmed = FALSE]
            /\ NextRecord /\ UNCHANGED <<journal, view>>
    /\ UNCHANGED <<sides, ghosts, left>>

(* A read that fails, or is refused with 401.                               *)
PassFails ==
    /\ ~Idle /\ pass.pc \notin {"flight", "resume", "plan", "bind"} /\ Spend
    /\ UNCHANGED <<sides, session, ghosts>>
    /\ \E p \in {"failed", "reconnect"} : Stop(p, None)
    /\ \/ flush(snap, journal)
       \/ UNCHANGED disk

-----------------------------------------------------------------------------
(* What a person does about a problem.                                      *)

(* resolve(): the baseline of every clashing field moves to the side that   *)
(* is not kept; a pass follows.                                            *)
Settled(rec, l, r, keep) ==
    LET clash == R!Clashing(rec.base, l, r)
        field(f) == IF f \in clash
                    THEN IF keep[f] = "local" THEN R!At(r, f) ELSE R!At(l, f)
                    ELSE R!At(rec.base, f)
    IN  IF clash = {} THEN rec.base ELSE [title |-> field("title"), status |-> field("status")]
Resolve ==
    /\ CanRun /\ conflict # None
    /\ LET rec == snap[conflict]
           ok == /\ rec # None /\ rec.pending = None
                 /\ rec.local \in InTable /\ rec.remote \in OnGitHub
       IN  IF ~ok THEN StopFlushed("failed", None) /\ UNCHANGED ghosts
           ELSE \E keep \in [Fields -> {"local", "remote"}] :
                  LET records == [snap EXCEPT ![conflict].base =
                                    Settled(rec, rows[rec.local].val,
                                            project(issues[rec.remote]), keep)]
                  IN  /\ snap' = records /\ flush(records, journal)
                      /\ RunPass(records, {}) /\ UNCHANGED <<journal, view, ghosts>>
    /\ UNCHANGED <<sides, left>>

CanSettleMissing == CanRun /\ problem # None /\ problem.kind = "missing"
KeptHere(s) == [snap EXCEPT ![s] =
                  [@ EXCEPT !.remote = None, !.pending = None, !.localOnly = TRUE]]
Forgotten(s) == [snap EXCEPT ![s] = None]
(* The table may refuse: the error becomes the problem, and no pass follows.  *)
(* A row to delete that cannot be read is passed over without an error.      *)
SettleMissing(records, r, row) ==
    /\ CanSettleMissing /\ snap' = records /\ flush(records, journal)
    /\ \/ /\ rows' = IF r \in InTable THEN [rows EXCEPT ![r] = row] ELSE rows
          /\ RunPass(records, {}) /\ UNCHANGED <<view, strays, left>>
       \/ /\ Spend /\ strays' = strays \cup {r} /\ UNCHANGED rows
          /\ \/ Stop("rejected", None)
             \/ row = Null /\ RunPass(records, {}) /\ UNCHANGED view
    /\ UNCHANGED <<issues, journal, reviewed, unseen>>
(* keepHereOnly(): the issue is forgotten, the row's number column cleared. *)
KeepHereOnly ==
    LET r == snap[problem.subject].local
    IN  SettleMissing(KeptHere(problem.subject), r, [rows[r] EXCEPT !.number = None])
(* removeFromBoard(): the record is forgotten, then its row deleted.         *)
RemoveFromBoard ==
    SettleMissing(Forgotten(problem.subject), snap[problem.subject].local, Null)

(* Edits in the app take their turn with the passes; a new row too.         *)
\* Mutant: an edit does not wait for the pass.
EditTurnAny == kind = "ready"
EditTurn == CanRun
Edit ==
    /\ EditTurn /\ Spend
    /\ \E r \in InTable : \E v \in EditsOf(rows[r].val) :
          rows' = [rows EXCEPT ![r].val = v]
    /\ UNCHANGED <<issues, disk, session, view, pass, live, ghosts>>
Create ==
    /\ CanRun /\ Spend
    /\ \E r \in FreshRows, v \in Values :
          rows' = [rows EXCEPT ![r] = Row(v, None, None, None)]
    /\ UNCHANGED <<issues, disk, session, view, pass, live, ghosts>>

(* Connections: load(), connect() after a refusal, disconnect().            *)
Load ==
    /\ kind = "loading" /\ kind' \in {"ready", "not-connected"}
    /\ UNCHANGED <<sides, disk, session, problem, conflict, shown, pass, live, ghosts, left>>
Connect ==
    /\ \/ kind = "not-connected" /\ UNCHANGED disk
       \/ /\ kind = "ready" /\ problem # None /\ problem.kind = "reconnect"
          /\ flush(snap, journal)
    /\ kind' = "loading" /\ problem' = None /\ shown' = None
    /\ UNCHANGED <<sides, session, conflict, pass, live, ghosts, left>>
Disconnect ==
    /\ CanRun /\ Spend /\ kind' = "loading" /\ problem' = None /\ shown' = None
    /\ UNCHANGED <<sides, disk, session, conflict, pass, live, ghosts>>

-----------------------------------------------------------------------------
(* Around the app.                                                          *)

Checked == pass.pc \in {"remote", "flight", "answered", "local", "bind", "verify"}
Touches(side) == unseen' = IF Checked THEN unseen \cup {side} ELSE unseen

(* The host's own table: its edits do not wait for a pass.                  *)
HostEdit ==
    /\ Spend /\ Touches("local")
    /\ \/ \E r \in InTable : \E v \in EditsOf(rows[r].val) :
             rows' = [rows EXCEPT ![r].val = v]
       \/ \E r \in InTable : rows' = [rows EXCEPT ![r] = Null]
    /\ UNCHANGED <<issues, disk, session, view, pass, live, reviewed, strays>>

(* People on GitHub: edits, labels, deletions, transfers back.              *)
Edited(i, v) ==
    [i EXCEPT !.title = v.title, !.rev = @ + 1, !.closed = (v.status = "Done"),
              !.doing = (v.status = "Doing"), !.wrote = None]
GitHubEdit ==
    /\ Spend /\ Touches("remote")
    /\ \E n \in Numbers :
          /\ issues[n] # None
          /\ \/ /\ n \in OnGitHub
                /\ \E v \in EditsOf(project(issues[n])) :
                     issues' = [issues EXCEPT ![n] = Edited(@, v)]
             \/ issues' = [issues EXCEPT ![n].gone = ~@]
    /\ UNCHANGED <<rows, disk, session, view, pass, live, reviewed, strays>>

(* The frame goes away and comes back; a request under way may land.        *)
Reload ==
    /\ Spend /\ kind \in {"ready", "not-connected"}
    /\ \/ At("flight") /\ Possible /\ issues' = Effect
       \/ UNCHANGED issues
    /\ snap' = disk.records /\ journal' = disk.journal /\ live' = disk.records
    /\ kind' = "loading" /\ problem' = None /\ conflict' = None /\ shown' = None
    /\ pass' = NoPass /\ UNCHANGED <<rows, disk, ghosts>>

-----------------------------------------------------------------------------

Init ==
    /\ \/ /\ \E t \in Titles : issues = [n \in Numbers |-> IF n = 1 THEN Issue(t, None, None)
                                                         ELSE None]
          /\ rows = [r \in RowIds |-> None]
       \/ /\ issues = [n \in Numbers |-> None]
          /\ \E v \in Values : rows = [r \in RowIds |-> IF r = 1 THEN Row(v, None, None, None)
                                                       ELSE None]
    /\ snap = [s \in Subjects |-> None] /\ journal = [s \in Subjects |-> NoEntries]
    /\ disk = [records |-> snap, journal |-> journal] /\ live = snap
    /\ kind = "loading" /\ problem = None /\ conflict = None /\ shown = None
    /\ pass = NoPass /\ reviewed = {} /\ unseen = {} /\ strays = {} /\ left = MaxEvents

PassStep ==
    \/ Resume \/ ListRemote \/ ListLocal \/ Plan \/ EndPass
    \/ Check \/ PublishRemote \/ Delivered \/ ReceiptRefused \/ AnswerLost \/ NotSent \/ Refused
    \/ Published \/ PublishLocal \/ CreateLocal \/ BindLocal \/ Verify \/ PassFails
Person ==
    \/ Sync \/ Send \/ Resolve \/ KeepHereOnly \/ RemoveFromBoard \/ Edit \/ Create
    \/ Load \/ Connect \/ Disconnect
World == HostEdit \/ GitHubEdit \/ Reload
Next == PassStep \/ Person \/ World
Spec == Init /\ [][Next]_vars

-----------------------------------------------------------------------------
(* Properties.                                                              *)

(* The types of the state; a saved operation always has a value to write,   *)
(* and every value is one the app or a person can have written.             *)
TypeOK ==
    /\ issues \in [Numbers -> IssueSet \cup {None}]
    /\ rows \in [RowIds -> RowSet \cup {None, Null}]
    /\ disk \in [records : RecordMaps, journal : Journals]
    /\ snap \in RecordMaps /\ live \in RecordMaps /\ journal \in Journals
    /\ kind \in {"loading", "ready", "not-connected"}
    /\ problem \in ProblemSet \cup {None} /\ conflict \in Subjects \cup {None}
    /\ shown = None \/ shown \subseteq HeldSet
    /\ pass \in PassSet
    /\ reviewed \subseteq Keys /\ unseen \subseteq {"local", "remote"}
    /\ strays \subseteq RowIds \cup {None} /\ left \in 0..MaxEvents

(* A row is created on GitHub at most once, across lost answers, operations *)
(* planned again and reloads: the transport's journal refuses to resend a   *)
(* create whose outcome is unknown.                                         *)
CreatedOnce ==
    \A n, m \in Numbers :
      issues[n] # None /\ issues[m] # None /\ issues[n].by # None
        /\ issues[n].by = issues[m].by => n = m

(* Whatever the app wrote to GitHub was approved, by value and for that     *)
(* issue, by a person who saw it in the review: reviewGate() and send().    *)
ReviewedOnly ==
    \A n \in Numbers :
      issues[n] # None /\ issues[n].wrote # None => issues[n].wrote \in reviewed

(* No issue is imported into two rows: AtomicPort.create() finds the row a  *)
(* pass made before the frame went away.  A row that a person removed, or    *)
(* kept without its issue, and the table did not change keeps its number     *)
(* while its record is gone: it can be there twice.                         *)
OneRowPerIssue ==
    \A q, r \in InTable \ strays :
      rows[q].number # None /\ rows[q].number = rows[r].number => q = r

(* After a pass that reports no problem every record is settled: kept here  *)
(* only, held and listed in the review, or agreed with no operation saved.  *)
SettledOrShown ==
    Idle /\ kind = "ready" /\ problem = None /\ shown # None =>
      \A s \in Known(snap) :
        \/ snap[s].localOnly
        \/ IsHeld(snap[s]) /\ \E h \in shown :
             h.subject = s /\ h.key = Key(snap[s].remote, snap[s].pending.desired)
        \/ snap[s].pending = None /\ snap[s].base # None

(* An operation replaces, in a row and in an issue, only values it observed *)
(* when it was planned, unless that side changed after finish() checked it: *)
(* the rows by the host's table, the issue because GitHub's API has no      *)
(* conditional update.                                                      *)
Replaced(old, new, seen) ==
    \A f \in Fields : old[f] # new[f] => seen # None /\ seen[f] = old[f]
OnlyObservedReplaced ==
    [][/\ PublishLocal /\ "local" \notin unseen =>
            \A r \in InTable : Replaced(rows[r].val, rows'[r].val, Op.local)
       /\ Answer /\ pass.step = "fields" /\ "remote" \notin unseen =>
            \A n \in OnGitHub :
              Replaced(project(issues[n]), project(issues'[n]), Op.remote)]_vars

(* What the README says of a write whose response was lost: if it landed,   *)
(* the operation just completes.  Then the issue a row was created as is    *)
(* never another record's.                                                  *)
LandedCreateCompletes ==
    \A s, t \in Known(snap) :
      LET n == snap[t].remote
      IN  n # None /\ issues[n].by = s => s = t
=============================================================================
