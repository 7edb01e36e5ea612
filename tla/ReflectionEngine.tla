-------------------------- MODULE ReflectionEngine --------------------------
(***************************************************************************)
(* The reflection of issues between two systems (devonian/src/reflect):    *)
(* passes serialized by the runner copy originals each way, link copies in *)
(* the id map, and keep open/closed states in agreement with a ledger of   *)
(* the last agreed state.  People create and toggle issues on both systems *)
(* while a pass runs; the process may restart at any point, with or        *)
(* without its persisted id map and ledger.                                *)
(*                                                                         *)
(* Each side's syncables client is abstracted to its local list and the    *)
(* fate of the copies it posts: a copy lands, lands twice (the response of *)
(* the first POST was lost), or is abandoned by the engine, which leaves   *)
(* the client's unsettled record in the list.                              *)
(***************************************************************************)
EXTENDS Naturals, FiniteSets

CONSTANTS
    N,           \* bound: ids each system can assign are 1..N
    None,        \* no issue, no link, no recorded state
    Limits       \* the bounds to check under, see below

(***************************************************************************)
(* Bounds: how many issues people write (originals) and how often they     *)
(* change a state (toggles), how many copies are abandoned and PATCHes     *)
(* fail (faults), how many copies are posted twice (twice), and how often  *)
(* the process restarts (restarts).                                        *)
(***************************************************************************)
ASSUME LimitsAssumption ==
    /\ N \in Nat
    /\ Limits \subseteq [originals : Nat, toggles : Nat, faults : Nat, twice : Nat, restarts : Nat]
    /\ \A l \in Limits : l.originals + l.twice + l.faults <= N

Sides == {"a", "b"}
Other(s) == IF s = "a" THEN "b" ELSE "a"

Real == 1..N
\* The client-generated id a copy of issue i has until its POST settles.
Temp(i) == N + i
AllIds == 1..(2 * N)

\* origin 0: written by a person; otherwise the marker's id on the other side.
Issues == [origin : 0..N, open : BOOLEAN]

ASSUME ModelValueAssumption == None \notin Issues \cup AllIds

VARIABLES
    limits,   \* the bounds of this behaviour
    remote,   \* each system's issues
    local,    \* each client's local list
    idMap,    \* idMap[s][i]: the counterpart of issue i of side s
    ledger,   \* the last agreed state (open or not) of pairs <<id on a, id on b>>
    phase,    \* which loop of the pass is running
    todo,     \* the sources or pairs that loop has still to visit
    existing, \* the marker scan of that loop: source id -> ids of its copies
    posting,  \* the source whose copy the engine waits for, 0 for none
    landed,   \* that copy's POST has settled
    patched,  \* the pair and state whose PATCH was answered, or None
    late,     \* abandoned copies the client goes on posting
    gaveUp,   \* sides whose client lists a write it has given up
    wish,     \* the newest state change by a person, if it is to be kept
    toggles, faults, twice, restarts

pass == <<phase, todo, existing, posting, landed, patched>>
counters == <<limits, wish, toggles, faults, twice, restarts>>
vars == <<limits, remote, local, idMap, ledger, phase, todo, existing, posting, landed,
          patched, late, gaveUp, wish, toggles, faults, twice, restarts>>

Phases == {"idle", "syncB", "ab", "ba", "state", "comments"}

TypeOK ==
    /\ remote \in [Sides -> [Real -> Issues \cup {None}]]
    /\ local \in [Sides -> [AllIds -> Issues \cup {None}]]
    /\ idMap \in [Sides -> [AllIds -> AllIds \cup {None}]]
    /\ \A p \in DOMAIN ledger : p \in AllIds \X AllIds /\ ledger[p] \in BOOLEAN
    /\ phase \in Phases
    /\ todo \subseteq IF phase \in {"state", "comments"} THEN AllIds \X AllIds ELSE AllIds
    /\ existing \in [Real -> SUBSET AllIds]
    /\ posting \in 0..N /\ landed \in BOOLEAN
    /\ patched \in [pair : AllIds \X AllIds, open : BOOLEAN] \cup {None}
    /\ late \subseteq Sides \X Real
    /\ gaveUp \subseteq Sides
    /\ wish \in [side : Sides, id : Real, open : BOOLEAN, recorded : BOOLEAN] \cup {None}
    /\ limits \in Limits
    /\ toggles \in 0..limits.toggles /\ faults \in 0..limits.faults
    /\ twice \in 0..limits.twice /\ restarts \in 0..limits.restarts

Nothing(ids) == [i \in ids |-> None]
NoCopies == [i \in Real |-> {}]

Init ==
    /\ limits \in Limits
    /\ remote = [s \in Sides |-> Nothing(Real)]
    /\ local = [s \in Sides |-> Nothing(AllIds)]
    /\ idMap = [s \in Sides |-> Nothing(AllIds)]
    /\ ledger = <<>>
    /\ phase = "idle"
    /\ todo = {}
    /\ existing = NoCopies
    /\ posting = 0 /\ landed = FALSE
    /\ patched = None
    /\ late = {}
    /\ gaveUp = {}
    /\ wish = None
    /\ toggles = 0 /\ faults = 0 /\ twice = 0 /\ restarts = 0

-----------------------------------------------------------------------------
(* People, and the systems that assign ids in order. *)

\* The id side s assigns next, one of 1..N.
NextIds(s) == {i \in Real : remote[s][i] = None /\ \A j \in 1..(i - 1) : remote[s][j] # None}
IsOriginal(issue) == issue # None /\ issue.origin = 0
Originals == {p \in Sides \X Real : IsOriginal(remote[p[1]][p[2]])}

\* Room is left for the copies of every original.
PersonCreates(s) ==
    /\ Cardinality(Originals) < limits.originals
    /\ \E i \in NextIds(s) : remote' = [remote EXCEPT ![s][i] = [origin |-> 0, open |-> TRUE]]
    /\ UNCHANGED <<local, idMap, ledger, pass, late, gaveUp, counters>>

\* The pairs issue i of side s is in whose last agreed state is on record.
PairsOf(s, i) == {p \in DOMAIN ledger : p[IF s = "a" THEN 1 ELSE 2] = i /\ p \in Real \X Real}

\* A change is a wish when it is made between passes to a pair in agreement;
\* "recorded" when that agreement is what the ledger says.
PersonToggles(s) ==
    /\ toggles < limits.toggles
    /\ toggles' = toggles + 1
    /\ \E i \in Real :
          LET issue == remote[s][i]
              agreed == {p \in PairsOf(s, i) : remote["a"][p[1]].open = remote["b"][p[2]].open}
          IN  /\ issue # None
              /\ remote' = [remote EXCEPT ![s][i].open = ~@]
              /\ wish' = IF phase = "idle" /\ agreed # {}
                         THEN [side |-> s, id |-> i, open |-> ~issue.open,
                               recorded |-> \A p \in PairsOf(s, i) : ledger[p] = issue.open]
                         ELSE None
    /\ UNCHANGED <<limits, local, idMap, ledger, pass, late, gaveUp, faults, twice, restarts>>

-----------------------------------------------------------------------------
(* reflect(): sync both sides, then reflectCreates each way. *)

Fetched(s) == [i \in AllIds |-> IF i \in Real THEN remote[s][i] ELSE local[s][i]]

\* The runner starts a pass when the previous one is over.
SyncA ==
    /\ phase = "idle"
    /\ local' = [local EXCEPT !["a"] = Fetched("a")]
    /\ phase' = "syncB"
    /\ UNCHANGED <<remote, idMap, ledger, todo, existing, posting, landed, patched, late, gaveUp, counters>>

\* A sync that fails ends the pass.
SyncFails ==
    /\ phase = "syncB"
    /\ faults < limits.faults
    /\ faults' = faults + 1
    /\ phase' = "idle"
    /\ UNCHANGED <<limits, remote, local, idMap, ledger, todo, existing, posting, landed, patched, late, gaveUp,
                   wish, toggles, twice, restarts>>

Copies(list, i) == {j \in AllIds : list[j] # None /\ list[j].origin = i}

\* The issues to reflect onward: those without a marker of the other side.
Sources(list) == {i \in AllIds : IsOriginal(list[i])}

\* Mutant: the destination is not scanned for markers.
MarkersIgnored(list) == [i \in Real |-> {j \in AllIds : list[j] # None /\ FALSE}]

\* The copies the markers on the destination name, by source.
Markers(list) == [i \in Real |-> Copies(list, i)]

SyncB ==
    /\ phase = "syncB"
    /\ local' = [local EXCEPT !["b"] = Fetched("b")]
    /\ phase' = "ab"
    /\ todo' = Sources(local'["a"])
    /\ existing' = Markers(local'["b"])
    /\ UNCHANGED <<remote, idMap, ledger, posting, landed, patched, late, gaveUp, counters>>

From == IF phase = "ab" THEN "a" ELSE "b"
To == Other(From)
Creating == phase \in {"ab", "ba"}

\* IdMap.link: both directions, over whatever was linked before.
Link(from, i, j) ==
    idMap' = [idMap EXCEPT ![from][i] = j, ![Other(from)][j] = i]

\* Known by the id map, or else by a marker (any of several).
Known(i) ==
    IF idMap[From][i] # None THEN {idMap[From][i]}
    ELSE IF i \in Real THEN existing[i] ELSE {}

LinkKnown ==
    /\ Creating /\ posting = 0
    /\ \E i \in todo :
          /\ \E j \in Known(i) : Link(From, i, j)
          /\ todo' = todo \ {i}
    /\ UNCHANGED <<remote, local, ledger, phase, existing, posting, landed, patched, late, gaveUp, counters>>

Copy(i) == [origin |-> i, open |-> TRUE]

\* createIssueCopy: the client stores the marked copy under its own id.
PostCopy ==
    /\ Creating /\ posting = 0
    /\ \E i \in todo \cap Real :
          /\ Known(i) = {}
          /\ posting' = i
          /\ local' = [local EXCEPT ![To][Temp(i)] = Copy(i)]
    /\ UNCHANGED <<remote, idMap, ledger, phase, todo, existing, landed, patched, late, gaveUp, counters>>

\* A POST of the copy of i settles: the client moves it to the server's id.
Land(to, i) ==
    \E r \in NextIds(to) :
        /\ remote' = [remote EXCEPT ![to][r] = Copy(i)]
        /\ local' = [local EXCEPT ![to][Temp(i)] = None, ![to][r] = Copy(i)]

CopyLands ==
    /\ posting # 0 /\ ~landed
    /\ Land(To, posting)
    /\ landed' = TRUE
    /\ UNCHANGED <<idMap, ledger, phase, todo, existing, posting, patched, late, gaveUp, counters>>

\* The client of side s lists no write but the one the engine waits for.
Drained(s) == s \notin gaveUp /\ \A w \in late : w[1] # s

\* The drain saw no pending write; the copy is looked up by its marker.
LinkCopy ==
    /\ landed
    /\ Drained(To)
    /\ \E j \in Copies(local[To], posting) : Link(From, posting, j)
    /\ todo' = todo \ {posting}
    /\ posting' = 0 /\ landed' = FALSE
    /\ UNCHANGED <<remote, local, ledger, phase, existing, patched, late, gaveUp, counters>>

\* The response of a POST is lost: the copy is there and is posted again.
CopyTwice ==
    /\ posting # 0 /\ ~landed
    /\ twice < limits.twice
    /\ twice' = twice + 1
    /\ \E r \in NextIds(To) : remote' = [remote EXCEPT ![To][r] = Copy(posting)]
    /\ UNCHANGED <<limits, local, idMap, ledger, pass, late, gaveUp, wish, toggles, faults, restarts>>

\* drain() throws: a write is stuck or the time is up.  The error is noted and
\* the loop goes on; the client keeps its record and either has given the
\* write up or goes on with it.  Later drains of the side run into it.
CopyAbandoned ==
    /\ posting # 0
    /\ \/ /\ ~Drained(To)
          /\ late' = IF landed THEN late ELSE late \cup {<<To, posting>>}
          /\ UNCHANGED <<gaveUp, faults>>
       \/ /\ ~landed
          /\ faults < limits.faults
          /\ faults' = faults + 1
          /\ \/ gaveUp' = gaveUp \cup {To} /\ UNCHANGED late
             \/ late' = late \cup {<<To, posting>>} /\ UNCHANGED gaveUp
    /\ todo' = todo \ {posting}
    /\ posting' = 0 /\ landed' = FALSE
    /\ UNCHANGED <<limits, remote, local, idMap, ledger, phase, existing, patched, wish, toggles, twice, restarts>>

\* The client's own retry succeeds after the engine stopped waiting.
LateCopyLands ==
    /\ \E w \in late : Land(w[1], w[2]) /\ late' = late \ {w}
    /\ UNCHANGED <<idMap, ledger, pass, gaveUp, counters>>

NextDirection ==
    /\ phase = "ab" /\ todo = {} /\ posting = 0
    /\ phase' = "ba"
    /\ todo' = Sources(local["b"])
    /\ existing' = Markers(local["a"])
    /\ UNCHANGED <<remote, local, idMap, ledger, posting, landed, patched, late, gaveUp, counters>>

-----------------------------------------------------------------------------
(* reflectState over every linked pair. *)

Pairs == {p \in AllIds \X AllIds : idMap["a"][p[1]] = p[2] \/ idMap["b"][p[2]] = p[1]}

StartState ==
    /\ phase = "ba" /\ todo = {} /\ posting = 0
    /\ phase' = "state"
    /\ todo' = Pairs
    /\ existing' = NoCopies
    /\ UNCHANGED <<remote, local, idMap, ledger, posting, landed, patched, late, gaveUp, counters>>

Last(p) == IF p \in DOMAIN ledger THEN ledger[p] ELSE None
Record(p, open) == ledger' = [q \in DOMAIN ledger \cup {p} |-> IF q = p THEN open ELSE ledger[q]]

\* Mutant: a side that differs from the ledger is taken for the stale one.
WinnerStale(p, aOpen, bOpen) ==
    IF Last(p) # None /\ aOpen # Last(p) THEN [side |-> "a", open |-> bOpen]
    ELSE [side |-> "b", open |-> aOpen]

\* Mutant: the winner's state is written to the winner.
WinnerOwnSide(p, aOpen, bOpen) ==
    IF Last(p) # None /\ bOpen # Last(p) THEN [side |-> "b", open |-> bOpen]
    ELSE [side |-> "a", open |-> aOpen]

\* Which side to write, and what: the side that left the agreed state wins;
\* if neither or both did, the original does.
Winner(p, aOpen, bOpen) ==
    LET aWins == [side |-> "b", open |-> aOpen]
        bWins == [side |-> "a", open |-> bOpen]
    IN  IF Last(p) # None /\ aOpen # Last(p) /\ bOpen = Last(p) THEN aWins
        ELSE IF Last(p) # None /\ bOpen # Last(p) /\ aOpen = Last(p) THEN bWins
        ELSE IF local["a"][p[1]].origin # 0 THEN bWins ELSE aWins

\* A pair with a missing end is passed over; one in agreement is recorded.
StateAgrees ==
    /\ phase = "state" /\ patched = None
    /\ \E p \in todo :
          LET x == local["a"][p[1]]
              y == local["b"][p[2]]
          IN  /\ todo' = todo \ {p}
              /\ \/ (x = None \/ y = None) /\ UNCHANGED ledger
                 \/ x # None /\ y # None /\ x.open = y.open /\ Record(p, x.open)
    /\ UNCHANGED <<remote, local, idMap, phase, existing, posting, landed, patched, late, gaveUp, counters>>

\* Both ends are listed and differ: what is to be written where.
Diverged(p) ==
    /\ local["a"][p[1]] # None /\ local["b"][p[2]] # None
    /\ local["a"][p[1]].open # local["b"][p[2]].open
Decision(p) == Winner(p, local["a"][p[1]].open, local["b"][p[2]].open)
Target(p) == IF Decision(p).side = "a" THEN p[1] ELSE p[2]
Patch(p) == remote' = [remote EXCEPT ![Decision(p).side][Target(p)].open = Decision(p).open]

\* setState: a direct PATCH, decided from the lists of this pass's syncs.
StatePatched ==
    /\ phase = "state" /\ patched = None
    /\ \E p \in todo :
          /\ Diverged(p) /\ Target(p) \in Real
          /\ Patch(p)
          /\ todo' = todo \ {p}
          /\ patched' = [pair |-> p, open |-> Decision(p).open]
    /\ UNCHANGED <<local, idMap, ledger, phase, existing, posting, landed, late, gaveUp, counters>>

\* The PATCH of an issue the system does not know fails; any other may fail,
\* or be applied and its answer lost.  Noted, the ledger stays.
StateFails ==
    /\ phase = "state" /\ patched = None
    /\ \E p \in todo :
          /\ Diverged(p)
          /\ \/ Target(p) \notin Real /\ UNCHANGED <<remote, faults>>
             \/ /\ Target(p) \in Real
                /\ faults < limits.faults
                /\ faults' = faults + 1
                /\ UNCHANGED remote \/ Patch(p)
          /\ todo' = todo \ {p}
    /\ UNCHANGED <<limits, local, idMap, ledger, phase, existing, posting, landed, patched, late, gaveUp,
                   wish, toggles, twice, restarts>>

StateRecorded ==
    /\ patched # None
    /\ Record(patched.pair, patched.open)
    /\ patched' = None
    /\ UNCHANGED <<remote, local, idMap, phase, todo, existing, posting, landed, late, gaveUp, counters>>

\* reflectComments syncs the comments of both ends of every pair; an end the
\* system does not know makes the whole pass throw.  Either way it is over.
StartComments ==
    /\ phase = "state" /\ todo = {} /\ patched = None
    /\ phase' = "comments"
    /\ UNCHANGED <<remote, local, idMap, ledger, todo, existing, posting, landed, patched, late, gaveUp, counters>>

EndPass ==
    /\ phase = "comments"
    /\ phase' = "idle"
    /\ UNCHANGED <<remote, local, idMap, ledger, todo, existing, posting, landed, patched, late, gaveUp, counters>>

-----------------------------------------------------------------------------
(* The process stops at any point and is started again: lists and queues are
   gone; the id map and the ledger are read back from their files, or start
   empty where a file is missing or unreadable. *)
Restart ==
    /\ restarts < limits.restarts
    /\ restarts' = restarts + 1
    /\ local' = [s \in Sides |-> Nothing(AllIds)]
    /\ idMap' \in {idMap, [s \in Sides |-> Nothing(AllIds)]}
    /\ ledger' \in {ledger, <<>>}
    /\ wish' = IF ledger' = ledger THEN wish ELSE None
    /\ phase' = "idle" /\ todo' = {} /\ existing' = NoCopies /\ posting' = 0
    /\ landed' = FALSE /\ patched' = None
    /\ late' = {} /\ gaveUp' = {}
    /\ UNCHANGED <<limits, remote, toggles, faults, twice>>

Engine ==
    \/ SyncA \/ SyncB \/ LinkKnown \/ PostCopy \/ CopyLands \/ LinkCopy \/ NextDirection
    \/ StartState \/ StateAgrees \/ StatePatched \/ StateRecorded
    \/ StartComments \/ EndPass

Next ==
    \/ Engine \/ SyncFails \/ CopyTwice \/ CopyAbandoned \/ LateCopyLands \/ StateFails \/ Restart
    \/ \E s \in Sides : PersonCreates(s) \/ PersonToggles(s)

Spec == Init /\ [][Next]_vars

\* The runner's timer keeps starting passes and each pass goes on; an
\* abandoned write may or may not be retried successfully.
LiveSpec == Spec /\ WF_vars(Engine)

-----------------------------------------------------------------------------
(* Properties. *)

\* "... or twice": an original has one copy, and one more for each POST the
\* client sent again after its response was lost, whatever restarts, lost id
\* maps and abandoned copies a pass meets between posting and linking.
CopiedOnce ==
    \A s \in Sides : \A i \in Real :
        Cardinality({j \in Real : remote[Other(s)][j] # None /\ remote[Other(s)][j].origin = i}) <= 1 + twice

\* A link joins a copy with the original its marker names, and both ends of
\* it agree: changes are never reflected onto an unrelated issue.
LinksMatchMarkers ==
    \A i, j \in Real :
        idMap["a"][i] = j =>
            /\ idMap["b"][j] = i
            /\ \/ remote["a"][i].origin = j /\ IsOriginal(remote["b"][j])
               \/ remote["b"][j].origin = i /\ IsOriginal(remote["a"][i])

\* Once people leave the issues alone, every original has its copy and the two
\* have the same state, for good (unless a copy was abandoned, a PATCH failed
\* or a copy was posted twice).
Converged ==
    \A s \in Sides : \A i \in Real :
        IsOriginal(remote[s][i]) =>
            \E j \in Real : /\ remote[Other(s)][j] # None
                            /\ remote[Other(s)][j].origin = i
                            /\ remote[Other(s)][j].open = remote[s][i].open
EventuallyConverged == <>[](Converged \/ faults > 0 \/ twice > 0)

\* "A change on either side is propagated to the counterpart", with the ledger
\* telling which side changed: a change made between passes to a pair whose
\* agreement is on record is never undone by the engine.
LastChangeWins ==
    <>[](wish # None /\ wish.recorded => remote[wish.side][wish.id].open = wish.open)

\* The same for every pair in agreement, recorded or not.
AgreedChangeWins ==
    <>[](wish # None => remote[wish.side][wish.id].open = wish.open)

=============================================================================
