----------------------- MODULE ReflectionEngineProofs -----------------------
(***************************************************************************)
(* What holds of the reflection of issues for any number of issues, faults, *)
(* restarts and duplicates: proofs for ReflectionEngine.                    *)
(***************************************************************************)
EXTENDS ReflectionEngine, FiniteSetTheorems, TLAPS

-----------------------------------------------------------------------------
(* The inductive invariant.                                                 *)

OriginalOn(s, i) == i \in Real /\ IsOriginal(remote[s][i])
(* The copies side s has of issue i of the other side.                     *)
RemoteCopies(s, i) == {j \in Real : remote[s][j] # None /\ remote[s][j].origin = i}

(* A client's list names issues its system has, with their markers, and     *)
(* copies that are still to be posted.                                     *)
ListsOK ==
    \A s \in Sides : \A i \in Real :
      /\ local[s][i] # None => remote[s][i] # None /\ local[s][i].origin = remote[s][i].origin
      /\ local[s][Temp(i)] # None => local[s][Temp(i)].origin = i

(* A marker names an issue a person wrote.                                 *)
MarkersOK ==
    \A s \in Sides : \A j, k \in Real : j \in RemoteCopies(s, k) => OriginalOn(Other(s), k)

(* An abandoned copy is still in the client's list, and no other copy but   *)
(* the ones posted twice is there.                                         *)
Unsettled(s, i) ==
    /\ OriginalOn(Other(s), i) /\ local[s][Temp(i)] # None
    /\ Cardinality(RemoteCopies(s, i)) <= twice
LateOK == \A s \in Sides : \A i \in Real : <<s, i>> \in late => Unsettled(s, i)

(* The loop that creates copies of the issues of side s: its sources, its   *)
(* marker scan, and the copy it waits for.                                  *)
Direction(s) == Creating /\ From = s
LoopOK ==
    \A s \in Sides : Direction(s) =>
      /\ \A i \in todo : OriginalOn(s, i)
      /\ \A i \in Real : \A j \in existing[i] \cap Real : j \in RemoteCopies(Other(s), i)
      /\ \A i \in todo \ {posting} : existing[i] = {} => Copies(local[Other(s)], i) = {}
Waiting(s, i) ==
    /\ i \in todo /\ idMap[s][i] = None
    /\ <<Other(s), i>> \notin late
    /\ ~landed => /\ local[Other(s)][Temp(i)] # None
                  /\ Cardinality(RemoteCopies(Other(s), i)) <= twice
PostingOK ==
    /\ landed => posting # 0
    /\ posting # 0 => Creating
    /\ \A s \in Sides : \A i \in Real : Direction(s) /\ posting = i => Waiting(s, i)

(* The lists of this pass's syncs show every issue that has a copy.        *)
Synced(s) == phase \in {"ab", "ba"} \/ (phase = "syncB" /\ s = "a")
Covered ==
    \A s \in Sides : Synced(s) =>
      \A i \in Real : RemoteCopies(s, i) # {} => Copies(local[s], i) # {}

(* A link and its way back, and the marker that vouches for it.            *)
Vouched(s, i, j) ==
    \/ i \in RemoteCopies(s, j) /\ OriginalOn(Other(s), j)
    \/ j \in RemoteCopies(Other(s), i) /\ OriginalOn(s, i)
LinksOK ==
    \A s \in Sides : \A i, j \in Real :
      idMap[s][i] = j => idMap[Other(s)][j] = i /\ Vouched(s, i, j)

CountOK == \A s \in Sides : \A i \in Real : Cardinality(RemoteCopies(s, i)) <= 1 + twice

(* The comments are reflected when no pair is left to compare.              *)
StatesDone == phase = "comments" => todo = {}

ReflectionInv ==
    /\ TypeOK /\ ListsOK /\ MarkersOK /\ LateOK /\ LoopOK /\ PostingOK
    /\ Covered /\ LinksOK /\ CountOK /\ StatesDone

-----------------------------------------------------------------------------
(* Facts about the data. *)

\* The ids of issues and of copies still to be posted, and the two sides.
LEMMA Ids ==
    /\ N \in Nat /\ 0 \notin Real /\ Real \subseteq AllIds /\ Real \subseteq 0..N
    /\ \A i \in Real : Temp(i) \in AllIds /\ Temp(i) \notin Real
    /\ \A i, j \in Real : Temp(i) = Temp(j) => i = j
    /\ \A x \in AllIds \ Real : \E i \in Real : x = Temp(i)
    /\ None \notin Issues /\ None \notin AllIds
    /\ \A s \in Sides : Other(s) \in Sides /\ Other(s) # s /\ Other(Other(s)) = s
    /\ From \in Sides /\ To \in Sides /\ To = Other(From)
<1>1. N \in Nat
    BY LimitsAssumption
<1>2. /\ 0 \notin Real /\ Real \subseteq AllIds /\ Real \subseteq 0..N
      /\ \A i \in Real : Temp(i) \in AllIds /\ Temp(i) \notin Real
      /\ \A i, j \in Real : Temp(i) = Temp(j) => i = j
    BY <1>1 DEF Real, AllIds, Temp
<1>3. ASSUME NEW x \in AllIds \ Real PROVE \E i \in Real : x = Temp(i)
    <2>1. x - N \in Real /\ x = Temp(x - N)
        BY <1>1 DEF Real, AllIds, Temp
    <2> QED
        BY <2>1
<1>4. \A s \in Sides : Other(s) \in Sides /\ Other(s) # s /\ Other(Other(s)) = s
    BY DEF Sides, Other
<1>5. From \in Sides /\ To = Other(From)
    BY DEF From, To, Sides
<1> QED
    BY <1>1, <1>2, <1>3, <1>4, <1>5, ModelValueAssumption

\* An issue has an origin and a state; a copy is one.
LEMMA IssueFacts ==
    /\ \A x \in Issues : x # None /\ x.origin \in 0..N /\ x.open \in BOOLEAN
    /\ \A x \in Issues, b \in BOOLEAN : [x EXCEPT !.open = b] \in Issues
                                        /\ [x EXCEPT !.open = b].origin = x.origin
    /\ \A i \in Real : Copy(i) \in Issues /\ Copy(i).origin = i /\ Copy(i) # None
    /\ [origin |-> 0, open |-> TRUE] \in Issues
<1>1. \A x \in Issues : x # None /\ x.origin \in 0..N /\ x.open \in BOOLEAN
    BY Ids DEF Issues
<1>2. \A i \in Real : Copy(i) \in Issues /\ Copy(i).origin = i
    BY Ids DEF Issues, Copy
<1>3. [origin |-> 0, open |-> TRUE] \in Issues
    BY Ids DEF Issues
<1>4. \A x \in Issues, b \in BOOLEAN : [x EXCEPT !.open = b] \in Issues
                                       /\ [x EXCEPT !.open = b].origin = x.origin
    BY DEF Issues
<1> QED
    BY <1>1, <1>2, <1>3, <1>4, Ids

\* The lists, one entry at a time.
LEMMA EntryTypes ==
    ASSUME TypeOK, NEW s \in Sides
    PROVE  /\ \A i \in Real : remote[s][i] \in Issues \cup {None}
           /\ \A x \in AllIds : local[s][x] \in Issues \cup {None}
           /\ \A x \in AllIds : idMap[s][x] \in AllIds \cup {None}
           /\ Sources(local[s]) \subseteq AllIds
           /\ Markers(local[s]) \in [Real -> SUBSET AllIds]
BY DEF TypeOK, Sources, Markers, Copies

\* One entry written.
LEMMA WriteRemote ==
    ASSUME TypeOK, NEW s \in Sides, NEW r \in Real, NEW x \in Issues \cup {None}
    PROVE  LET new == [remote EXCEPT ![s][r] = x]
           IN  /\ new \in [Sides -> [Real -> Issues \cup {None}]]
               /\ new[s][r] = x
               /\ \A t \in Sides, j \in Real : <<t, j>> # <<s, r>> => new[t][j] = remote[t][j]
BY DEF TypeOK

\* The same in a client's list.
LEMMA WriteLocal ==
    ASSUME TypeOK, NEW s \in Sides, NEW r \in AllIds, NEW x \in Issues \cup {None}
    PROVE  LET new == [local EXCEPT ![s][r] = x]
           IN  /\ new \in [Sides -> [AllIds -> Issues \cup {None}]]
               /\ new[s][r] = x
               /\ \A t \in Sides, j \in AllIds : <<t, j>> # <<s, r>> => new[t][j] = local[t][j]
BY DEF TypeOK

-----------------------------------------------------------------------------
(* What the steps change. *)

\* The issues have the markers they had, whatever their state, and a new issue
\* has none.
SameMarkers ==
    \A s \in Sides : \A j \in Real :
      /\ remote[s][j] # None => remote'[s][j] # None /\ remote'[s][j].origin = remote[s][j].origin
      /\ remote[s][j] = None => remote'[s][j] = None \/ remote'[s][j].origin = 0

\* A system has one more issue.
Added(s, r, x) ==
    /\ r \in Real /\ remote[s][r] = None /\ remote'[s][r] = x
    /\ \A t \in Sides, j \in Real : <<t, j>> # <<s, r>> => remote'[t][j] = remote[t][j]

\* A new issue takes an id that is free.
LEMMA AddFacts ==
    ASSUME TypeOK, NEW s \in Sides, NEW r \in NextIds(s), NEW x \in Issues,
           remote' = [remote EXCEPT ![s][r] = x]
    PROVE  Added(s, r, x) /\ remote' \in [Sides -> [Real -> Issues \cup {None}]]
<1>1. r \in Real /\ remote[s][r] = None
    BY DEF NextIds
<1> QED
    BY <1>1, WriteRemote DEF Added

\* A copy lands: its system has one more issue, and the client's list the same
\* under the id it was given.
LEMMA LandFacts ==
    ASSUME TypeOK, NEW to \in Sides, NEW i \in Real, Land(to, i)
    PROVE  /\ remote' \in [Sides -> [Real -> Issues \cup {None}]]
           /\ local' \in [Sides -> [AllIds -> Issues \cup {None}]]
           /\ \E r \in Real :
                /\ Added(to, r, Copy(i))
                /\ local'[to][r] = Copy(i) /\ local'[to][Temp(i)] = None
                /\ \A t \in Sides, x \in AllIds :
                     <<t, x>> \notin {<<to, r>>, <<to, Temp(i)>>} => local'[t][x] = local[t][x]
<1>1. PICK r \in NextIds(to) :
        /\ remote' = [remote EXCEPT ![to][r] = Copy(i)]
        /\ local' = [local EXCEPT ![to][Temp(i)] = None, ![to][r] = Copy(i)]
    BY DEF Land
<1>2. Copy(i) \in Issues /\ Temp(i) \in AllIds /\ Temp(i) \notin Real
    BY IssueFacts, Ids
<1>3. Added(to, r, Copy(i)) /\ remote' \in [Sides -> [Real -> Issues \cup {None}]]
    BY <1>1, <1>2, AddFacts
<1>4. r \in Real /\ r \in AllIds /\ r # Temp(i)
    BY <1>2, <1>3, Ids DEF Added
<1>5. /\ local' \in [Sides -> [AllIds -> Issues \cup {None}]]
      /\ local'[to][r] = Copy(i) /\ local'[to][Temp(i)] = None
      /\ \A t \in Sides, x \in AllIds :
           <<t, x>> \notin {<<to, r>>, <<to, Temp(i)>>} => local'[t][x] = local[t][x]
    BY <1>1, <1>2, <1>4 DEF TypeOK
<1> QED
    BY <1>3, <1>4, <1>5

\* A link is set in both directions.
LEMMA LinkFacts ==
    ASSUME TypeOK, NEW from \in Sides, NEW i \in AllIds, NEW j \in AllIds, Link(from, i, j)
    PROVE  /\ idMap' \in [Sides -> [AllIds -> AllIds \cup {None}]]
           /\ idMap'[from][i] = j /\ idMap'[Other(from)][j] = i
           /\ \A t \in Sides, x \in AllIds :
                <<t, x>> \notin {<<from, i>>, <<Other(from), j>>} => idMap'[t][x] = idMap[t][x]
<1>1. Other(from) \in Sides /\ Other(from) # from
    BY Ids
<1> QED
    BY <1>1 DEF Link, TypeOK

\* An issue with another state has the marker it had.
LEMMA StateChanged ==
    ASSUME TypeOK, NEW s \in Sides, NEW r \in Real, NEW x \in Issues, remote[s][r] # None,
           x.origin = remote[s][r].origin, remote' = [remote EXCEPT ![s][r] = x]
    PROVE  remote' \in [Sides -> [Real -> Issues \cup {None}]] /\ SameMarkers
<1>1. /\ remote' \in [Sides -> [Real -> Issues \cup {None}]] /\ remote'[s][r] = x
      /\ \A t \in Sides, j \in Real : <<t, j>> # <<s, r>> => remote'[t][j] = remote[t][j]
    BY WriteRemote
<1>2. ASSUME NEW t \in Sides, NEW j \in Real
      PROVE  /\ remote[t][j] # None => remote'[t][j] # None /\ remote'[t][j].origin = remote[t][j].origin
             /\ remote[t][j] = None => remote'[t][j] = None
    <2>1. CASE t = s /\ j = r
        BY <1>1, <2>1, IssueFacts
    <2>2. CASE ~(t = s /\ j = r)
        BY <1>1, <2>2
    <2> QED
        BY <2>1, <2>2
<1> QED
    BY <1>1, <1>2 DEF SameMarkers

\* A PATCH changes the state of an issue its system has.
LEMMA PatchFacts ==
    ASSUME TypeOK, ListsOK, NEW p \in AllIds \X AllIds, Diverged(p), Target(p) \in Real
    PROVE  /\ Decision(p).side \in Sides /\ Decision(p).open \in BOOLEAN
           /\ Patch(p) => remote' \in [Sides -> [Real -> Issues \cup {None}]] /\ SameMarkers
<1>1. p[1] \in AllIds /\ p[2] \in AllIds /\ "a" \in Sides /\ "b" \in Sides
    BY DEF Sides
<1>2. local["a"][p[1]] \in Issues /\ local["b"][p[2]] \in Issues
    BY <1>1, EntryTypes DEF Diverged
<1>3. local["a"][p[1]].open \in BOOLEAN /\ local["b"][p[2]].open \in BOOLEAN
    BY <1>2, IssueFacts
<1>4. /\ Decision(p).side \in Sides /\ Decision(p).open \in BOOLEAN
      /\ Decision(p).side \in {"a", "b"}
    BY <1>3 DEF Decision, Winner, Sides
<1> DEFINE s == Decision(p).side
           r == Target(p)
           b == Decision(p).open
<1>5. local[s][r] # None
    BY <1>4 DEF Diverged, Target
<1>6. remote[s][r] \in Issues
    BY <1>4, <1>5, EntryTypes DEF ListsOK
<1>7. [remote[s][r] EXCEPT !.open = b] \in Issues /\ [remote[s][r] EXCEPT !.open = b].origin = remote[s][r].origin
    BY <1>4, <1>6, IssueFacts
<1>8. ASSUME Patch(p) PROVE remote' = [remote EXCEPT ![s][r] = [remote[s][r] EXCEPT !.open = b]]
    BY <1>4, <1>8 DEF Patch, TypeOK
<1>9. ASSUME Patch(p) PROVE remote' \in [Sides -> [Real -> Issues \cup {None}]] /\ SameMarkers
    <2>1. PICK x \in Issues : x = [remote[s][r] EXCEPT !.open = b] /\ x.origin = remote[s][r].origin
        BY <1>7
    <2>2. remote' = [remote EXCEPT ![s][r] = x]
        BY <1>8, <1>9, <2>1
    <2>3. s \in Sides /\ r \in Real /\ remote[s][r] # None
        BY <1>4, <1>6, IssueFacts
    <2>4. x.origin = remote[s][r].origin
        BY <2>1
    <2> HIDE DEF s, r, b
    <2> QED
        BY <2>2, <2>3, <2>4, StateChanged
<1> QED
    BY <1>4, <1>9

\* A person's change of a state leaves the markers alone.
LEMMA ToggleFacts ==
    ASSUME TypeOK, NEW s \in Sides, NEW i \in Real, remote[s][i] # None,
           remote' = [remote EXCEPT ![s][i].open = ~@]
    PROVE  remote' \in [Sides -> [Real -> Issues \cup {None}]] /\ SameMarkers
<1>1. remote[s][i] \in Issues /\ remote[s][i].open \in BOOLEAN
    BY EntryTypes, IssueFacts
<1> DEFINE x == [remote[s][i] EXCEPT !.open = ~remote[s][i].open]
<1>2. remote' = [remote EXCEPT ![s][i] = x]
    BY DEF TypeOK
<1>3. x \in Issues /\ x.origin = remote[s][i].origin /\ x # None
    BY <1>1, IssueFacts
<1> HIDE DEF x
<1>4. PICK y \in Issues : y = x
    BY <1>3
<1>5. remote' = [remote EXCEPT ![s][i] = y] /\ y.origin = remote[s][i].origin
    BY <1>2, <1>3, <1>4
<1> QED
    BY <1>5, StateChanged

-----------------------------------------------------------------------------
(* Every step keeps the types. *)

\* A loop over pairs has pairs to visit, any other loop issues.
LEMMA TodoTypes ==
    ASSUME TypeOK
    PROVE  /\ phase \in {"state", "comments"} => todo \subseteq AllIds \X AllIds
           /\ phase \notin {"state", "comments"} => todo \subseteq AllIds
           /\ posting # 0 => posting \in Real
BY Ids DEF TypeOK, Real

\* Recording an agreed state keeps the ledger's type.
LEMMA RecordTypes ==
    ASSUME TypeOK, NEW p \in AllIds \X AllIds, NEW b \in BOOLEAN, Record(p, b)
    PROVE  \A q \in DOMAIN ledger' : q \in AllIds \X AllIds /\ ledger'[q] \in BOOLEAN
<1>1. DOMAIN ledger' = DOMAIN ledger \cup {p}
    BY DEF Record
<1>2. \A q \in DOMAIN ledger' : ledger'[q] = IF q = p THEN b ELSE ledger[q]
    BY DEF Record
<1>3. ASSUME NEW q \in DOMAIN ledger' PROVE q \in AllIds \X AllIds /\ ledger'[q] \in BOOLEAN
    <2>1. CASE q = p
        BY <1>2, <2>1
    <2>2. CASE q # p
        BY <1>1, <1>2, <2>2 DEF TypeOK
    <2> QED
        BY <2>1, <2>2
<1> QED
    BY <1>3

\* What a loop knows of a source is an id.
LEMMA KnownTypes ==
    ASSUME TypeOK, NEW i \in AllIds
    PROVE  Known(i) \subseteq AllIds
BY Ids, EntryTypes DEF Known, TypeOK

\* A sync replaces one client's list.
LEMMA SyncFacts ==
    ASSUME TypeOK, NEW s \in Sides, local' = [local EXCEPT ![s] = Fetched(s)]
    PROVE  /\ local' \in [Sides -> [AllIds -> Issues \cup {None}]]
           /\ local'[Other(s)] = local[Other(s)]
           /\ \A i \in Real : local'[s][i] = remote[s][i] /\ local'[s][Temp(i)] = local[s][Temp(i)]
<1>1. Fetched(s) \in [AllIds -> Issues \cup {None}]
    BY EntryTypes DEF Fetched
<1>2. local' \in [Sides -> [AllIds -> Issues \cup {None}]] /\ local'[s] = Fetched(s) /\ local'[Other(s)] = local[Other(s)]
    BY <1>1, Ids DEF TypeOK
<1> QED
    BY <1>2, Ids DEF Fetched

\* The bounds of a behaviour are numbers.
LEMMA BoundTypes ==
    ASSUME TypeOK
    PROVE  /\ limits.toggles \in Nat /\ limits.faults \in Nat /\ limits.twice \in Nat /\ limits.restarts \in Nat
           /\ toggles \in Nat /\ faults \in Nat /\ twice \in Nat /\ restarts \in Nat
<1>1. limits \in [originals : Nat, toggles : Nat, faults : Nat, twice : Nat, restarts : Nat]
    BY LimitsAssumption DEF TypeOK
<1> QED
    BY <1>1 DEF TypeOK

\* The steps of the loops that create copies keep the types.
LEMMA CreateTypes ==
    ASSUME TypeOK, PostingOK, SyncA \/ SyncB \/ LinkKnown \/ PostCopy \/ CopyLands \/ LinkCopy \/ NextDirection
    PROVE  TypeOK'
<1> USE DEF pass, counters
<1>0. "a" \in Sides /\ "b" \in Sides /\ posting \in 0..N /\ 0 \in 0..N
    BY Ids DEF Sides, TypeOK
<1>1. CASE SyncA
    <2>1. local' \in [Sides -> [AllIds -> Issues \cup {None}]]
        BY <1>0, <1>1, SyncFacts DEF SyncA
    <2> QED
        BY <1>1, <2>1 DEF SyncA, TypeOK, Phases
<1>2. CASE SyncB
    <2>1. local' \in [Sides -> [AllIds -> Issues \cup {None}]]
        BY <1>0, <1>2, SyncFacts DEF SyncB
    <2>2. todo' \subseteq AllIds /\ existing' \in [Real -> SUBSET AllIds]
        BY <1>2 DEF SyncB, Sources, Markers, Copies
    <2> QED
        BY <1>2, <2>1, <2>2 DEF SyncB, TypeOK, Phases
<1>3. CASE LinkKnown
    <2>1. Creating /\ todo \subseteq AllIds
        BY <1>3, TodoTypes DEF LinkKnown, Creating
    <2>2. PICK i \in todo : (\E j \in Known(i) : Link(From, i, j)) /\ todo' = todo \ {i}
        BY <1>3 DEF LinkKnown
    <2>3. PICK j \in Known(i) : Link(From, i, j)
        BY <2>2
    <2>4. idMap' \in [Sides -> [AllIds -> AllIds \cup {None}]]
        BY <2>1, <2>2, <2>3, KnownTypes, LinkFacts, Ids
    <2>5. todo' \subseteq AllIds /\ phase \notin {"state", "comments"}
        BY <2>1, <2>2 DEF Creating
    <2> QED
        BY <1>3, <2>4, <2>5 DEF LinkKnown, TypeOK
<1>4. CASE PostCopy
    <2>1. PICK i \in todo \cap Real : posting' = i /\ local' = [local EXCEPT ![To][Temp(i)] = Copy(i)]
        BY <1>4 DEF PostCopy
    <2>2. local' \in [Sides -> [AllIds -> Issues \cup {None}]] /\ posting' \in 0..N
        BY <2>1, WriteLocal, Ids, IssueFacts
    <2> QED
        BY <1>4, <2>2 DEF PostCopy, TypeOK
<1>5. CASE CopyLands
    <2>1. /\ remote' \in [Sides -> [Real -> Issues \cup {None}]]
          /\ local' \in [Sides -> [AllIds -> Issues \cup {None}]]
        BY <1>5, TodoTypes, LandFacts, Ids DEF CopyLands
    <2> QED
        BY <1>5, <2>1 DEF CopyLands, TypeOK
<1>6. CASE LinkCopy
    <2>1. PICK j \in Copies(local[To], posting) : Link(From, posting, j)
        BY <1>6 DEF LinkCopy
    <2>2. posting # 0
        BY <1>6 DEF LinkCopy, PostingOK
    <2>3. idMap' \in [Sides -> [AllIds -> AllIds \cup {None}]]
        BY <2>1, <2>2, LinkFacts, Ids, TodoTypes DEF Copies
    <2>4. todo' \subseteq todo /\ posting' = 0 /\ landed' = FALSE
        BY <1>6 DEF LinkCopy
    <2> QED
        BY <1>6, <1>0, <2>3, <2>4 DEF LinkCopy, TypeOK
<1>7. CASE NextDirection
    <2>1. todo' \subseteq AllIds /\ existing' \in [Real -> SUBSET AllIds]
        BY <1>7 DEF NextDirection, Sources, Markers, Copies
    <2> QED
        BY <1>7, <2>1 DEF NextDirection, TypeOK, Phases
<1> QED
    BY <1>1, <1>2, <1>3, <1>4, <1>5, <1>6, <1>7

\* The steps of the state pass keep the types.
LEMMA StateTypes ==
    ASSUME TypeOK, ListsOK, StatesDone,
           StartState \/ StateAgrees \/ StatePatched \/ StateRecorded \/ StateFails \/ StartComments \/ EndPass
    PROVE  TypeOK'
<1> USE DEF pass, counters
<1>0. "a" \in Sides /\ "b" \in Sides
    BY DEF Sides
<1>1. CASE StartState
    <2>1. todo' \subseteq AllIds \X AllIds /\ existing' \in [Real -> SUBSET AllIds]
        BY <1>1 DEF StartState, Pairs, NoCopies
    <2> QED
        BY <1>1, <2>1 DEF StartState, TypeOK, Phases
<1>2. CASE StateAgrees
    <2>1. PICK p \in todo :
            /\ todo' = todo \ {p}
            /\ \/ UNCHANGED ledger
               \/ local["a"][p[1]] # None /\ Record(p, local["a"][p[1]].open)
        BY <1>2 DEF StateAgrees
    <2>2. p \in AllIds \X AllIds /\ p[1] \in AllIds
        BY <1>2, <2>1, TodoTypes DEF StateAgrees
    <2>3. \A q \in DOMAIN ledger' : q \in AllIds \X AllIds /\ ledger'[q] \in BOOLEAN
        <3>1. CASE UNCHANGED ledger
            BY <3>1 DEF TypeOK
        <3>2. CASE local["a"][p[1]] # None /\ Record(p, local["a"][p[1]].open)
            <4>1. local["a"][p[1]].open \in BOOLEAN
                BY <1>0, <2>2, <3>2, EntryTypes, IssueFacts
            <4> QED
                BY <2>2, <3>2, <4>1, RecordTypes
        <3> QED
            BY <2>1, <3>1, <3>2
    <2> QED
        BY <1>2, <2>1, <2>3 DEF StateAgrees, TypeOK
<1>3. CASE StatePatched
    <2>1. PICK p \in todo :
            /\ Diverged(p) /\ Target(p) \in Real /\ Patch(p) /\ todo' = todo \ {p}
            /\ patched' = [pair |-> p, open |-> Decision(p).open]
        BY <1>3 DEF StatePatched
    <2>2. p \in AllIds \X AllIds
        BY <1>3, <2>1, TodoTypes DEF StatePatched
    <2>3. remote' \in [Sides -> [Real -> Issues \cup {None}]] /\ Decision(p).open \in BOOLEAN
        BY <2>1, <2>2, PatchFacts
    <2>4. patched' \in [pair : AllIds \X AllIds, open : BOOLEAN]
        BY <2>1, <2>2, <2>3
    <2>5. todo' \subseteq todo
        BY <2>1
    <2> QED
        BY <1>3, <2>3, <2>4, <2>5 DEF StatePatched, TypeOK
<1>4. CASE StateRecorded
    <2>1. patched.pair \in AllIds \X AllIds /\ patched.open \in BOOLEAN
        BY <1>4 DEF StateRecorded, TypeOK
    <2>2. \A q \in DOMAIN ledger' : q \in AllIds \X AllIds /\ ledger'[q] \in BOOLEAN
        <3>1. PICK p \in AllIds \X AllIds : p = patched.pair
            BY <2>1
        <3>2. PICK b \in BOOLEAN : b = patched.open
            BY <2>1
        <3> QED
            BY <1>4, <3>1, <3>2, RecordTypes DEF StateRecorded
    <2> QED
        BY <1>4, <2>2 DEF StateRecorded, TypeOK
<1>5. CASE StateFails
    <2>1. PICK p \in todo :
            /\ Diverged(p) /\ todo' = todo \ {p}
            /\ remote' = remote \/ (Target(p) \in Real /\ Patch(p))
            /\ faults' = faults \/ (faults < limits.faults /\ faults' = faults + 1)
        BY <1>5 DEF StateFails
    <2>2. p \in AllIds \X AllIds
        BY <1>5, <2>1, TodoTypes DEF StateFails
    <2>3. remote' \in [Sides -> [Real -> Issues \cup {None}]]
        <3>1. CASE remote' = remote
            BY <3>1 DEF TypeOK
        <3>2. CASE Target(p) \in Real /\ Patch(p)
            BY <2>1, <2>2, <3>2, PatchFacts
        <3> QED
            BY <2>1, <3>1, <3>2
    <2>4. faults' \in 0..limits.faults /\ todo' \subseteq todo
        BY <2>1, BoundTypes DEF TypeOK
    <2> QED
        BY <1>5, <2>3, <2>4 DEF StateFails, TypeOK
<1>6. CASE StartComments
    BY <1>6 DEF StartComments, TypeOK, Phases
<1>7. CASE EndPass
    BY <1>7 DEF EndPass, TypeOK, Phases, StatesDone
<1> QED
    BY <1>1, <1>2, <1>3, <1>4, <1>5, <1>6, <1>7

\* Faults, people and restarts keep the types.
LEMMA FaultTypes ==
    ASSUME TypeOK, SyncFails \/ CopyTwice \/ CopyAbandoned \/ LateCopyLands \/ Restart
                   \/ \E s \in Sides : PersonCreates(s) \/ PersonToggles(s)
    PROVE  TypeOK'
<1> USE DEF pass, counters
<1>0. 0 \in 0..N
    BY Ids
<1>1. CASE SyncFails
    <2>1. faults' \in 0..limits.faults
        BY <1>1, BoundTypes DEF SyncFails
    <2>2. phase = "syncB" /\ phase' = "idle" /\ todo' = todo
        BY <1>1 DEF SyncFails
    <2>3. todo' \subseteq AllIds
        BY <2>2, TodoTypes
    <2> QED
        BY <1>1, <2>1, <2>2, <2>3 DEF SyncFails, TypeOK, Phases
<1>2. CASE CopyTwice
    <2>1. PICK r \in NextIds(To) : remote' = [remote EXCEPT ![To][r] = Copy(posting)]
        BY <1>2 DEF CopyTwice
    <2>2. posting \in Real
        BY <1>2, TodoTypes DEF CopyTwice
    <2>3. remote' \in [Sides -> [Real -> Issues \cup {None}]]
        BY <2>1, <2>2, AddFacts, IssueFacts, Ids
    <2>4. twice' \in 0..limits.twice
        BY <1>2, BoundTypes DEF CopyTwice
    <2> QED
        BY <1>2, <2>3, <2>4 DEF CopyTwice, TypeOK
<1>3. CASE CopyAbandoned
    <2>1. <<To, posting>> \in Sides \X Real
        BY <1>3, TodoTypes, Ids DEF CopyAbandoned
    <2>2. late' \subseteq Sides \X Real
        BY <1>3, <2>1 DEF CopyAbandoned, TypeOK
    <2>3. gaveUp' \subseteq Sides
        BY <1>3, Ids DEF CopyAbandoned, TypeOK
    <2>4. faults' \in 0..limits.faults
        BY <1>3, BoundTypes DEF CopyAbandoned, TypeOK
    <2>5. todo' \subseteq todo /\ posting' = 0 /\ landed' = FALSE
        BY <1>3 DEF CopyAbandoned
    <2> QED
        BY <1>0, <1>3, <2>2, <2>3, <2>4, <2>5 DEF CopyAbandoned, TypeOK
<1>4. CASE LateCopyLands
    <2>1. PICK w \in late : Land(w[1], w[2]) /\ late' = late \ {w}
        BY <1>4 DEF LateCopyLands
    <2>2. w[1] \in Sides /\ w[2] \in Real
        BY <2>1 DEF TypeOK
    <2>3. /\ remote' \in [Sides -> [Real -> Issues \cup {None}]]
          /\ local' \in [Sides -> [AllIds -> Issues \cup {None}]]
        BY <2>1, <2>2, LandFacts
    <2>4. late' \subseteq Sides \X Real
        BY <2>1 DEF TypeOK
    <2> QED
        BY <1>4, <2>3, <2>4 DEF LateCopyLands, TypeOK
<1>5. CASE Restart
    <2>1. local' \in [Sides -> [AllIds -> Issues \cup {None}]]
        BY <1>5 DEF Restart, Nothing
    <2>2. idMap' \in [Sides -> [AllIds -> AllIds \cup {None}]]
        BY <1>5 DEF Restart, Nothing, TypeOK
    <2>3. \A q \in DOMAIN ledger' : q \in AllIds \X AllIds /\ ledger'[q] \in BOOLEAN
        BY <1>5 DEF Restart, TypeOK
    <2>4. wish' \in {wish, None}
        BY <1>5 DEF Restart
    <2>5. existing' \in [Real -> SUBSET AllIds]
        BY <1>5 DEF Restart, NoCopies
    <2>6. restarts' \in 0..limits.restarts
        BY <1>5, BoundTypes DEF Restart
    <2> QED
        BY <1>0, <1>5, <2>1, <2>2, <2>3, <2>4, <2>5, <2>6 DEF Restart, TypeOK, Phases
<1>6. ASSUME NEW s \in Sides, PersonCreates(s) PROVE TypeOK'
    <2>1. PICK r \in NextIds(s) : remote' = [remote EXCEPT ![s][r] = [origin |-> 0, open |-> TRUE]]
        BY <1>6 DEF PersonCreates
    <2>2. PICK x \in Issues : x = [origin |-> 0, open |-> TRUE]
        BY IssueFacts
    <2>3. remote' \in [Sides -> [Real -> Issues \cup {None}]]
        BY <2>1, <2>2, AddFacts
    <2> QED
        BY <1>6, <2>3 DEF PersonCreates, TypeOK
<1>7. ASSUME NEW s \in Sides, PersonToggles(s) PROVE TypeOK'
    <2> DEFINE rec(i) == \A p \in PairsOf(s, i) : ledger[p] = remote[s][i].open
    <2> DEFINE agreed(i) == {p \in PairsOf(s, i) : remote["a"][p[1]].open = remote["b"][p[2]].open}
    <2>0. PICK i \in Real :
            /\ remote[s][i] # None /\ remote' = [remote EXCEPT ![s][i].open = ~@]
            /\ wish' = IF phase = "idle" /\ agreed(i) # {}
                       THEN [side |-> s, id |-> i, open |-> ~remote[s][i].open, recorded |-> rec(i)]
                       ELSE None
        BY <1>7, Zenon DEF PersonToggles
    <2>1. \/ wish' = None
          \/ wish' = [side |-> s, id |-> i, open |-> ~remote[s][i].open, recorded |-> rec(i)]
        BY <2>0, Zenon
    <2>2. remote' \in [Sides -> [Real -> Issues \cup {None}]]
        BY <2>0, ToggleFacts
    <2>3. wish' \in [side : Sides, id : Real, open : BOOLEAN, recorded : BOOLEAN] \cup {None}
        <3>1. \A b, c \in BOOLEAN :
                [side |-> s, id |-> i, open |-> b, recorded |-> c]
                  \in [side : Sides, id : Real, open : BOOLEAN, recorded : BOOLEAN]
            OBVIOUS
        <3>2. rec(i) \in BOOLEAN /\ (~remote[s][i].open) \in BOOLEAN
            OBVIOUS
        <3> HIDE DEF rec
        <3>3. [side |-> s, id |-> i, open |-> ~remote[s][i].open, recorded |-> rec(i)]
                \in [side : Sides, id : Real, open : BOOLEAN, recorded : BOOLEAN]
            BY <3>1, <3>2, Zenon
        <3> QED
            BY <2>1, <3>3, Zenon
    <2>4. toggles' \in 0..limits.toggles
        BY <1>7, BoundTypes DEF PersonToggles
    <2> QED
        BY <1>7, <2>2, <2>3, <2>4 DEF PersonToggles, TypeOK
<1> QED
    BY <1>1, <1>2, <1>3, <1>4, <1>5, <1>6, <1>7

\* Every step keeps the types.
LEMMA TypeStep ==
    ASSUME ReflectionInv, [Next]_vars
    PROVE  TypeOK'
<1> USE DEF ReflectionInv
<1>1. CASE Next
    BY <1>1, CreateTypes, StateTypes, FaultTypes DEF Next, Engine
<1>2. CASE UNCHANGED vars
    BY <1>2 DEF vars, TypeOK
<1> QED
    BY <1>1, <1>2

-----------------------------------------------------------------------------
(* Steps that create no copy and leave the lists and the links alone. *)

\* Issues are never removed and never lose their marker.
Grows ==
    \A s \in Sides : \A j \in Real :
      remote[s][j] # None => remote'[s][j] # None /\ remote'[s][j].origin = remote[s][j].origin

\* What a system's issues vouch for, they go on vouching for.
LEMMA GrowFacts ==
    ASSUME Grows
    PROVE  /\ \A s \in Sides, i \in Real : RemoteCopies(s, i) \subseteq RemoteCopies(s, i)'
           /\ \A s \in Sides, i \in Real : OriginalOn(s, i) => OriginalOn(s, i)'
           /\ \A s \in Sides, i, j \in Real : Vouched(s, i, j) => Vouched(s, i, j)'
<1>1. \A s \in Sides, i \in Real : RemoteCopies(s, i) \subseteq RemoteCopies(s, i)'
    BY DEF Grows, RemoteCopies
<1>2. \A s \in Sides, i \in Real : OriginalOn(s, i) => OriginalOn(s, i)'
    BY DEF Grows, OriginalOn, IsOriginal
<1>3. \A s \in Sides, i, j \in Real : Vouched(s, i, j) => Vouched(s, i, j)'
    BY <1>1, <1>2, Ids DEF Vouched
<1> QED
    BY <1>1, <1>2, <1>3

\* With the markers as before, so are the copies and the originals.
LEMMA SameFacts ==
    ASSUME SameMarkers
    PROVE  /\ Grows
           /\ \A s \in Sides, i \in Real : RemoteCopies(s, i)' = RemoteCopies(s, i)
<1>1. Grows
    BY DEF SameMarkers, Grows
<1>2. \A s \in Sides, i \in Real : RemoteCopies(s, i)' = RemoteCopies(s, i)
    BY Ids DEF SameMarkers, RemoteCopies
<1> QED
    BY <1>1, <1>2

\* Lists that are left alone agree with the issues there are.
LEMMA ListsKept ==
    ASSUME ListsOK, Grows, UNCHANGED local
    PROVE  ListsOK'
BY DEF ListsOK, Grows

\* The same of the links.
LEMMA LinksKept ==
    ASSUME LinksOK, Grows, UNCHANGED idMap
    PROVE  LinksOK'
<1> SUFFICES ASSUME NEW s \in Sides, NEW i \in Real, NEW j \in Real, idMap[s][i] = j
             PROVE  idMap[Other(s)][j] = i /\ Vouched(s, i, j)'
    BY DEF LinksOK
<1>1. idMap[Other(s)][j] = i /\ Vouched(s, i, j)
    BY DEF LinksOK
<1> QED
    BY <1>1, GrowFacts

\* Without new copies nothing that the issues and the lists say of each other
\* changes.
LEMMA QuietIssues ==
    ASSUME ReflectionInv, SameMarkers, UNCHANGED <<local, twice>>
    PROVE  /\ ListsOK' /\ MarkersOK' /\ CountOK'
           /\ \A s \in Sides, i \in Real : Unsettled(s, i) => Unsettled(s, i)'
<1> USE DEF ReflectionInv
<1>1. ListsOK'
    BY SameFacts, ListsKept
<1>2. MarkersOK'
    <2> SUFFICES ASSUME NEW s \in Sides, NEW j \in Real, NEW k \in Real, j \in RemoteCopies(s, k)'
                 PROVE  OriginalOn(Other(s), k)'
        BY DEF MarkersOK
    <2>1. OriginalOn(Other(s), k)
        BY SameFacts DEF MarkersOK
    <2> QED
        BY <2>1, SameFacts, GrowFacts, Ids
<1>3. ASSUME NEW s \in Sides, NEW i \in Real, Unsettled(s, i) PROVE Unsettled(s, i)'
    <2>1. RemoteCopies(s, i)' = RemoteCopies(s, i)
        BY SameFacts
    <2>2. OriginalOn(Other(s), i)'
        BY <1>3, SameFacts, GrowFacts, Ids DEF Unsettled
    <2> QED
        BY <1>3, <2>1, <2>2 DEF Unsettled
<1>4. CountOK'
    <2> SUFFICES ASSUME NEW s \in Sides, NEW i \in Real
                 PROVE  Cardinality(RemoteCopies(s, i)') <= 1 + twice
        BY DEF CountOK
    <2>1. RemoteCopies(s, i)' = RemoteCopies(s, i)
        BY SameFacts
    <2> QED
        BY <2>1 DEF CountOK
<1> QED
    BY <1>1, <1>2, <1>3, <1>4

\* Nor do the abandoned copies and the links, when they stay the same.
LEMMA QuietKept ==
    ASSUME ReflectionInv, SameMarkers, UNCHANGED <<local, idMap, late, twice>>
    PROVE  ListsOK' /\ MarkersOK' /\ LateOK' /\ LinksOK' /\ CountOK'
<1>1. ListsOK' /\ MarkersOK' /\ CountOK'
    BY QuietIssues
<1>2. LateOK'
    BY QuietIssues DEF LateOK, ReflectionInv
<1>3. LinksOK'
    BY SameFacts, LinksKept DEF ReflectionInv
<1> QED
    BY <1>1, <1>2, <1>3

\* Outside the loops that create copies.
LEMMA QuietOutside ==
    ASSUME ReflectionInv, SameMarkers, UNCHANGED <<local, idMap, late, twice>>, TypeOK',
           phase' \in {"idle", "state", "comments"}, posting' = 0, landed' = FALSE, StatesDone'
    PROVE  ReflectionInv'
<1>1. ListsOK' /\ MarkersOK' /\ LateOK' /\ LinksOK' /\ CountOK'
    BY QuietKept
<1>2. LoopOK' /\ PostingOK' /\ Covered'
    BY DEF LoopOK, Direction, Creating, PostingOK, Covered, Synced
<1> QED
    BY <1>1, <1>2 DEF ReflectionInv

\* Wherever the pass is, when it stays there.
LEMMA QuietInside ==
    ASSUME ReflectionInv, SameMarkers, UNCHANGED <<local, idMap, late, twice>>, TypeOK',
           UNCHANGED <<phase, todo, existing, posting, landed>>
    PROVE  ReflectionInv'
<1>1. ListsOK' /\ MarkersOK' /\ LateOK' /\ LinksOK' /\ CountOK'
    BY QuietKept
<1>2. \A s \in Sides : Direction(s)' <=> Direction(s)
    BY DEF Direction, From, Creating
<1>3. LoopOK'
    <2> SUFFICES ASSUME NEW s \in Sides, Direction(s)
                 PROVE  /\ \A i \in todo : OriginalOn(s, i)'
                        /\ \A i \in Real : \A j \in existing[i] \cap Real : j \in RemoteCopies(Other(s), i)'
                        /\ \A i \in todo \ {posting} : existing[i] = {} => Copies(local[Other(s)], i) = {}
        BY <1>2 DEF LoopOK
    <2>1. \A i \in todo : i \in Real /\ OriginalOn(s, i)
        BY DEF LoopOK, OriginalOn, ReflectionInv
    <2>2. \A i \in todo : OriginalOn(s, i)'
        BY <2>1, SameFacts, GrowFacts
    <2>3. \A i \in Real : RemoteCopies(Other(s), i)' = RemoteCopies(Other(s), i)
        BY SameFacts, Ids
    <2> QED
        BY <2>2, <2>3 DEF LoopOK, ReflectionInv
<1>4. PostingOK'
    <2>1. ASSUME NEW s \in Sides, NEW i \in Real, Direction(s), posting = i PROVE Waiting(s, i)'
        <3>1. Waiting(s, i)
            BY <2>1 DEF PostingOK, ReflectionInv
        <3>2. RemoteCopies(Other(s), i)' = RemoteCopies(Other(s), i)
            BY SameFacts, Ids
        <3> QED
            BY <3>1, <3>2 DEF Waiting
    <2>2. Creating' <=> Creating
        BY DEF Creating
    <2> QED
        BY <1>2, <2>1, <2>2 DEF PostingOK, ReflectionInv
<1>5. Covered'
    <2> SUFFICES ASSUME NEW s \in Sides, Synced(s), NEW i \in Real, RemoteCopies(s, i)' # {}
                 PROVE  Copies(local[s], i) # {}
        BY DEF Covered, Synced, Copies
    <2> QED
        BY SameFacts DEF Covered, ReflectionInv
<1>6. StatesDone'
    BY DEF StatesDone, ReflectionInv
<1> QED
    BY <1>1, <1>3, <1>4, <1>5, <1>6 DEF ReflectionInv

\* The state pass, what people do and a failed sync.
LEMMA QuietSteps ==
    ASSUME ReflectionInv, TypeOK',
           \/ StartState \/ StateAgrees \/ StatePatched \/ StateRecorded \/ StateFails \/ StartComments
           \/ EndPass \/ SyncFails \/ UNCHANGED vars \/ \E s \in Sides : PersonToggles(s) \/ PersonCreates(s)
    PROVE  ReflectionInv'
<1> USE DEF pass, counters
<1>1. UNCHANGED remote => SameMarkers
    BY DEF SameMarkers
<1>2. phase \in {"state", "comments", "syncB"} => posting = 0 /\ landed = FALSE
    BY DEF ReflectionInv, PostingOK, Creating, TypeOK
<1>3. posting = 0 => landed = FALSE
    BY DEF ReflectionInv, PostingOK, TypeOK
<1>4. \A p \in todo : phase = "state" /\ Diverged(p) /\ Target(p) \in Real /\ Patch(p) => SameMarkers
    BY TodoTypes, PatchFacts DEF ReflectionInv
<1>5. CASE StartState
    BY <1>1, <1>3, <1>5, QuietOutside DEF StartState, StatesDone
<1>6. CASE StateAgrees
    BY <1>1, <1>2, <1>6, QuietOutside DEF StateAgrees, StatesDone
<1>7. CASE StatePatched
    <2>1. SameMarkers
        BY <1>4, <1>7 DEF StatePatched
    <2> QED
        BY <2>1, <1>2, <1>7, QuietOutside DEF StatePatched, StatesDone
<1>8. CASE StateRecorded
    BY <1>1, <1>8, QuietInside DEF StateRecorded
<1>9. CASE StateFails
    <2>1. SameMarkers
        BY <1>1, <1>4, <1>9 DEF StateFails
    <2> QED
        BY <2>1, <1>2, <1>9, QuietOutside DEF StateFails, StatesDone
<1>10. CASE StartComments
    BY <1>1, <1>2, <1>10, QuietOutside DEF StartComments, StatesDone
<1>11. CASE EndPass
    BY <1>1, <1>2, <1>11, QuietOutside DEF EndPass, StatesDone
<1>12. CASE SyncFails
    BY <1>1, <1>2, <1>12, QuietOutside DEF SyncFails, StatesDone
<1>13. CASE UNCHANGED vars
    BY <1>1, <1>13, QuietInside DEF vars
<1>14. ASSUME NEW s \in Sides, PersonToggles(s) PROVE ReflectionInv'
    <2>1. SameMarkers
        BY <1>14, ToggleFacts DEF PersonToggles, ReflectionInv
    <2> QED
        BY <1>14, <2>1, QuietInside DEF PersonToggles
<1>15. ASSUME NEW s \in Sides, PersonCreates(s) PROVE ReflectionInv'
    <2>1. PICK r \in NextIds(s) : remote' = [remote EXCEPT ![s][r] = [origin |-> 0, open |-> TRUE]]
        BY <1>15 DEF PersonCreates
    <2>2. PICK x \in Issues : x = [origin |-> 0, open |-> TRUE] /\ x.origin = 0
        BY IssueFacts
    <2>3. Added(s, r, x)
        BY <2>1, <2>2, AddFacts DEF ReflectionInv
    <2>4. SameMarkers
        <3> SUFFICES ASSUME NEW t \in Sides, NEW j \in Real
                     PROVE  /\ remote[t][j] # None => remote'[t][j] # None /\ remote'[t][j].origin = remote[t][j].origin
                            /\ remote[t][j] = None => remote'[t][j] = None \/ remote'[t][j].origin = 0
            BY DEF SameMarkers
        <3>1. CASE t = s /\ j = r
            BY <2>2, <2>3, <3>1 DEF Added
        <3>2. CASE ~(t = s /\ j = r)
            BY <2>3, <3>2 DEF Added
        <3> QED
            BY <3>1, <3>2
    <2> QED
        BY <1>15, <2>4, QuietInside DEF PersonCreates
<1> QED
    BY <1>5, <1>6, <1>7, <1>8, <1>9, <1>10, <1>11, <1>12, <1>13, <1>14, <1>15

-----------------------------------------------------------------------------
(* The syncs and the start of the second loop. *)

\* What a loop finds listed: sources that people wrote, copies that are there.
LEMMA ScanFacts ==
    ASSUME TypeOK, ListsOK, NEW s \in Sides, NEW t \in Sides
    PROVE  /\ \A i \in Sources(local[s]) : OriginalOn(s, i)
           /\ \A i \in Real : \A j \in Markers(local[t])[i] \cap Real : j \in RemoteCopies(t, i)
           /\ \A i \in Real : Markers(local[t])[i] = Copies(local[t], i)
<1>1. ASSUME NEW i \in Sources(local[s]) PROVE OriginalOn(s, i)
    <2>1. i \in AllIds /\ local[s][i] # None /\ local[s][i].origin = 0
        BY <1>1 DEF Sources, IsOriginal
    <2>2. i \in Real
        <3>1. SUFFICES ASSUME i \notin Real PROVE FALSE
            OBVIOUS
        <3>2. PICK k \in Real : i = Temp(k)
            BY <2>1, <3>1, Ids
        <3>3. local[s][i].origin = k
            BY <2>1, <3>2 DEF ListsOK
        <3> QED
            BY <2>1, <3>3, Ids
    <2> QED
        BY <2>1, <2>2 DEF ListsOK, OriginalOn, IsOriginal
<1>2. ASSUME NEW i \in Real PROVE Markers(local[t])[i] = Copies(local[t], i)
    BY DEF Markers
<1>3. ASSUME NEW i \in Real, NEW j \in Copies(local[t], i) \cap Real PROVE j \in RemoteCopies(t, i)
    BY DEF Copies, RemoteCopies, ListsOK
<1> QED
    BY <1>1, <1>2, <1>3

\* A list read from its system is about that system's issues and keeps the
\* copies that are still to be posted.
LEMMA SyncKept ==
    ASSUME ReflectionInv, NEW s \in Sides, local' = [local EXCEPT ![s] = Fetched(s)],
           UNCHANGED <<remote, idMap, late, twice>>
    PROVE  /\ ListsOK' /\ MarkersOK' /\ LateOK' /\ LinksOK' /\ CountOK'
           /\ \A i \in Real : RemoteCopies(s, i) # {} => Copies(local'[s], i) # {}
           /\ \A t \in Sides, i \in Real : RemoteCopies(t, i)' = RemoteCopies(t, i)
           /\ local'[Other(s)] = local[Other(s)]
<1> USE DEF ReflectionInv
<1>1. SameMarkers
    BY DEF SameMarkers
<1>2. /\ local'[Other(s)] = local[Other(s)]
      /\ \A i \in Real : local'[s][i] = remote[s][i] /\ local'[s][Temp(i)] = local[s][Temp(i)]
    BY SyncFacts
<1>3. \A t \in Sides, i \in Real : local'[t][Temp(i)] = local[t][Temp(i)]
    BY <1>2 DEF Sides, Other
<1>4. ListsOK'
    <2> SUFFICES ASSUME NEW t \in Sides, NEW i \in Real
                 PROVE  /\ local'[t][i] # None => remote[t][i] # None /\ local'[t][i].origin = remote[t][i].origin
                        /\ local'[t][Temp(i)] # None => local'[t][Temp(i)].origin = i
        BY DEF ListsOK
    <2>1. local'[t][Temp(i)] # None => local'[t][Temp(i)].origin = i
        BY <1>3 DEF ListsOK
    <2>2. CASE t = s
        BY <1>2, <2>1, <2>2
    <2>3. CASE t # s
        <3>1. local'[t] = local[t]
            BY <1>2, <2>3 DEF Sides, Other
        <3> QED
            BY <2>1, <3>1 DEF ListsOK
    <2> QED
        BY <2>2, <2>3
<1>5. LinksOK'
    BY <1>1, SameFacts, LinksKept
<1>6. MarkersOK'
    BY DEF MarkersOK, RemoteCopies, OriginalOn
<1>7. \A t \in Sides, i \in Real : RemoteCopies(t, i)' = RemoteCopies(t, i)
    BY <1>1, SameFacts
<1>8. LateOK'
    <2> SUFFICES ASSUME NEW t \in Sides, NEW i \in Real, <<t, i>> \in late
                 PROVE  Unsettled(t, i)'
        BY DEF LateOK
    <2>1. Unsettled(t, i)
        BY DEF LateOK
    <2>2. OriginalOn(Other(t), i)'
        BY <2>1 DEF Unsettled, OriginalOn
    <2> QED
        BY <1>3, <1>7, <2>1, <2>2 DEF Unsettled
<1>9. CountOK'
    BY <1>7 DEF CountOK
<1>10. ASSUME NEW i \in Real, RemoteCopies(s, i) # {} PROVE Copies(local'[s], i) # {}
    <2>1. PICK j \in Real : remote[s][j] # None /\ remote[s][j].origin = i
        BY <1>10 DEF RemoteCopies
    <2>2. j \in Copies(local'[s], i)
        BY <1>2, <2>1, Ids DEF Copies
    <2> QED
        BY <2>2
<1> QED
    BY <1>2, <1>4, <1>5, <1>6, <1>7, <1>8, <1>9, <1>10

\* The syncs and the change of direction keep the invariant.
LEMMA SyncSteps ==
    ASSUME ReflectionInv, TypeOK', SyncA \/ SyncB \/ NextDirection
    PROVE  ReflectionInv'
<1> USE DEF counters
<1>1. "a" \in Sides /\ "b" \in Sides /\ Other("a") = "b" /\ Other("b") = "a"
    BY DEF Sides, Other
<1>2. /\ ~Creating => posting = 0
      /\ posting = 0 => landed = FALSE
    BY DEF ReflectionInv, PostingOK, TypeOK
<1>3. CASE SyncA
    <2>1. /\ ListsOK' /\ MarkersOK' /\ LateOK' /\ LinksOK' /\ CountOK'
          /\ \A i \in Real : RemoteCopies("a", i) # {} => Copies(local'["a"], i) # {}
          /\ \A t \in Sides, i \in Real : RemoteCopies(t, i)' = RemoteCopies(t, i)
        BY <1>1, <1>3, SyncKept DEF SyncA
    <2>2. posting' = 0 /\ landed' = FALSE /\ phase' = "syncB"
        BY <1>2, <1>3 DEF SyncA, Creating
    <2>3. LoopOK' /\ PostingOK' /\ StatesDone'
        BY <2>2 DEF LoopOK, Direction, Creating, PostingOK, StatesDone
    <2>4. Covered'
        <3> SUFFICES ASSUME NEW s \in Sides, Synced(s)', NEW i \in Real, RemoteCopies(s, i)' # {}
                     PROVE  Copies(local[s], i)' # {}
            BY DEF Covered
        <3>1. s = "a"
            BY <2>2 DEF Synced
        <3> QED
            BY <2>1, <3>1 DEF Copies
    <2> QED
        BY <2>1, <2>3, <2>4 DEF ReflectionInv
<1>4. CASE SyncB
    <2>1. /\ ListsOK' /\ MarkersOK' /\ LateOK' /\ LinksOK' /\ CountOK'
          /\ \A i \in Real : RemoteCopies("b", i) # {} => Copies(local'["b"], i) # {}
          /\ \A t \in Sides, i \in Real : RemoteCopies(t, i)' = RemoteCopies(t, i)
          /\ local'["a"] = local["a"]
        BY <1>1, <1>4, SyncKept DEF SyncB
    <2>2. posting' = 0 /\ landed' = FALSE /\ phase = "syncB" /\ phase' = "ab" /\ remote' = remote
        BY <1>2, <1>4 DEF SyncB, Creating
    <2>3. PostingOK' /\ StatesDone'
        BY <2>2, Ids DEF PostingOK, StatesDone
    <2>4. Covered'
        <3> SUFFICES ASSUME NEW s \in Sides, NEW i \in Real, RemoteCopies(s, i)' # {}
                     PROVE  Copies(local[s], i)' # {}
            BY DEF Covered
        <3>1. CASE s = "a"
            <4>1. Copies(local["a"], i) # {}
                BY <2>1, <2>2, <3>1 DEF ReflectionInv, Covered, Synced
            <4> QED
                BY <2>1, <3>1, <4>1 DEF Copies
        <3>2. CASE s = "b"
            BY <2>1, <3>2 DEF Copies
        <3> QED
            BY <3>1, <3>2 DEF Sides
    <2>5. LoopOK'
        <3> SUFFICES ASSUME NEW s \in Sides, Direction(s)'
                     PROVE  /\ \A i \in todo' : OriginalOn(s, i)'
                            /\ \A i \in Real : \A j \in existing'[i] \cap Real : j \in RemoteCopies(Other(s), i)'
                            /\ \A i \in todo' \ {posting'} : existing'[i] = {} => Copies(local[Other(s)], i)' = {}
            BY DEF LoopOK
        <3>1. s = "a" /\ Other(s) = "b"
            BY <1>1, <2>2 DEF Direction, From
        <3>2. todo' = Sources(local["a"]) /\ existing' = Markers(local'["b"])
            BY <1>4, <2>1 DEF SyncB
        <3>3. \A i \in todo' : OriginalOn(s, i)' /\ i \in Real
            BY <1>1, <2>2, <3>1, <3>2, ScanFacts DEF ReflectionInv, OriginalOn
        <3>4. \A i \in Real : existing'[i] = Copies(local[Other(s)], i)'
            BY <3>1, <3>2 DEF Markers, Copies
        <3>5. \A i \in Real : \A j \in existing'[i] \cap Real : j \in RemoteCopies(Other(s), i)'
            BY <2>1, <3>1, <3>4, <1>1 DEF Copies, RemoteCopies, ListsOK
        <3> QED
            BY <3>3, <3>4, <3>5
    <2> QED
        BY <2>1, <2>3, <2>4, <2>5 DEF ReflectionInv
<1>5. CASE NextDirection
    <2>1. posting' = 0 /\ landed' = FALSE /\ phase = "ab" /\ phase' = "ba" /\ remote' = remote /\ local' = local
        BY <1>2, <1>5 DEF NextDirection
    <2>2. SameMarkers
        BY <2>1 DEF SameMarkers
    <2>3. ListsOK' /\ MarkersOK' /\ LateOK' /\ LinksOK' /\ CountOK'
        BY <1>5, <2>2, QuietKept DEF NextDirection
    <2>4. PostingOK' /\ StatesDone'
        BY <2>1, Ids DEF PostingOK, StatesDone
    <2>5. Covered'
        BY <2>1 DEF ReflectionInv, Covered, Synced, Copies, RemoteCopies
    <2>6. LoopOK'
        <3> SUFFICES ASSUME NEW s \in Sides, Direction(s)'
                     PROVE  /\ \A i \in todo' : OriginalOn(s, i)'
                            /\ \A i \in Real : \A j \in existing'[i] \cap Real : j \in RemoteCopies(Other(s), i)'
                            /\ \A i \in todo' \ {posting'} : existing'[i] = {} => Copies(local[Other(s)], i)' = {}
            BY DEF LoopOK
        <3>1. s = "b" /\ Other(s) = "a"
            BY <1>1, <2>1 DEF Direction, From
        <3>2. todo' = Sources(local["b"]) /\ existing' = Markers(local["a"])
            BY <1>5 DEF NextDirection
        <3>3. \A i \in todo' : OriginalOn(s, i)' /\ i \in Real
            BY <1>1, <2>1, <3>1, <3>2, ScanFacts DEF ReflectionInv, OriginalOn
        <3>4. \A i \in Real : existing'[i] = Copies(local[Other(s)], i)'
            BY <2>1, <3>1, <3>2 DEF Markers, Copies
        <3>5. \A i \in Real : \A j \in existing'[i] \cap Real : j \in RemoteCopies(Other(s), i)'
            BY <2>3, <3>1, <3>4, <1>1 DEF Copies, RemoteCopies, ListsOK
        <3> QED
            BY <3>3, <3>4, <3>5
    <2> QED
        BY <2>3, <2>4, <2>5, <2>6 DEF ReflectionInv
<1> QED
    BY <1>3, <1>4, <1>5

-----------------------------------------------------------------------------
(* The links. *)

\* Linking a source with one of its copies keeps the links mutual and vouched
\* for: the copy had no link, or one with the same source.
LEMMA LinkKept ==
    ASSUME TypeOK, MarkersOK, LinksOK, NEW s \in Sides, NEW i \in Real, NEW j \in AllIds,
           OriginalOn(s, i), idMap[s][i] \in {j, None}, j \in Real => j \in RemoteCopies(Other(s), i),
           Link(s, i, j), UNCHANGED remote
    PROVE  LinksOK'
<1>1. /\ idMap'[s][i] = j /\ idMap'[Other(s)][j] = i
      /\ \A t \in Sides, x \in AllIds :
           <<t, x>> \notin {<<s, i>>, <<Other(s), j>>} => idMap'[t][x] = idMap[t][x]
    BY LinkFacts, Ids
<1>2. \A t \in Sides, x, y \in Real : Vouched(t, x, y)' <=> Vouched(t, x, y)
    BY DEF Vouched, RemoteCopies, OriginalOn
<1> SUFFICES ASSUME NEW t \in Sides, NEW x \in Real, NEW y \in Real, idMap'[t][x] = y
             PROVE  idMap'[Other(t)][y] = x /\ Vouched(t, x, y)
    BY <1>2 DEF LinksOK
<1>3. /\ t = s \/ t = Other(s)
      /\ Other(s) # s /\ Other(Other(s)) = s /\ Other(s) \in Sides
      /\ x \in AllIds /\ y \in AllIds /\ i \in AllIds /\ Other(t) \in Sides /\ Other(Other(t)) = t
    BY Ids DEF Sides, Other
<1>4. CASE t = s /\ x = i
    BY <1>1, <1>3, <1>4, Zenon DEF Vouched
<1>5. CASE t = Other(s) /\ x = j
    <2>1. y = i
        BY <1>1, <1>5
    <2> QED
        BY <1>1, <1>3, <1>5, <2>1 DEF Vouched
<1>6. CASE <<t, x>> \notin {<<s, i>>, <<Other(s), j>>}
    <2>1. idMap[t][x] = y /\ idMap[Other(t)][y] = x /\ Vouched(t, x, y)
        BY <1>1, <1>3, <1>6 DEF LinksOK
    <2>2. <<Other(t), y>> # <<s, i>>
        <3>1. SUFFICES ASSUME Other(t) = s, y = i PROVE FALSE
            OBVIOUS
        <3>2. idMap[s][i] = x /\ t = Other(s)
            BY <1>3, <2>1, <3>1
        <3>3. x = j
            BY <3>2, Ids
        <3> QED
            BY <1>6, <3>2, <3>3
    <2>3. <<Other(t), y>> # <<Other(s), j>>
        <3>1. SUFFICES ASSUME Other(t) = Other(s), y = j PROVE FALSE
            OBVIOUS
        <3>2. t = s /\ j \in RemoteCopies(Other(s), i) /\ x # i
            BY <1>3, <1>6, <3>1
        <3>3. ~OriginalOn(Other(s), j) /\ j \notin RemoteCopies(Other(s), x)
            BY <3>2, Ids DEF OriginalOn, IsOriginal, RemoteCopies
        <3> QED
            BY <2>1, <3>1, <3>2, <3>3 DEF Vouched
    <2> QED
        BY <1>1, <1>3, <2>1, <2>2, <2>3
<1> QED
    BY <1>4, <1>5, <1>6

\* Fewer sources to visit, and no copy to wait for.
LEMMA LoopShrinks ==
    ASSUME ReflectionInv, UNCHANGED <<remote, local, phase, existing>>, Creating,
           todo' \subseteq todo \ {posting}, posting' = 0, landed' = FALSE
    PROVE  LoopOK' /\ PostingOK' /\ Covered' /\ StatesDone'
<1>1. \A s \in Sides : Direction(s)' <=> Direction(s)
    BY DEF Direction, From, Creating
<1>2. LoopOK'
    <2> SUFFICES ASSUME NEW s \in Sides, Direction(s)
                 PROVE  /\ \A i \in todo' : OriginalOn(s, i)'
                        /\ \A i \in Real : \A j \in existing[i] \cap Real : j \in RemoteCopies(Other(s), i)'
                        /\ \A i \in todo' \ {posting'} : existing[i] = {} => Copies(local[Other(s)], i) = {}
        BY <1>1 DEF LoopOK
    <2>1. \A i \in todo' : OriginalOn(s, i)'
        BY DEF LoopOK, OriginalOn, ReflectionInv
    <2>2. \A i \in Real : RemoteCopies(Other(s), i)' = RemoteCopies(Other(s), i)
        BY DEF RemoteCopies
    <2> QED
        BY <2>1, <2>2 DEF LoopOK, ReflectionInv
<1>3. PostingOK' /\ StatesDone'
    BY Ids DEF PostingOK, StatesDone, Creating
<1>4. Covered'
    BY DEF Covered, Synced, Copies, RemoteCopies, ReflectionInv
<1> QED
    BY <1>2, <1>3, <1>4

\* Linking keeps the invariant.
LEMMA LinkSteps ==
    ASSUME ReflectionInv, TypeOK', LinkKnown \/ LinkCopy
    PROVE  ReflectionInv'
<1> USE DEF counters
<1> DEFINE s == From
<1>0. s \in Sides /\ To = Other(s) /\ 0 \notin AllIds
    BY Ids DEF AllIds
<1>1. UNCHANGED <<remote, local, late, twice, phase, existing>>
    BY DEF LinkKnown, LinkCopy
<1>2. Creating /\ Direction(s) /\ landed' = FALSE /\ posting' = 0
    BY DEF LinkKnown, LinkCopy, ReflectionInv, PostingOK, TypeOK, Direction
<1>3. todo' \subseteq todo \ {posting}
    <2>1. todo \subseteq AllIds
        BY <1>2, TodoTypes DEF Creating, ReflectionInv
    <2>2. CASE LinkKnown
        BY <1>0, <2>1, <2>2 DEF LinkKnown
    <2>3. CASE LinkCopy
        BY <2>3 DEF LinkCopy
    <2> QED
        BY <2>2, <2>3
<1>4. LoopOK' /\ PostingOK' /\ Covered' /\ StatesDone'
    BY <1>1, <1>2, <1>3, LoopShrinks
<1>5. SameMarkers
    BY <1>1 DEF SameMarkers
<1>6. ListsOK' /\ MarkersOK' /\ CountOK' /\ LateOK'
    BY <1>1, <1>5, QuietIssues DEF LateOK, ReflectionInv
<1>7. \A i \in todo : i \in Real /\ OriginalOn(s, i)
    BY <1>0, <1>2 DEF LoopOK, OriginalOn, ReflectionInv
<1>8. LinksOK'
    <2>1. CASE LinkKnown
        <3>0. PICK i \in todo : \E j \in Known(i) : Link(s, i, j)
            BY <2>1 DEF LinkKnown
        <3>1. PICK j \in Known(i) : Link(s, i, j)
            BY <3>0
        <3>2. i \in Real /\ OriginalOn(s, i) /\ i \in AllIds
            BY <1>7, Ids
        <3>3. j \in AllIds
            BY <3>1, <3>2, KnownTypes DEF ReflectionInv
        <3>4. CASE idMap[s][i] # None
            <4>1. idMap[s][i] = j
                BY <3>1, <3>4 DEF Known
            <4>2. j \in Real => j \in RemoteCopies(Other(s), i)
                <5>1. \A k \in Real : i \notin RemoteCopies(s, k)
                    BY <3>2, Ids DEF OriginalOn, IsOriginal, RemoteCopies
                <5> QED
                    BY <1>0, <3>2, <4>1, <5>1 DEF LinksOK, Vouched, ReflectionInv
            <4> HIDE DEF s
            <4> QED
                BY <1>0, <1>1, <3>1, <3>2, <3>3, <4>1, <4>2, LinkKept DEF ReflectionInv
        <3>5. CASE idMap[s][i] = None
            <4>1. j \in existing[i]
                BY <3>1, <3>2, <3>5 DEF Known
            <4>2. j \in Real => j \in RemoteCopies(Other(s), i)
                BY <1>0, <1>2, <3>2, <4>1 DEF LoopOK, ReflectionInv
            <4> HIDE DEF s
            <4> QED
                BY <1>0, <1>1, <3>1, <3>2, <3>3, <3>5, <4>2, LinkKept DEF ReflectionInv
        <3> QED
            BY <3>4, <3>5
    <2>2. CASE LinkCopy
        <3>1. PICK j \in Copies(local[To], posting) : Link(s, posting, j)
            BY <2>2 DEF LinkCopy
        <3>2. posting \in Real
            BY <2>2, TodoTypes DEF LinkCopy, PostingOK, ReflectionInv
        <3>3. PICK i \in Real : i = posting
            BY <3>2
        <3>4. Waiting(s, i)
            BY <1>0, <1>2, <3>3 DEF PostingOK, ReflectionInv
        <3>5. OriginalOn(s, i) /\ idMap[s][i] = None
            BY <1>7, <3>4 DEF Waiting
        <3>6. j \in AllIds /\ (j \in Real => j \in RemoteCopies(Other(s), i))
            <4>1. j \in Copies(local[Other(s)], i) /\ Other(s) \in Sides
                BY <1>0, <3>1, <3>3, Ids
            <4> HIDE DEF s
            <4> QED
                BY <4>1 DEF Copies, RemoteCopies, ListsOK, ReflectionInv
        <3>7. Link(s, i, j)
            BY <3>1, <3>3, Zenon
        <3> HIDE DEF s
        <3> QED
            BY <1>0, <1>1, <3>5, <3>6, <3>7, LinkKept DEF ReflectionInv
    <2> QED
        BY <2>1, <2>2
<1> QED
    BY <1>4, <1>6, <1>8 DEF ReflectionInv

\* A copy given up: the client goes on listing it, and posting it or not.
LEMMA AbandonStep ==
    ASSUME ReflectionInv, TypeOK', CopyAbandoned
    PROVE  ReflectionInv'
<1> DEFINE s == From
<1>0. s \in Sides /\ To = Other(s) /\ Other(s) \in Sides /\ Other(Other(s)) = s
    BY Ids
<1>1. UNCHANGED <<remote, local, idMap, twice, phase, existing>>
    BY DEF CopyAbandoned
<1>2. Creating /\ Direction(s) /\ landed' = FALSE /\ posting' = 0 /\ todo' = todo \ {posting}
    BY DEF CopyAbandoned, ReflectionInv, PostingOK, Direction
<1>3. LoopOK' /\ PostingOK' /\ Covered' /\ StatesDone'
    BY <1>1, <1>2, LoopShrinks
<1>4. SameMarkers
    BY <1>1 DEF SameMarkers
<1>5. /\ ListsOK' /\ MarkersOK' /\ CountOK'
      /\ \A t \in Sides, i \in Real : Unsettled(t, i) => Unsettled(t, i)'
    BY <1>1, <1>4, QuietIssues
<1>6. LinksOK'
    BY <1>1, <1>4, SameFacts, LinksKept DEF ReflectionInv
<1>7. PICK i \in Real : i = posting
    BY TodoTypes DEF CopyAbandoned, ReflectionInv
<1>8. Waiting(s, i) /\ OriginalOn(s, i)
    BY <1>0, <1>2, <1>7 DEF PostingOK, ReflectionInv, LoopOK, Waiting
<1>9. late' \subseteq late \cup {<<Other(s), i>>} /\ (landed => late' = late)
    BY <1>0, <1>7 DEF CopyAbandoned
<1>10. ~landed => Unsettled(Other(s), i)
    BY <1>0, <1>8 DEF Waiting, Unsettled
<1>11. LateOK'
    <2> SUFFICES ASSUME NEW t \in Sides, NEW k \in Real, <<t, k>> \in late'
                 PROVE  Unsettled(t, k)
        BY <1>5 DEF LateOK
    <2> HIDE DEF s
    <2>1. CASE <<t, k>> \in late
        BY <2>1 DEF LateOK, ReflectionInv
    <2>2. CASE <<t, k>> \notin late
        <3>1. t = Other(s) /\ k = i /\ ~landed
            BY <1>9, <2>2
        <3> QED
            BY <1>10, <3>1
    <2> QED
        BY <2>1, <2>2
<1> QED
    BY <1>3, <1>5, <1>6, <1>11 DEF ReflectionInv

-----------------------------------------------------------------------------
(* The copies. *)

\* A copy is stored in the client's list until its POST settles: its source had
\* none on either list or system.
LEMMA PostStep ==
    ASSUME ReflectionInv, TypeOK', PostCopy
    PROVE  ReflectionInv'
<1> USE DEF counters
<1>s. PICK s \in Sides : s = From
    BY Ids
<1>d. PICK d \in Sides : d = Other(s)
    BY Ids
<1>0. s \in Sides /\ To = d /\ d \in Sides /\ d # s /\ d = Other(s) /\ s = From
    BY <1>s, <1>d, Ids
<1>1. UNCHANGED <<remote, idMap, late, twice, phase, existing, todo, landed>>
    BY DEF PostCopy
<1>2. Creating /\ Direction(s) /\ posting = 0 /\ landed = FALSE
    BY <1>0 DEF PostCopy, Direction, ReflectionInv, PostingOK, TypeOK
<1>3. PICK i \in todo \cap Real :
        /\ Known(i) = {} /\ posting' = i
        /\ local' = [local EXCEPT ![d][Temp(i)] = Copy(i)]
    BY <1>0 DEF PostCopy
<1>4. OriginalOn(s, i) /\ idMap[s][i] = None /\ existing[i] = {}
    BY <1>0, <1>2, <1>3 DEF Known, LoopOK, ReflectionInv
<1>5. Copies(local[d], i) = {}
    BY <1>0, <1>2, <1>3, <1>4, Ids DEF LoopOK, ReflectionInv
<1>6. RemoteCopies(d, i) = {}
    BY <1>0, <1>2, <1>5 DEF Covered, Synced, Creating, ReflectionInv
<1>7. <<d, i>> \notin late
    <2>1. ASSUME <<d, i>> \in late PROVE FALSE
        <3>1. local[d][Temp(i)] # None
            BY <1>0, <1>3, <2>1 DEF LateOK, Unsettled, ReflectionInv
        <3>2. Temp(i) \in Copies(local[d], i)
            BY <1>0, <1>3, <3>1, Ids DEF Copies, ListsOK, ReflectionInv
        <3> QED
            BY <1>5, <3>2
    <2> QED
        BY <2>1
<1>8. /\ local'[d][Temp(i)] = Copy(i) /\ Copy(i) # None /\ Copy(i).origin = i
      /\ \A t \in Sides, x \in AllIds : <<t, x>> # <<d, Temp(i)>> => local'[t][x] = local[t][x]
    BY <1>0, <1>3, WriteLocal, Ids, IssueFacts DEF ReflectionInv
<1>9. \A t \in Sides, k \in Real : local'[t][k] = local[t][k]
    BY <1>8, <1>3, Ids
<1>10. \A t \in Sides, k \in Real :
         \/ t = d /\ k = i
         \/ local'[t][Temp(k)] = local[t][Temp(k)]
    BY <1>8, <1>3, Ids
<1>11. \A t \in Sides, k \in Real : local[t][Temp(k)] # None => local'[t][Temp(k)] # None
    BY <1>8, <1>10
<1>12. \A t \in Sides, k \in Real : RemoteCopies(t, k)' = RemoteCopies(t, k) /\ (OriginalOn(t, k)' <=> OriginalOn(t, k))
    BY <1>1 DEF RemoteCopies, OriginalOn
<1>13. ListsOK'
    <2> SUFFICES ASSUME NEW t \in Sides, NEW k \in Real
                 PROVE  /\ local'[t][k] # None => remote[t][k] # None /\ local'[t][k].origin = remote[t][k].origin
                        /\ local'[t][Temp(k)] # None => local'[t][Temp(k)].origin = k
        BY <1>1 DEF ListsOK
    <2>1. local'[t][k] # None => remote[t][k] # None /\ local'[t][k].origin = remote[t][k].origin
        BY <1>9 DEF ListsOK, ReflectionInv
    <2>2. CASE t = d /\ k = i
        BY <1>8, <2>1, <2>2
    <2>3. CASE ~(t = d /\ k = i)
        BY <1>10, <2>1, <2>3 DEF ListsOK, ReflectionInv
    <2> QED
        BY <2>2, <2>3
<1>14. MarkersOK' /\ CountOK' /\ StatesDone'
    BY <1>1, <1>12, Ids DEF MarkersOK, CountOK, StatesDone, ReflectionInv
<1>15. LateOK'
    BY <1>1, <1>11, <1>12, Ids DEF LateOK, Unsettled, ReflectionInv
<1>16. LinksOK'
    BY <1>1, LinksKept DEF Grows, ReflectionInv
<1>17. \A t \in Sides : Direction(t)' <=> Direction(t)
    BY <1>1 DEF Direction, From, Creating
<1>18. \A k \in Real \ {i} : Copies(local[d], k)' = Copies(local[d], k)
    <2> SUFFICES ASSUME NEW k \in Real \ {i}, NEW x \in AllIds
                 PROVE  /\ local'[d][x] # None /\ local'[d][x].origin = k
                           <=> local[d][x] # None /\ local[d][x].origin = k
        BY DEF Copies
    <2>1. CASE x = Temp(i)
        <3>1. local[d][x] = None
            BY <1>0, <1>3, <1>5, <2>1, Ids DEF Copies, ListsOK, ReflectionInv
        <3> QED
            BY <1>8, <2>1, <3>1
    <2>2. CASE x # Temp(i)
        BY <1>0, <1>8, <2>2
    <2> QED
        BY <2>1, <2>2
<1>19. LoopOK'
    <2> SUFFICES ASSUME NEW t \in Sides, Direction(t)
                 PROVE  /\ \A k \in todo : OriginalOn(t, k)'
                        /\ \A k \in Real : \A j \in existing[k] \cap Real : j \in RemoteCopies(Other(t), k)'
                        /\ \A k \in todo \ {i} : existing[k] = {} => Copies(local[Other(t)], k)' = {}
        BY <1>1, <1>3, <1>17 DEF LoopOK
    <2>1. t = s /\ Other(t) = d
        BY <1>0, <1>2 DEF Direction
    <2>2. \A k \in todo : OriginalOn(t, k) /\ k \in Real
        BY DEF LoopOK, OriginalOn, ReflectionInv
    <2>3. \A k \in todo \ {i} : existing[k] = {} => Copies(local[d], k) = {}
        BY <1>2, <2>1, <2>2, Ids DEF LoopOK, ReflectionInv
    <2>4. \A k \in todo \ {i} : existing[k] = {} => Copies(local[d], k)' = {}
        BY <1>18, <2>2, <2>3
    <2>5. \A k \in Real : \A j \in existing[k] \cap Real : j \in RemoteCopies(d, k)'
        BY <1>0, <1>12, <2>1 DEF LoopOK, ReflectionInv
    <2>6. \A k \in todo \ {i} : existing[k] = {} => Copies(local[Other(t)], k)' = {}
        BY <2>1, <2>4 DEF Copies
    <2>7. \A k \in Real : \A j \in existing[k] \cap Real : j \in RemoteCopies(Other(t), k)'
        BY <2>1, <2>5 DEF RemoteCopies
    <2> QED
        BY <1>12, <2>2, <2>6, <2>7
<1>20. PostingOK'
    <2>1. ASSUME NEW t \in Sides, NEW k \in Real, Direction(t)', posting' = k PROVE Waiting(t, k)'
        <3>1. t = s /\ Other(t) = d /\ k = i
            BY <1>0, <1>2, <1>3, <1>17, <2>1 DEF Direction
        <3>2. Cardinality(RemoteCopies(d, i)') <= twice
            <4>1. RemoteCopies(d, i)' = {}
                BY <1>0, <1>3, <1>6, <1>12
            <4> QED
                BY <4>1, FS_EmptySet, BoundTypes DEF ReflectionInv
        <3>3. Cardinality(RemoteCopies(Other(t), k)') <= twice
            BY <3>1, <3>2 DEF RemoteCopies
        <3> QED
            BY <1>1, <1>3, <1>4, <1>7, <1>8, <3>1, <3>3 DEF Waiting
    <2>2. Creating' /\ landed' = FALSE
        BY <1>1, <1>2 DEF Creating
    <2> QED
        BY <2>1, <2>2 DEF PostingOK
<1>21. Covered'
    <2> SUFFICES ASSUME NEW t \in Sides, NEW k \in Real, RemoteCopies(t, k)' # {}
                 PROVE  Copies(local[t], k)' # {}
        BY DEF Covered
    <2>1. Copies(local[t], k) # {}
        BY <1>2, <1>12 DEF Covered, Synced, Creating, ReflectionInv
    <2>2. PICK x \in AllIds : local[t][x] # None /\ local[t][x].origin = k
        BY <2>1 DEF Copies
    <2>3. <<t, x>> # <<d, Temp(i)>>
        BY <2>2, <1>0, <1>3, <1>5, Ids DEF Copies, ListsOK, ReflectionInv
    <2>4. local'[t][x] = local[t][x]
        BY <1>8, <2>3
    <2> QED
        BY <2>2, <2>4 DEF Copies
<1> QED
    BY <1>13, <1>14, <1>15, <1>16, <1>19, <1>20, <1>21 DEF ReflectionInv

\* Sets of ids are finite.
LEMMA IdSets ==
    ASSUME NEW S, S \subseteq Real
    PROVE  IsFiniteSet(S) /\ Cardinality(S) \in Nat
<1>1. IsFiniteSet(Real)
    BY FS_Interval, Ids DEF Real
<1>2. IsFiniteSet(S)
    BY <1>1, FS_Subset
<1> QED
    BY <1>2, FS_CardinalityType

\* So are the copies side s has of an issue, before and after a step.
LEMMA CopiesFinite ==
    ASSUME NEW s \in Sides, NEW i \in Real
    PROVE  /\ IsFiniteSet(RemoteCopies(s, i)) /\ Cardinality(RemoteCopies(s, i)) \in Nat
           /\ Cardinality(RemoteCopies(s, i)') \in Nat
<1>1. RemoteCopies(s, i) \subseteq Real /\ RemoteCopies(s, i)' \subseteq Real
    BY DEF RemoteCopies
<1> QED
    BY <1>1, IdSets

\* One more copy of issue i on side s.
LEMMA CopyAdded ==
    ASSUME ReflectionInv, NEW s \in Sides, NEW i \in Real, NEW r \in Real, Added(s, r, Copy(i)),
           OriginalOn(Other(s), i)
    PROVE  /\ Grows /\ MarkersOK'
           /\ \A t \in Sides, k \in Real : t # s \/ k # i => RemoteCopies(t, k)' = RemoteCopies(t, k)
           /\ Cardinality(RemoteCopies(s, i)') <= Cardinality(RemoteCopies(s, i)) + 1
<1>1. /\ remote[s][r] = None /\ remote'[s][r] = Copy(i) /\ Copy(i).origin = i /\ Copy(i) # None
      /\ \A t \in Sides, j \in Real : <<t, j>> # <<s, r>> => remote'[t][j] = remote[t][j]
    BY IssueFacts DEF Added
<1>2. Grows
    <2> SUFFICES ASSUME NEW t \in Sides, NEW j \in Real, remote[t][j] # None
                 PROVE  remote'[t][j] # None /\ remote'[t][j].origin = remote[t][j].origin
        BY DEF Grows
    <2>1. <<t, j>> # <<s, r>>
        BY <1>1
    <2> QED
        BY <1>1, <2>1
<1>3. ASSUME NEW t \in Sides, NEW k \in Real, NEW j \in Real
      PROVE  j \in RemoteCopies(t, k)' <=> j \in RemoteCopies(t, k) \/ (t = s /\ k = i /\ j = r)
    <2>1. CASE t = s /\ j = r
        BY <1>1, <2>1 DEF RemoteCopies
    <2>2. CASE ~(t = s /\ j = r)
        BY <1>1, <2>2 DEF RemoteCopies
    <2> QED
        BY <2>1, <2>2
<1>4. \A t \in Sides, k \in Real : RemoteCopies(t, k)' \subseteq Real /\ RemoteCopies(t, k) \subseteq Real
    BY DEF RemoteCopies
<1>5. \A t \in Sides, k \in Real : t # s \/ k # i => RemoteCopies(t, k)' = RemoteCopies(t, k)
    BY <1>3, <1>4
<1>6. RemoteCopies(s, i)' = RemoteCopies(s, i) \cup {r}
    BY <1>3, <1>4
<1>7. Cardinality(RemoteCopies(s, i)') <= Cardinality(RemoteCopies(s, i)) + 1
    <2>1. r \notin RemoteCopies(s, i)
        BY <1>1 DEF RemoteCopies
    <2>2. Cardinality(RemoteCopies(s, i) \cup {r}) = Cardinality(RemoteCopies(s, i)) + 1
        BY <2>1, CopiesFinite, FS_AddElement
    <2> QED
        BY <1>6, <2>2, CopiesFinite
<1>8. MarkersOK'
    <2> SUFFICES ASSUME NEW t \in Sides, NEW j \in Real, NEW k \in Real, j \in RemoteCopies(t, k)'
                 PROVE  OriginalOn(Other(t), k)'
        BY DEF MarkersOK
    <2>1. OriginalOn(Other(t), k)
        BY <1>3 DEF MarkersOK, ReflectionInv
    <2> QED
        BY <1>2, <2>1, GrowFacts, Ids
<1> QED
    BY <1>2, <1>5, <1>7, <1>8

\* A loop goes on with its sources and its marker scan while copies are added.
LEMMA LoopGrows ==
    ASSUME ReflectionInv, Grows, UNCHANGED <<phase, todo, existing, posting>>,
           \A t \in Sides, k \in Real : Copies(local[t], k) = {} => Copies(local[t], k)' = {}
    PROVE  LoopOK' /\ StatesDone'
<1>1. \A s \in Sides : Direction(s)' <=> Direction(s)
    BY DEF Direction, From, Creating
<1>2. LoopOK'
    <2> SUFFICES ASSUME NEW s \in Sides, Direction(s)
                 PROVE  /\ \A i \in todo : OriginalOn(s, i)'
                        /\ \A i \in Real : \A j \in existing[i] \cap Real : j \in RemoteCopies(Other(s), i)'
                        /\ \A i \in todo \ {posting} : existing[i] = {} => Copies(local[Other(s)], i)' = {}
        BY <1>1 DEF LoopOK
    <2>1. \A i \in todo : i \in Real /\ OriginalOn(s, i)
        BY DEF LoopOK, OriginalOn, ReflectionInv
    <2>2. \A i \in todo : OriginalOn(s, i)'
        BY <2>1, GrowFacts
    <2>3. \A i \in Real : RemoteCopies(Other(s), i) \subseteq RemoteCopies(Other(s), i)'
        BY GrowFacts, Ids
    <2>4. \A i \in Real : \A j \in existing[i] \cap Real : j \in RemoteCopies(Other(s), i)'
        BY <2>3 DEF LoopOK, ReflectionInv
    <2>5. \A i \in todo \ {posting} : existing[i] = {} => Copies(local[Other(s)], i) = {}
        BY DEF LoopOK, ReflectionInv
    <2>6. \A i \in todo \ {posting} : existing[i] = {} => Copies(local[Other(s)], i)' = {}
        BY <2>1, <2>5, Ids
    <2> QED
        BY <2>2, <2>4, <2>6
<1>3. StatesDone'
    BY DEF StatesDone, ReflectionInv
<1> QED
    BY <1>2, <1>3

\* A copy whose source has a copy listed keeps the lists of the syncs complete.
LEMMA CoveredGrows ==
    ASSUME ReflectionInv, UNCHANGED phase, NEW s \in Sides, NEW i \in Real, Copies(local[s], i)' # {},
           \A t \in Sides, k \in Real : t # s \/ k # i => RemoteCopies(t, k)' = RemoteCopies(t, k),
           \A t \in Sides, k \in Real : Copies(local[t], k) # {} => Copies(local[t], k)' # {}
    PROVE  Covered'
<1> SUFFICES ASSUME NEW t \in Sides, Synced(t), NEW k \in Real, RemoteCopies(t, k)' # {}
             PROVE  Copies(local[t], k)' # {}
    BY DEF Covered, Synced
<1>1. CASE t = s /\ k = i
    BY <1>1
<1>2. CASE t # s \/ k # i
    BY <1>2 DEF Covered, ReflectionInv
<1> QED
    BY <1>1, <1>2

\* A POST settles: the copy, the only one but for those posted twice, is listed
\* under its id on the system.
LEMMA LandKept ==
    ASSUME ReflectionInv, NEW s \in Sides, NEW i \in Real, Land(s, i), Unsettled(s, i),
           UNCHANGED <<idMap, twice>>
    PROVE  /\ ListsOK' /\ MarkersOK' /\ LinksOK' /\ CountOK' /\ Grows
           /\ \A t \in Sides, k \in Real : t # s \/ k # i =>
                /\ RemoteCopies(t, k)' = RemoteCopies(t, k)
                /\ local'[t][Temp(k)] = local[t][Temp(k)]
                /\ Unsettled(t, k) => Unsettled(t, k)'
           /\ \A t \in Sides, k \in Real : Copies(local[t], k)' = {} <=> Copies(local[t], k) = {}
           /\ Copies(local[s], i)' # {}
<1>1. PICK r \in Real :
        /\ Added(s, r, Copy(i))
        /\ local'[s][r] = Copy(i) /\ local'[s][Temp(i)] = None
        /\ \A t \in Sides, x \in AllIds :
             <<t, x>> \notin {<<s, r>>, <<s, Temp(i)>>} => local'[t][x] = local[t][x]
    BY LandFacts DEF ReflectionInv
<1>2. /\ Grows /\ MarkersOK'
      /\ \A t \in Sides, k \in Real : t # s \/ k # i => RemoteCopies(t, k)' = RemoteCopies(t, k)
      /\ Cardinality(RemoteCopies(s, i)') <= Cardinality(RemoteCopies(s, i)) + 1
    BY <1>1, CopyAdded DEF Unsettled
<1>3. /\ local[s][r] = None /\ local[s][Temp(i)] # None /\ local[s][Temp(i)].origin = i
      /\ remote'[s][r] = Copy(i) /\ Copy(i) # None /\ Copy(i).origin = i
    BY <1>1, IssueFacts DEF Added, ListsOK, Unsettled, ReflectionInv
<1>4. \A t \in Sides, k \in Real : t # s \/ k # i => local'[t][Temp(k)] = local[t][Temp(k)]
    BY <1>1, Ids
<1>5. \A t \in Sides, k \in Real : t # s \/ k # r => local'[t][k] = local[t][k]
    BY <1>1, Ids
<1>6. ListsOK'
    <2> SUFFICES ASSUME NEW t \in Sides, NEW k \in Real
                 PROVE  /\ local'[t][k] # None => remote'[t][k] # None /\ local'[t][k].origin = remote'[t][k].origin
                        /\ local'[t][Temp(k)] # None => local'[t][Temp(k)].origin = k
        BY DEF ListsOK
    <2>1. local'[t][Temp(k)] # None => local'[t][Temp(k)].origin = k
        BY <1>1, <1>4 DEF ListsOK, ReflectionInv
    <2>2. CASE t = s /\ k = r
        BY <1>1, <1>3, <2>1, <2>2
    <2>3. CASE t # s \/ k # r
        BY <1>2, <1>5, <2>1, <2>3 DEF ListsOK, Grows, ReflectionInv
    <2> QED
        BY <2>2, <2>3
<1>7. LinksOK'
    BY <1>2, LinksKept DEF ReflectionInv
<1>8. CountOK'
    <2> SUFFICES ASSUME NEW t \in Sides, NEW k \in Real
                 PROVE  Cardinality(RemoteCopies(t, k)') <= 1 + twice
        BY DEF CountOK
    <2>1. CASE t = s /\ k = i
        <3>1. Cardinality(RemoteCopies(s, i)') <= Cardinality(RemoteCopies(s, i)) + 1
            BY <1>2
        <3>2. Cardinality(RemoteCopies(s, i)) <= twice /\ twice \in Nat /\ Cardinality(RemoteCopies(s, i)) \in Nat
            BY CopiesFinite, BoundTypes DEF Unsettled, ReflectionInv
        <3>3. Cardinality(RemoteCopies(s, i)') \in Nat
            BY CopiesFinite
        <3>4. Cardinality(RemoteCopies(s, i)') <= 1 + twice
            BY <3>1, <3>2, <3>3
        <3> QED
            BY <2>1, <3>4
    <2>2. CASE t # s \/ k # i
        BY <1>2, <2>2 DEF CountOK, ReflectionInv
    <2> QED
        BY <2>1, <2>2
<1>9. ASSUME NEW t \in Sides, NEW k \in Real, t # s \/ k # i, Unsettled(t, k) PROVE Unsettled(t, k)'
    <2>1. OriginalOn(Other(t), k)'
        BY <1>2, <1>9, GrowFacts, Ids DEF Unsettled
    <2> QED
        BY <1>2, <1>4, <1>9, <2>1 DEF Unsettled
<1>10. Copies(local[s], i)' # {} /\ Copies(local[s], i) # {}
    <2>1. r \in Copies(local[s], i)'
        BY <1>1, <1>3, Ids DEF Copies
    <2>2. Temp(i) \in Copies(local[s], i)
        BY <1>3, Ids DEF Copies
    <2> QED
        BY <2>1, <2>2
<1>11. ASSUME NEW t \in Sides, NEW k \in Real, t # s \/ k # i PROVE Copies(local[t], k)' = Copies(local[t], k)
    <2> SUFFICES ASSUME NEW x \in AllIds
                 PROVE  (local'[t][x] # None /\ local'[t][x].origin = k)
                           <=> (local[t][x] # None /\ local[t][x].origin = k)
        BY DEF Copies
    <2>1. CASE <<t, x>> = <<s, r>>
        BY <1>1, <1>3, <1>11, <2>1
    <2>2. CASE <<t, x>> = <<s, Temp(i)>>
        BY <1>1, <1>3, <1>11, <2>2
    <2>3. CASE <<t, x>> \notin {<<s, r>>, <<s, Temp(i)>>}
        BY <1>1, <2>3
    <2> QED
        BY <2>1, <2>2, <2>3
<1>12. \A t \in Sides, k \in Real : Copies(local[t], k)' = {} <=> Copies(local[t], k) = {}
    BY <1>10, <1>11
<1> QED
    BY <1>2, <1>4, <1>6, <1>7, <1>8, <1>9, <1>10, <1>12

\* The awaited copy lands.
LEMMA CopyLandsStep ==
    ASSUME ReflectionInv, TypeOK', CopyLands
    PROVE  ReflectionInv'
<1> USE DEF counters
<1>1. PICK s \in Sides : s = From
    BY Ids
<1>2. PICK d \in Sides : d = Other(s)
    BY Ids
<1>3. PICK i \in Real : i = posting
    BY TodoTypes DEF CopyLands, ReflectionInv
<1>4. To = d /\ Other(d) = s /\ Creating /\ Direction(s)
    BY <1>1, <1>2, Ids DEF CopyLands, PostingOK, Direction, ReflectionInv
<1>5. /\ ~landed /\ landed' = TRUE /\ Land(d, i)
      /\ UNCHANGED <<idMap, phase, todo, existing, posting, late, twice>>
    BY <1>3, <1>4 DEF CopyLands
<1>6. Waiting(s, i) /\ OriginalOn(s, i)
    BY <1>3, <1>4 DEF PostingOK, LoopOK, Waiting, ReflectionInv
<1>7. Unsettled(d, i) /\ <<d, i>> \notin late
    BY <1>2, <1>4, <1>5, <1>6 DEF Waiting, Unsettled
<1>8. /\ ListsOK' /\ MarkersOK' /\ LinksOK' /\ CountOK' /\ Grows
      /\ \A t \in Sides, k \in Real : t # d \/ k # i =>
           /\ RemoteCopies(t, k)' = RemoteCopies(t, k)
           /\ Unsettled(t, k) => Unsettled(t, k)'
      /\ \A t \in Sides, k \in Real : Copies(local[t], k)' = {} <=> Copies(local[t], k) = {}
      /\ Copies(local[d], i)' # {}
    BY <1>5, <1>7, LandKept
<1>9. LoopOK' /\ StatesDone'
    BY <1>5, <1>8, LoopGrows
<1>10. Covered'
    BY <1>5, <1>8, CoveredGrows
<1>11. LateOK'
    BY <1>5, <1>7, <1>8 DEF LateOK, ReflectionInv
<1>12. PostingOK'
    <2>1. Creating' /\ \A t \in Sides : Direction(t)' <=> Direction(t)
        BY <1>4, <1>5 DEF Direction, From, Creating
    <2>2. ASSUME NEW t \in Sides, NEW k \in Real, Direction(t), posting = k PROVE Waiting(t, k)'
        BY <1>5, <2>2 DEF Waiting, PostingOK, ReflectionInv
    <2> QED
        BY <1>3, <1>5, <2>1, <2>2, Ids DEF PostingOK
<1> QED
    BY <1>8, <1>9, <1>10, <1>11, <1>12 DEF ReflectionInv

\* An abandoned copy lands.
LEMMA LateStep ==
    ASSUME ReflectionInv, TypeOK', LateCopyLands
    PROVE  ReflectionInv'
<1> USE DEF counters, pass
<1>1. PICK d \in Sides, i \in Real : <<d, i>> \in late /\ Land(d, i) /\ late' = late \ {<<d, i>>}
    <2>1. PICK w \in late : Land(w[1], w[2]) /\ late' = late \ {w}
        BY DEF LateCopyLands
    <2>2. w[1] \in Sides /\ w[2] \in Real /\ w = <<w[1], w[2]>>
        BY <2>1 DEF ReflectionInv, TypeOK
    <2> QED
        BY <2>1, <2>2, Zenon
<1>2. UNCHANGED <<idMap, phase, todo, existing, posting, landed, twice>>
    BY DEF LateCopyLands
<1>3. Unsettled(d, i)
    BY <1>1 DEF LateOK, ReflectionInv
<1>4. /\ ListsOK' /\ MarkersOK' /\ LinksOK' /\ CountOK' /\ Grows
      /\ \A t \in Sides, k \in Real : t # d \/ k # i =>
           /\ RemoteCopies(t, k)' = RemoteCopies(t, k)
           /\ local'[t][Temp(k)] = local[t][Temp(k)]
           /\ Unsettled(t, k) => Unsettled(t, k)'
      /\ \A t \in Sides, k \in Real : Copies(local[t], k)' = {} <=> Copies(local[t], k) = {}
      /\ Copies(local[d], i)' # {}
    BY <1>1, <1>2, <1>3, LandKept
<1>5. LoopOK' /\ StatesDone'
    BY <1>2, <1>4, LoopGrows
<1>6. Covered'
    BY <1>2, <1>4, CoveredGrows
<1>7. LateOK'
    BY <1>1, <1>4 DEF LateOK, ReflectionInv
<1>8. PostingOK'
    <2>1. (Creating' <=> Creating) /\ \A t \in Sides : Direction(t)' <=> Direction(t)
        BY <1>2 DEF Direction, From, Creating
    <2>2. ASSUME NEW t \in Sides, NEW k \in Real, Direction(t), posting = k PROVE Waiting(t, k)'
        <3>1. Waiting(t, k)
            BY <2>2 DEF PostingOK, ReflectionInv
        <3>2. Other(t) \in Sides /\ (Other(t) # d \/ k # i)
            BY <1>1, <3>1, Ids DEF Waiting
        <3>3. RemoteCopies(Other(t), k)' = RemoteCopies(Other(t), k) /\ local'[Other(t)][Temp(k)] = local[Other(t)][Temp(k)]
            BY <1>4, <3>2
        <3> QED
            BY <1>1, <1>2, <3>1, <3>3 DEF Waiting
    <2> QED
        BY <1>2, <2>1, <2>2 DEF PostingOK, ReflectionInv
<1> QED
    BY <1>4, <1>5, <1>6, <1>7, <1>8 DEF ReflectionInv

\* A POST whose answer is lost: one copy more than the client knows of.
LEMMA TwiceStep ==
    ASSUME ReflectionInv, TypeOK', CopyTwice
    PROVE  ReflectionInv'
<1> USE DEF pass
<1>1. PICK s \in Sides : s = From
    BY Ids
<1>2. PICK d \in Sides : d = Other(s)
    BY Ids
<1>3. PICK i \in Real : i = posting
    BY TodoTypes DEF CopyTwice, ReflectionInv
<1>4. To = d /\ Other(d) = s /\ Creating /\ Direction(s)
    BY <1>1, <1>2, Ids DEF CopyTwice, PostingOK, Direction, ReflectionInv
<1>5. /\ ~landed /\ twice' = twice + 1 /\ twice \in Nat
      /\ UNCHANGED <<local, idMap, phase, todo, existing, posting, landed, late>>
    BY BoundTypes DEF CopyTwice, ReflectionInv
<1>6. PICK r \in Real : Added(d, r, Copy(i))
    <2>1. PICK r \in NextIds(d) : remote' = [remote EXCEPT ![d][r] = Copy(i)]
        BY <1>3, <1>4 DEF CopyTwice
    <2>2. Added(d, r, Copy(i))
        BY <2>1, AddFacts, IssueFacts DEF ReflectionInv
    <2> QED
        BY <2>2 DEF Added
<1>7. Waiting(s, i) /\ OriginalOn(s, i)
    BY <1>3, <1>4 DEF PostingOK, LoopOK, Waiting, ReflectionInv
<1>8. Unsettled(d, i) /\ <<d, i>> \notin late
    BY <1>2, <1>4, <1>5, <1>7 DEF Waiting, Unsettled
<1>9. /\ Grows /\ MarkersOK'
      /\ \A t \in Sides, k \in Real : t # d \/ k # i => RemoteCopies(t, k)' = RemoteCopies(t, k)
      /\ Cardinality(RemoteCopies(d, i)') <= Cardinality(RemoteCopies(d, i)) + 1
    BY <1>4, <1>6, <1>7, CopyAdded
<1>10. ListsOK' /\ LinksOK'
    BY <1>5, <1>9, ListsKept, LinksKept DEF ReflectionInv
<1>11. Cardinality(RemoteCopies(d, i)') <= twice + 1
    <2>1. Cardinality(RemoteCopies(d, i)) <= twice /\ Cardinality(RemoteCopies(d, i)) \in Nat
        BY <1>8, CopiesFinite DEF Unsettled
    <2>2. Cardinality(RemoteCopies(d, i)') \in Nat
        BY CopiesFinite
    <2> QED
        BY <1>5, <1>9, <2>1, <2>2
<1>12. CountOK'
    <2> SUFFICES ASSUME NEW t \in Sides, NEW k \in Real
                 PROVE  Cardinality(RemoteCopies(t, k)') <= 1 + twice'
        BY DEF CountOK
    <2>1. CASE t = d /\ k = i
        <3>1. Cardinality(RemoteCopies(t, k)') <= twice + 1
            BY <1>11, <2>1
        <3>2. Cardinality(RemoteCopies(t, k)') \in Nat
            BY CopiesFinite
        <3> QED
            BY <1>5, <3>1, <3>2
    <2>2. CASE t # d \/ k # i
        <3>1. RemoteCopies(t, k)' = RemoteCopies(t, k) /\ Cardinality(RemoteCopies(t, k)) <= 1 + twice
            BY <1>9, <2>2 DEF CountOK, ReflectionInv
        <3> QED
            BY <1>5, <3>1, CopiesFinite
    <2> QED
        BY <2>1, <2>2
<1>13. LateOK'
    <2> SUFFICES ASSUME NEW t \in Sides, NEW k \in Real, <<t, k>> \in late
                 PROVE  Unsettled(t, k)'
        BY <1>5 DEF LateOK
    <2>1. Unsettled(t, k) /\ (t # d \/ k # i)
        BY <1>8 DEF LateOK, ReflectionInv
    <2>2. OriginalOn(Other(t), k)'
        BY <1>9, <2>1, GrowFacts, Ids DEF Unsettled
    <2>3. Cardinality(RemoteCopies(t, k)') <= twice'
        <3>1. RemoteCopies(t, k)' = RemoteCopies(t, k) /\ Cardinality(RemoteCopies(t, k)) <= twice
            BY <1>9, <2>1 DEF Unsettled
        <3> QED
            BY <1>5, <3>1, CopiesFinite
    <2> QED
        BY <1>5, <2>1, <2>2, <2>3 DEF Unsettled
<1>14. \A t \in Sides, k \in Real : Copies(local[t], k)' = Copies(local[t], k)
    BY <1>5 DEF Copies
<1>15. LoopOK' /\ StatesDone'
    BY <1>5, <1>9, <1>14, LoopGrows
<1>16. Covered'
    <2>1. Copies(local[d], i)' # {}
        <3>1. Temp(i) \in Copies(local[d], i)
            BY <1>8, Ids DEF Unsettled, Copies, ListsOK, ReflectionInv
        <3> QED
            BY <1>14, <3>1
    <2> QED
        BY <1>5, <1>9, <1>14, <2>1, CoveredGrows
<1>17. PostingOK'
    <2>1. (Creating' <=> Creating) /\ \A t \in Sides : Direction(t)' <=> Direction(t)
        BY <1>5 DEF Direction, From, Creating
    <2>2. ASSUME NEW t \in Sides, NEW k \in Real, Direction(t), posting = k PROVE Waiting(t, k)'
        <3>1. t = s /\ k = i /\ Other(t) = d
            BY <1>2, <1>3, <1>4, <2>2 DEF Direction
        <3>2. Cardinality(RemoteCopies(Other(t), k)') <= twice'
            BY <1>5, <1>11, <3>1
        <3> QED
            BY <1>5, <1>7, <3>1, <3>2 DEF Waiting
    <2> QED
        BY <1>5, <2>1, <2>2 DEF PostingOK, ReflectionInv
<1> QED
    BY <1>9, <1>10, <1>12, <1>13, <1>15, <1>16, <1>17 DEF ReflectionInv

-----------------------------------------------------------------------------
(* Restarts, and the invariant. *)

\* A restart forgets the lists; the links that are read back are as good as
\* they were.
LEMMA RestartStep ==
    ASSUME ReflectionInv, TypeOK', Restart
    PROVE  ReflectionInv'
<1>1. /\ phase' = "idle" /\ posting' = 0 /\ landed' = FALSE /\ late' = {}
      /\ remote' = remote /\ twice' = twice
      /\ \A s \in Sides, x \in AllIds : local'[s][x] = None
    BY DEF Restart, Nothing
<1>2. ListsOK'
    BY <1>1, Ids DEF ListsOK
<1>3. MarkersOK' /\ CountOK'
    BY <1>1 DEF MarkersOK, CountOK, RemoteCopies, OriginalOn, ReflectionInv
<1>4. LateOK' /\ LoopOK' /\ PostingOK' /\ Covered' /\ StatesDone'
    BY <1>1 DEF LateOK, LoopOK, Direction, Creating, PostingOK, Covered, Synced, StatesDone
<1>5. LinksOK'
    <2>1. CASE idMap' = idMap
        BY <1>1, <2>1, LinksKept DEF Grows, ReflectionInv
    <2>2. CASE idMap' = [s \in Sides |-> Nothing(AllIds)]
        <3>1. \A s \in Sides, i \in Real : idMap'[s][i] = None
            BY <2>2, Ids DEF Nothing
        <3> QED
            BY <3>1, Ids DEF LinksOK
    <2> QED
        BY <2>1, <2>2 DEF Restart
<1> QED
    BY <1>2, <1>3, <1>4, <1>5 DEF ReflectionInv

\* Two systems without issues.
LEMMA InitInv == Init => ReflectionInv
<1> SUFFICES ASSUME Init PROVE ReflectionInv
    OBVIOUS
<1>1. /\ \A s \in Sides, i \in Real : remote[s][i] = None
      /\ \A s \in Sides, x \in AllIds : local[s][x] = None /\ idMap[s][x] = None
      /\ phase = "idle" /\ todo = {} /\ posting = 0 /\ landed = FALSE /\ late = {} /\ twice = 0
    BY Ids DEF Init, Nothing
<1>2. \A s \in Sides, i \in Real : RemoteCopies(s, i) = {}
    BY <1>1 DEF RemoteCopies
<1>3. TypeOK
    <2>1. limits \in [originals : Nat, toggles : Nat, faults : Nat, twice : Nat, restarts : Nat] /\ 0 \in 0..N
        BY LimitsAssumption, Ids DEF Init
    <2>2. /\ toggles \in 0..limits.toggles /\ faults \in 0..limits.faults
          /\ twice \in 0..limits.twice /\ restarts \in 0..limits.restarts
        BY <2>1 DEF Init
    <2>3. /\ remote \in [Sides -> [Real -> Issues \cup {None}]]
          /\ local \in [Sides -> [AllIds -> Issues \cup {None}]]
          /\ idMap \in [Sides -> [AllIds -> AllIds \cup {None}]]
          /\ existing \in [Real -> SUBSET AllIds]
        BY DEF Init, Nothing, NoCopies
    <2>4. \A p \in DOMAIN ledger : p \in AllIds \X AllIds /\ ledger[p] \in BOOLEAN
        BY DEF Init
    <2> QED
        BY <2>1, <2>2, <2>3, <2>4 DEF Init, TypeOK, Phases
<1>4. ListsOK /\ LinksOK
    BY <1>1, Ids DEF ListsOK, LinksOK
<1>5. MarkersOK /\ CountOK
    BY <1>1, <1>2, FS_EmptySet DEF MarkersOK, CountOK
<1>6. LateOK /\ LoopOK /\ PostingOK /\ Covered /\ StatesDone
    BY <1>1 DEF LateOK, LoopOK, Direction, Creating, PostingOK, Covered, Synced, StatesDone
<1> QED
    BY <1>3, <1>4, <1>5, <1>6 DEF ReflectionInv

\* Every step keeps the invariant.
LEMMA InvStep ==
    ASSUME ReflectionInv, [Next]_vars
    PROVE  ReflectionInv'
<1>1. TypeOK'
    BY TypeStep
<1>2. CASE SyncA \/ SyncB \/ NextDirection
    BY <1>1, <1>2, SyncSteps
<1>3. CASE LinkKnown \/ LinkCopy
    BY <1>1, <1>3, LinkSteps
<1>4. CASE PostCopy
    BY <1>1, <1>4, PostStep
<1>5. CASE CopyLands
    BY <1>1, <1>5, CopyLandsStep
<1>6. CASE CopyTwice
    BY <1>1, <1>6, TwiceStep
<1>7. CASE CopyAbandoned
    BY <1>1, <1>7, AbandonStep
<1>8. CASE LateCopyLands
    BY <1>1, <1>8, LateStep
<1>9. CASE Restart
    BY <1>1, <1>9, RestartStep
<1>10. CASE \/ StartState \/ StateAgrees \/ StatePatched \/ StateRecorded \/ StateFails \/ StartComments
            \/ EndPass \/ SyncFails \/ UNCHANGED vars \/ \E s \in Sides : PersonToggles(s) \/ PersonCreates(s)
    BY <1>1, <1>10, QuietSteps
<1> QED
    BY <1>2, <1>3, <1>4, <1>5, <1>6, <1>7, <1>8, <1>9, <1>10 DEF Next, Engine

\* Whatever people, faults and restarts do between the steps of a pass (reflect,
\* reflectCreates, IdMap.link, the runner's restarts), the issues, the clients'
\* lists, the pass and the links agree with each other as ReflectionInv says.
THEOREM ReflectionInvariant == Spec => []ReflectionInv
<1>1. Init => ReflectionInv
    BY InitInv
<1>2. ReflectionInv /\ [Next]_vars => ReflectionInv'
    BY InvStep
<1> QED
    BY <1>1, <1>2, PTL DEF Spec

\* reflectCreates copies an original once, and once more for each POST whose
\* answer was lost: no restart, lost id map, abandoned or late copy makes the
\* engine copy it again.
THEOREM OneCopy == Spec => []CopiedOnce
<1>1. ReflectionInv => CopiedOnce
    <2> SUFFICES ASSUME ReflectionInv, NEW s \in Sides, NEW i \in Real
                 PROVE  Cardinality({j \in Real : remote[Other(s)][j] # None /\ remote[Other(s)][j].origin = i}) <= 1 + twice
        BY DEF CopiedOnce
    <2>1. Cardinality(RemoteCopies(Other(s), i)) <= 1 + twice
        BY Ids DEF CountOK, ReflectionInv
    <2> QED
        BY <2>1 DEF RemoteCopies
<1> QED
    BY <1>1, ReflectionInvariant, PTL

\* IdMap.link only ever joins a copy with the original its marker names, in both
\* directions, although it overwrites what was linked before: a state change is
\* never reflected onto an unrelated issue.
THEOREM LinksVouched == Spec => []LinksMatchMarkers
<1>1. ReflectionInv => LinksMatchMarkers
    <2> SUFFICES ASSUME ReflectionInv, NEW i \in Real, NEW j \in Real, idMap["a"][i] = j
                 PROVE  /\ idMap["b"][j] = i
                        /\ \/ remote["a"][i].origin = j /\ IsOriginal(remote["b"][j])
                           \/ remote["b"][j].origin = i /\ IsOriginal(remote["a"][i])
        BY DEF LinksMatchMarkers
    <2>1. "a" \in Sides /\ Other("a") = "b"
        BY DEF Sides, Other
    <2>2. idMap["b"][j] = i /\ Vouched("a", i, j)
        BY <2>1 DEF LinksOK, ReflectionInv
    <2> QED
        BY <2>1, <2>2 DEF Vouched, RemoteCopies, OriginalOn
<1> QED
    BY <1>1, ReflectionInvariant, PTL

=============================================================================
