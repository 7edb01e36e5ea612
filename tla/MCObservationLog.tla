-------------------------- MODULE MCObservationLog --------------------------
(* Instances of ObservationLog for TLC.  Devices are only compared. *)
EXTENDS ObservationLog

\* An entry runs, is completed, or was moved and taken off its project.
Entry(done, project, at) == [done |-> done, project |-> project, at |-> at]
SomeValues == {Entry(FALSE, 1, 2), Entry(TRUE, 1, 2), Entry(TRUE, 0, 1)}

\* All entries are completed, or all but one are yet to come.
All == [e \in Entries |-> Entry(TRUE, 1, 2)]
One == [e \in Entries |-> IF e = CHOOSE x \in Entries : TRUE THEN Entry(TRUE, 1, 2) ELSE Unborn]

Window(query, known) == [query |-> query, known |-> known]
Setting(slow, window, pages) == [slow |-> slow, windows |-> {window}, pages |-> pages]
Plain == Setting({}, Window({2}, {2}), 3)

Left(passes, events) == [passes |-> passes, events |-> events]

\* Three passes with one entry, or two with both, while two things happen; or
\* three with both while one does, plainly or with a clock behind or a time zone
\* that is not known; or more pages than are read.
FirstPasses ==
    [entries : {One}, setting : {Plain}, left : {Left(3, 2)}]
        \cup [entries : {All}, setting : {Plain}, left : {Left(2, 2)}]
        \cup [entries : {All}, left : {Left(3, 1)},
              setting : {Plain} \cup {Setting({d}, Window({2}, {2}), 3) : d \in Devices}
                           \cup {Setting({}, Window({1, 2}, {2}), 3)}]
        \cup [entries : {One}, left : {Left(3, 1)}, setting : {Setting({}, Window({2}, {2}), 1)}]

Symmetry == Permutations(Devices)
=============================================================================
