----------------------------- MODULE MCSyncJobs ------------------------------
(* Small instances of SyncJobs for TLC: a file of two parts at the top of  *)
(* the source and one of a single part two folders down.                   *)
EXTENDS SyncJobsProps

A == <<"a">>
D == <<"d">>
E == <<"d", "e">>
B == <<"d", "e", "b">>
X == <<"d", "x">>
Y == <<"y">>

\* Besides them an empty file, one that is too large, one that a pattern excludes,
\* though the drive has it, and a directory with a marker.
Files   == {A, B}
Nil     == <<"z">>
Large   == <<"large">>
Hidden  == {<<"k", "c">>, <<"k", "skip">>}
Found   == Files \cup {X, Nil, Large} \cup Hidden
Sizes   == [p \in Found |-> CASE p = A -> 3 [] p = Nil -> 0 [] p = Large -> 10 [] OTHER -> 2]
OneFile == {A}
OnlyX   == {X}

OldFile == Stored(<<>>, FALSE, FALSE)
Current(p) == Stored(IF Sizes[p] = 0 THEN <<>>
                     ELSE <<[no |-> 1, from |-> 0, len |-> Sizes[p], enc |-> FALSE]>>, FALSE, TRUE)
Empty   == [p \in {A, D, E, B, X, Y, Nil} |-> IF p = Nil THEN Current(p) ELSE Nothing]

\* Nothing but the empty file; an older version of a and an extra folder; a file
\* where the source has a folder; a folder where it has a file; an extra file in a
\* folder it has; one more at the top, which then has more entries than a page when
\* the copying run has added a; all but the empty file, which no transfer makes.
Destinations == {
  Empty,
  [Empty EXCEPT ![A] = OldFile, ![D] = Folder, ![X] = Folder],
  [Empty EXCEPT ![D] = OldFile, ![A] = Current(A)],
  [Empty EXCEPT ![A] = Folder, ![D] = Folder, ![E] = Folder, ![B] = OldFile],
  [Empty EXCEPT ![D] = Folder, ![E] = Folder, ![B] = Current(B), ![X] = OldFile],
  [Empty EXCEPT ![D] = Folder, ![E] = Folder, ![B] = Current(B), ![Y] = OldFile],
  [Empty EXCEPT ![D] = Folder, ![E] = Folder, ![B] = Current(B), ![A] = Current(A), ![Nil] = Nothing]}
Nowhere == {[p \in OneFile |-> Nothing]}

Two(x)       == [r \in 1..2 |-> x]
TwoUnits     == Two(2)
Plain        == Two(FALSE)
Mirroring    == Two(TRUE)
CopyThenSync == [r \in 1..2 |-> r = 2]
=============================================================================
