----------------------------- MODULE MCFileTree ------------------------------
(* Small instances of FileTree for TLC.                                    *)
EXTENDS FileTreeProps, TLC

CONSTANTS a, b, r1, r2
Slots == Permutations(Name) \cup Permutations(Request)

Entry(p, n, t) == [parent |-> p, name |-> n, type |-> t]
Drives == {
  <<Entry(0, a, "folder"), Entry(1, b, "file")>>,
  <<Entry(0, a, "folder"), Entry(1, a, "folder"), Entry(2, b, "file")>>}
=============================================================================
