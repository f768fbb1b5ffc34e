--------------------------- MODULE MCContentStore ---------------------------
(* Small instances of ContentStore for TLC.                                *)
EXTENDS ContentStoreInv, TLC

CONSTANTS c1, c2, u1, u2, n1, n2, r1, r2

HomeOne   == [u \in Upload |-> c1]
Both      == [u \in Upload |-> {"create", "update"}]
EveryWay  == [u \in Upload |-> {"create", "parts", "update"}]
OneTitle  == [u \in Upload |-> n1]
FirstFile == [u \in Upload |-> 1]
Slots     == Permutations(Req)
=============================================================================
