-------------------------- MODULE MCPollingEvents ---------------------------
(* Small instances of PollingEvents for TLC.                               *)
EXTENDS PollingEventsProps, TLC

CONSTANTS s1, s2, s3, e1, e2, p1, p2

Symmetric == Permutations(Sub) \cup Permutations(Event) \cup Permutations(Poller)
=============================================================================
