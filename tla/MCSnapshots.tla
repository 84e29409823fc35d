---------------------------- MODULE MCSnapshots ----------------------------
(* A small instance of Snapshots.                                           *)
EXTENDS Snapshots, TLC

CONSTANTS m1, m2, s1, s2

TwoMatches == {m1, m2}
TwoRefreshers == {s1, s2}

\* The second match follows the first; time 0 is before both.
Kickoffs == [m \in Matches |-> IF m = m1 THEN 1 ELSE 2]

Interchangeable == Permutations(TwoRefreshers)
=============================================================================
