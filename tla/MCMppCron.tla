----------------------------- MODULE MCMppCron -----------------------------
(* Small instances of MppCron: two passes, one match without known clubs.  *)
EXTENDS MppCron, TLC

CONSTANTS c1, c2, m1, m2, m3

TwoTicks == {c1, c2}
ThreeMatches == {m1, m2, m3}
TwoMatches == {m1, m2}

Interchangeable == Permutations(TwoTicks) \cup Permutations(TwoMatches)
=============================================================================
