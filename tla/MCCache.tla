------------------------------ MODULE MCCache ------------------------------
(* Small instances of Cache: threads of two processes.                     *)
EXTENDS Cache, TLC

CONSTANTS k1, k2, k3, w1, w2, v1, v2

ThreeClients == {k1, k2, k3}
TwoProcesses == {w1, w2}
TwoValues == {v1, v2}

Interchangeable ==
    Permutations(ThreeClients) \cup Permutations(TwoProcesses) \cup Permutations(TwoValues)
=============================================================================
