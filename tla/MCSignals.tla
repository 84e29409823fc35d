----------------------------- MODULE MCSignals -----------------------------
(* A small instance of Signals.                                            *)
EXTENDS Signals, TLC

CONSTANTS A, B, C, either, nobody

ThreeTeams == {A, B, C}

\* The first two are close, the third is host and far behind.
SomeRanks == (A :> 3) @@ (B :> 5) @@ (C :> 48)
OneHost == {C}

\* One name may mean two teams, one means none.
SomeNames ==
    (A :> {A}) @@ (B :> {B}) @@ (C :> {C}) @@ (either :> {A, B}) @@ (nobody :> {})

\* One side has its first game in the second match; the third is the first one the
\* other way round, and the fourth the third once more.
SomeFixtures == <<<<A, B>>, <<C, A>>, <<B, A>>, <<B, A>>>>

\* Two wins of the side named second, a draw, a win of the first.
SomeScores == <<{<<0, 1>>}, {<<0, 1>>}, {<<1, 1>>}, {<<2, 1>>}>>
AllDomains == {"worldcup", "sports", "other"}

\* A match that is played both ways round, one named by a part of a name, half a match.
SomeRequests ==
    {[entity |-> [home |-> B, away |-> A], hint |-> FALSE],
     [entity |-> [home |-> C, away |-> either], hint |-> FALSE],
     [entity |-> [home |-> A, away |-> nobody], hint |-> TRUE]}

\* Two readers at a time, or one; market rests on what historical rests on.
SomeCasts == {{"trend", "risk"}, {"historical"}, {"contextual"}}

\* A real server in front of the demo source.
TwoSources ==
    <<[transport |-> "stdio", role |-> "contextual"],
      [transport |-> "builtin", role |-> "contextual"]>>

\* With the seed values of the score model: on neutral ground, and at home.
SeedThresholds ==
    [neutral \in BOOLEAN |-> IF neutral THEN {-290, 479, 930} ELSE {-379, 391, 841}]

\* Some pairs are raised whichever side is named first, one only one way, others not.
SomeRoundUp == {<<500, 333>>, <<333, 500>>, <<0, 333>>, <<0, 167>>, <<167, 0>>}

ASSUME SeedValuesFit == HomeEdgeFits
=============================================================================
