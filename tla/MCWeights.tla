----------------------------- MODULE MCWeights -----------------------------
(* A small instance of Weights.                                            *)
EXTENDS Weights, TLC

CONSTANTS a1, a2, a3

ThreeAgents == {a1, a2, a3}

ThreeDefaults == (a1 :> 450) @@ (a2 :> 350) @@ (a3 :> 200)

\* a1 alone is right; a3 is right, a1 wrong and a2 has no observations.
Rivals == {(a1 :> 2) @@ (a2 :> 0) @@ (a3 :> 0), (a1 :> 0) @@ (a3 :> 2)}

\* The settings of the repository, DEFAULT_WEIGHTS in its order, are among those the
\* theorems on steps and lessons are about, and this instance is among the former.
Configured == INSTANCE Weights WITH
    Agents <- 1..6, DefaultWeights <- <<2500, 2000, 1500, 1500, 1000, 1500>>,
    Scale <- 10000, AccScale <- 10000, Windows <- {}, Enabled <- TRUE,
    RateNum <- 1, RateDen <- 10, MinWeight <- 200, MaxWeight <- 6000

ASSUME SettingsFit ==
    /\ Configured!RateFits /\ Configured!LessonsFit
    /\ RateFits /\ AddsUp(DefaultWeights)
=============================================================================
