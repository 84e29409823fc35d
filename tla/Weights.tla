------------------------------ MODULE Weights ------------------------------
(***************************************************************************)
(* The agent weight vector of app/orchestration/weights.py, by value: what *)
(* ticks of the auto-weighting do to it, one accuracy window after the     *)
(* other.  LearningLoop tells who publishes a vector and when; this module *)
(* tells which one.                                                        *)
(*                                                                         *)
(* Weights are integers, Scale of them make 1.0 (the code rounds to four   *)
(* decimals, Scale = 10000); accuracies are integers, AccScale of them     *)
(* make 1.0.  The products of a tick are exact, only normalise rounds.     *)
(***************************************************************************)
EXTENDS Integers, FiniteSets, Functions

CONSTANTS
    Agents,
    DefaultWeights,     \* settings.agent_weights, in units of 1/Scale
    Scale,
    AccScale,
    Windows,            \* accuracy maps agent_accuracy may return
    Enabled,            \* settings.autoweight_enabled
    RateNum, RateDen,   \* settings.autoweight_learning_rate
    MinWeight, MaxWeight,   \* settings.autoweight_min, autoweight_max
    None

ASSUME WeightsAssumption ==
    /\ IsFiniteSet(Agents) /\ Agents # {}
    /\ Scale \in Nat \ {0} /\ AccScale \in Nat \ {0}
    /\ DefaultWeights \in [Agents -> Nat]
    /\ \A acc \in Windows : /\ DOMAIN acc \subseteq Agents
                            /\ \A a \in DOMAIN acc : acc[a] \in 0..AccScale
    /\ Enabled \in BOOLEAN
    /\ RateNum \in Nat /\ RateDen \in Nat \ {0}
    /\ MinWeight \in Nat /\ MaxWeight \in Nat /\ MinWeight <= MaxWeight

\* Every window with an observation that agent_accuracy may return.
AllWindows == UNION {[S -> 0..AccScale] : S \in (SUBSET Agents) \ {{}}}

VARIABLE cached     \* the cache entry "orchestration:weights"

\* WeightManager.current.
Current == IF cached = None THEN DefaultWeights ELSE cached

\* round(v / total, 4); a tie goes up here and to the even neighbour there.
Share(v, total) == (2 * Scale * v + total) \div (2 * total)

\* No weight is negative here, so max(0, w) is w.
Normalise(v) ==
    LET total == SumFunction(v) IN
    [a \in Agents |-> IF total = 0 THEN Scale \div Cardinality(Agents)
                      ELSE Share(v[a], total)]

\* What a weight is multiplied by to make every product of a tick whole.
Whole(acc) == RateDen * AccScale * Cardinality(DOMAIN acc)

\* Mutated form of Factor: the nudge goes away from the accurate agents.
FactorInverted(acc, a) ==
    IF a \in DOMAIN acc
      THEN Whole(acc) - RateNum * (Cardinality(DOMAIN acc) * acc[a] - SumFunction(acc))
      ELSE Whole(acc)

\* Mutated form of Factor: the learning rate is left out.
FactorUnrated(acc, a) ==
    IF a \in DOMAIN acc
      THEN Whole(acc) + RateDen * (Cardinality(DOMAIN acc) * acc[a] - SumFunction(acc))
      ELSE Whole(acc)

\* 1 + lr * (acc - mean); an agent without observations counts as the mean.
Factor(acc, a) ==
    IF a \in DOMAIN acc
      THEN Whole(acc) + RateNum * (Cardinality(DOMAIN acc) * acc[a] - SumFunction(acc))
      ELSE Whole(acc)

\* Mutated form of Clamp: there is no upper limit.
ClampBelow(v, one) == IF v < MinWeight * one THEN MinWeight * one ELSE v

Clamp(v, one) ==
    CASE v < MinWeight * one -> MinWeight * one
      [] v > MaxWeight * one -> MaxWeight * one
      [] OTHER -> v

\* adjust_from_accuracy applied to the vector w.
Adjusted(w, acc) ==
    Normalise([a \in Agents |-> Clamp(w[a] * Factor(acc, a), Whole(acc))])

-----------------------------------------------------------------------------

WeightsInit == cached = None

\* recalculate_weights with a non-empty accuracy window.
Tick(acc) ==
    /\ Enabled
    /\ DOMAIN acc # {}
    /\ cached' = Adjusted(Current, acc)

\* WeightManager.reset, or the end of the entry's 86 400 seconds.
Reset ==
    /\ cached # None
    /\ cached' = None

WeightsNext == (\E acc \in Windows : Tick(acc)) \/ Reset

WeightsSpec == WeightsInit /\ [][WeightsNext]_cached

-----------------------------------------------------------------------------
(* Conditions on the settings, under which some of the properties hold for *)
(* every instance; nothing in the code enforces them.                      *)

\* The weights w add up to 1, within half a unit of each.
AddsUp(w) == 2 * (SumFunction(w) - Scale) \in (-Cardinality(Agents))..Cardinality(Agents)

\* The rate is at most one half, and large next to the rounding.
RateFits ==
    /\ 2 * RateNum <= RateDen
    /\ 3 * RateDen * (Cardinality(Agents) + 1) <= 2 * RateNum * Scale

\* Each weight the limits allow is worth n steps of the rate, and what a tick
\* normalises adds up to less than 2: a nudge is seen through the rounding.
LessonsFit ==
    LET n == Cardinality(Agents) IN
    /\ Enabled
    /\ MinWeight > 0
    /\ AddsUp(DefaultWeights)
    /\ \A a \in Agents : RateDen * n <= RateNum * DefaultWeights[a]
    /\ (RateDen * n + RateNum) * (MinWeight + (n - 1) * MaxWeight) <= RateNum * (Scale * MinWeight)
    /\ (RateDen + RateNum) * (2 * Scale + n) + 2 * (RateDen * MinWeight) * n < 4 * (Scale * RateDen)

-----------------------------------------------------------------------------
(* Properties.                                                             *)

\* However long the ticks go on, the published vector is one distribution, within
\* half a unit of rounding per agent; no agent collapses, each keeps the share that
\* MinWeight has among otherwise maximal weights; and none takes over, each has at
\* most the share of MaxWeight among otherwise minimal ones.  That is more than
\* MaxWeight, for the clamp comes before the normalisation (adjust_from_accuracy,
\* normalise).
SharesBounded ==
    cached # None =>
        LET others == Cardinality(Agents) - 1
            gap == 2 * (SumFunction(cached) - Scale)
        IN  /\ gap \in (-Cardinality(Agents))..Cardinality(Agents)
            /\ \A a \in Agents :
                   /\ (cached[a] + 1) * (MinWeight + others * MaxWeight) >= Scale * MinWeight
                   /\ (cached[a] - 1) * (MaxWeight + others * MinWeight) <= Scale * MaxWeight

\* An agent that is no less accurate and has no less weight keeps no less
\* weight, through nudge, clamp, normalisation and rounding, whichever window
\* comes next (adjust_from_accuracy).
MeritRespected ==
    \A acc \in Windows :
        LET next == Adjusted(Current, acc) IN
        \A a, b \in DOMAIN acc :
            (acc[a] >= acc[b] /\ Current[a] >= Current[b]) => next[a] >= next[b]

\* "A bounded learning rate": whichever window comes next, it moves no weight
\* by more than the rate (adjust_from_accuracy).
BoundedStep ==
    \A acc \in Windows :
        LET next == Adjusted(Current, acc) IN
        \A a \in Agents :
            /\ RateDen * (next[a] - Current[a]) <= RateNum * Scale
            /\ RateDen * (Current[a] - next[a]) <= RateNum * Scale

=============================================================================
