--------------------------- MODULE FeedbackProofs ---------------------------
(***************************************************************************)
(* Proofs about Feedback and about Weights, which it extends: honest       *)
(* verdicts teach what outcomes teach, contradictory ones cancel, whoever  *)
(* was right gains, and the vector is one of Weights, whose shares stay    *)
(* bounded, respect merit and move by the rate at most, for any number of  *)
(* predictions, agents, verdicts and lessons.                              *)
(***************************************************************************)
EXTENDS Feedback, SumTheorems

Verdicts == {"approve", "reject", "correct"}

\* What the agents of a prediction said; a snapshot has none.
Calls == [Agents -> BOOLEAN] \cup {<<>>}

\* Verdicts and outcomes are about predictions there are.
PredictionsInv ==
    /\ DOMAIN predictions = Preds
    /\ \A p \in Preds : predictions[p] # None =>
           predictions[p].text \in Text /\ predictions[p].calls \in Calls

OutcomesInv ==
    /\ DOMAIN outcomes = Preds
    /\ \A p \in Preds : outcomes[p] # None => outcomes[p].actual \in Text

VerdictRow ==
    [pred : Preds, verdict : Verdicts, corrected : Text \cup {None}, reward : {-2, 0, 1, 2}]

FeedbackInv ==
    /\ feedback \in Seq(VerdictRow)
    /\ \A i \in DOMAIN feedback : predictions[feedback[i].pred] # None

Inv == PredictionsInv /\ OutcomesInv /\ FeedbackInv

-----------------------------------------------------------------------------
(* The invariant.                                                          *)

LEMMA InitInv == Init => Inv
<1> SUFFICES ASSUME Init PROVE Inv
  OBVIOUS
<1>1. PredictionsInv /\ OutcomesInv
  BY DEF Init, PredictionsInv, OutcomesInv
<1>2. FeedbackInv
  BY DEF Init, FeedbackInv
<1>3. QED
  BY <1>1, <1>2 DEF Inv

\* A new prediction leaves the others as they are.
LEMMA NewPrediction ==
    ASSUME Inv, NEW p \in Preds, NEW row, row.text \in Text, row.calls \in Calls,
           predictions[p] = None,
           predictions' = [predictions EXCEPT ![p] = row],
           UNCHANGED <<outcomes, feedback>>
    PROVE  Inv'
<1>1. PredictionsInv'
  BY DEF Inv, PredictionsInv
<1>2. OutcomesInv'
  BY DEF Inv, OutcomesInv
<1>3. FeedbackInv'
  <2>1. ASSUME NEW i \in DOMAIN feedback
        PROVE  predictions'[feedback[i].pred] # None
    BY DEF Inv, PredictionsInv, FeedbackInv
  <2>2. QED
    BY <2>1 DEF Inv, FeedbackInv
<1>4. QED
  BY <1>1, <1>2, <1>3 DEF Inv

LEMMA PredictInv ==
    ASSUME Inv, NEW p \in Preds, NEW text \in Forecasts, NEW calls \in Votes,
           Predict(p, text, calls)
    PROVE  Inv'
<1> DEFINE row == [text |-> text, calls |-> calls]
<1>1. row.text \in Text /\ row.calls \in Calls
  BY FeedbackAssumption DEF Calls
<1>2. /\ predictions[p] = None
      /\ predictions' = [predictions EXCEPT ![p] = row]
      /\ UNCHANGED <<outcomes, feedback>>
  BY DEF Predict
<1> HIDE DEF row
<1>3. QED
  BY <1>1, <1>2, NewPrediction

LEMMA SnapshotInv ==
    ASSUME Inv, NEW p \in Preds, NEW text \in Actuals, Snapshot(p, text)
    PROVE  Inv'
<1> DEFINE row == [text |-> text, calls |-> <<>>]
<1>1. row.text \in Text /\ row.calls \in Calls
  BY FeedbackAssumption DEF Calls
<1>2. /\ predictions[p] = None
      /\ predictions' = [predictions EXCEPT ![p] = row]
      /\ UNCHANGED <<outcomes, feedback>>
  BY DEF Snapshot
<1> HIDE DEF row
<1>3. QED
  BY <1>1, <1>2, NewPrediction

LEMMA RecordOutcomeInv ==
    ASSUME Inv, NEW p \in Preds, NEW actual \in Actuals, RecordOutcome(p, actual)
    PROVE  Inv'
<1>1. PredictionsInv' /\ FeedbackInv'
  BY DEF Inv, RecordOutcome, PredictionsInv, FeedbackInv
<1>2. OutcomesInv'
  BY FeedbackAssumption DEF Inv, RecordOutcome, OutcomesInv
<1>3. QED
  BY <1>1, <1>2 DEF Inv

LEMMA RecordFeedbackInv ==
    ASSUME Inv, NEW p \in Preds, NEW verdict \in Verdicts, NEW corrected \in Text \cup {None},
           RecordFeedback(p, verdict, corrected)
    PROVE  Inv'
<1> DEFINE row == [pred |-> p, verdict |-> verdict, corrected |-> corrected,
                   reward |-> FeedbackReward(verdict, corrected)]
<1>1. PredictionsInv' /\ OutcomesInv'
  BY DEF Inv, RecordFeedback, PredictionsInv, OutcomesInv
<1>2. row \in VerdictRow
  BY DEF VerdictRow, Verdicts, FeedbackReward
<1>3. FeedbackInv'
  <2>1. feedback' = Append(feedback, row) /\ predictions' = predictions /\ predictions[p] # None
    BY DEF RecordFeedback
  <2>2. QED
    BY <1>2, <2>1 DEF Inv, FeedbackInv
<1>4. QED
  BY <1>1, <1>3 DEF Inv

LEMMA StepInv == Inv /\ [Next]_vars => Inv'
<1> SUFFICES ASSUME Inv, [Next]_vars PROVE Inv'
  OBVIOUS
<1> USE DEF Inv
<1>1. ASSUME NEW p \in Preds, NEW text \in Forecasts, NEW calls \in Votes, Predict(p, text, calls)
      PROVE  Inv'
  BY <1>1, PredictInv
<1>2. ASSUME NEW p \in Preds, NEW text \in Actuals, Snapshot(p, text)
      PROVE  Inv'
  BY <1>2, SnapshotInv
<1>3. ASSUME NEW p \in Preds, NEW text \in Actuals, RecordOutcome(p, text)
      PROVE  Inv'
  BY <1>3, RecordOutcomeInv
<1>4. ASSUME NEW p \in Preds, NEW verdict \in {"approve", "reject"},
             RecordFeedback(p, verdict, None)
      PROVE  Inv'
  BY <1>4, RecordFeedbackInv DEF Verdicts
<1>5. ASSUME NEW p \in Preds, NEW text \in Actuals \cup {None},
             RecordFeedback(p, "correct", text)
      PROVE  Inv'
  <2>1. text \in Text \cup {None}
    BY FeedbackAssumption, WeightsAssumption
  <2>2. QED
    BY <1>5, <2>1, RecordFeedbackInv DEF Verdicts
<1>6. ASSUME NEW source \in {"outcomes", "feedback"}, Learn(source)
      PROVE  Inv'
  BY <1>6 DEF Learn, PredictionsInv, OutcomesInv, FeedbackInv
<1>7. CASE RollbackWeights
  BY <1>7 DEF RollbackWeights, PredictionsInv, OutcomesInv, FeedbackInv
<1>8. CASE UNCHANGED vars
  BY <1>8 DEF vars, PredictionsInv, OutcomesInv, FeedbackInv
<1>9. QED
  BY <1>1, <1>2, <1>3, <1>4, <1>5, <1>6, <1>7, <1>8 DEF Next

LEMMA Invariant == Spec => []Inv
BY InitInv, StepInv, PTL DEF Spec
-----------------------------------------------------------------------------
(* Verdicts.                                                               *)

\* What a text teaches: a verdict reads a token only, an outcome a score line too.
LEMMA Labels ==
    ASSUME NEW t \in Text
    PROVE  /\ LabelFromActual(t) = IF t.kind = "token" THEN t.side ELSE None
           /\ t.kind # "match" => RealisedLabel(t) = t.side
<1>1. t # None /\ t.kind \in {"token", "score", "match"} /\ (t.kind = "token" => t.side # None)
  BY FeedbackAssumption DEF Text
<1>2. QED
  BY <1>1 DEF LabelFromActual, LabelFromScoreline, RealisedLabel

LEMMA HonestLabels ==
    ASSUME Inv
    PROVE  HonestVerdictsAgree
<1> SUFFICES ASSUME NEW i \in DOMAIN feedback,
                    outcomes[feedback[i].pred] # None,
                    outcomes[feedback[i].pred].actual.kind # "match", Honest(feedback[i])
             PROVE  LET f == feedback[i]
                        o == outcomes[f.pred]
                    IN  \/ VerdictLabel(i) = RealisedLabel(o.actual)
                        \/ VerdictLabel(i) = None /\ Unread(f)
                        \/ f.verdict = "reject" /\ o.actual.side = None
  BY DEF HonestVerdictsAgree
<1> DEFINE f == feedback[i]
           was == outcomes[f.pred].actual
           said == predictions[f.pred].text
<1>1. /\ f.pred \in Preds
      /\ f.verdict \in Verdicts
      /\ f.corrected \in Text \cup {None}
      /\ predictions[f.pred] # None
  <2>1. f \in VerdictRow
    BY DEF Inv, FeedbackInv
  <2>2. predictions[f.pred] # None
    BY DEF Inv, FeedbackInv
  <2> HIDE DEF f
  <2>3. QED
    BY <2>1, <2>2 DEF VerdictRow
<1>2. was \in Text /\ said \in Text
  BY <1>1 DEF Inv, PredictionsInv, OutcomesInv
<1>3. RealisedLabel(was) = was.side
  BY <1>2, Labels
<1>4. VerdictLabel(i) = LabelFromFeedback(f.verdict, said, f.corrected)
  BY DEF VerdictLabel
<1>5. CASE f.verdict = "approve"
  <2>1. said.side = was.side
    BY <1>5 DEF Honest
  <2>2. VerdictLabel(i) = LabelFromActual(said)
    BY <1>4, <1>5 DEF LabelFromFeedback
  <2>3. CASE said.kind = "token"
    BY <1>2, <1>3, <2>1, <2>2, <2>3, Labels
  <2>4. CASE said.kind # "token"
    BY <1>2, <1>5, <2>2, <2>4, Labels DEF Unread
  <2>5. QED
    BY <2>3, <2>4
<1>6. CASE f.verdict = "reject"
  <2>1. said.side # was.side
    BY <1>6 DEF Honest
  <2>2. VerdictLabel(i) = IF LabelFromActual(said) = None THEN None
                          ELSE 1 - LabelFromActual(said)
    BY <1>4, <1>6 DEF LabelFromFeedback
  <2>3. CASE said.kind # "token"
    BY <1>2, <1>6, <2>2, <2>3, Labels DEF Unread
  <2>4. CASE said.kind = "token" /\ was.side # None
    <3>1. said.side \in {0, 1} /\ was.side \in {0, 1} /\ None \notin {0, 1}
      BY <1>2, <2>4, FeedbackAssumption DEF Text, Sides
    <3>2. LabelFromActual(said) = said.side
      BY <1>2, <2>4, Labels
    <3>3. QED
      BY <1>3, <2>1, <2>2, <3>1, <3>2
  <2>5. CASE was.side = None
    BY <1>6, <2>5
  <2>6. QED
    BY <2>3, <2>4, <2>5
<1>7. CASE f.verdict = "correct"
  <2>1. f.corrected = was
    BY <1>7 DEF Honest
  <2>2. VerdictLabel(i) = LabelFromActual(was)
    BY <1>4, <1>7, <2>1 DEF LabelFromFeedback
  <2>3. CASE was.kind = "token"
    BY <1>2, <1>3, <2>2, <2>3, Labels
  <2>4. CASE was.kind # "token"
    BY <1>2, <1>7, <2>1, <2>2, <2>4, Labels DEF Unread
  <2>5. QED
    BY <2>3, <2>4
<1>8. QED
  BY <1>1, <1>5, <1>6, <1>7 DEF Verdicts

\* Honest verdicts have the label of the recorded outcome, but where the text at hand
\* is no class token, which teaches nothing, or a draw is learned as a win of the other
\* side (label_from_feedback, realised_label).
THEOREM HonestyIsTaught == Spec => []HonestVerdictsAgree
BY Invariant, HonestLabels, PTL
-----------------------------------------------------------------------------
(* Weights.                                                                *)

LEMMA Quotient ==
    ASSUME NEW a \in Nat, NEW h \in Nat, NEW o \in Nat \ {0}, h <= o
    PROVE  (a * h) \div o \in 0..a
<1> DEFINE q == (a * h) \div o
<1>1. q \in Int /\ o * q <= a * h /\ a * h < o * (q + 1)
  OBVIOUS
<1> HIDE DEF q
<1>2. 0 <= q
  <2>1. SUFFICES ASSUME q + 1 <= 0 PROVE FALSE
    BY <1>1
  <2>2. o * (q + 1) <= 0 /\ 0 <= a * h
    BY <1>1, <2>1
  <2>3. QED
    BY <1>1, <2>2
<1>3. q <= a
  <2>1. SUFFICES ASSUME a + 1 <= q PROVE FALSE
    BY <1>1
  <2>2. a * h <= a * o
    OBVIOUS
  <2>3. o * (a + 1) <= o * q
    BY <1>1, <2>1
  <2>4. o * (a + 1) = a * o + o
    OBVIOUS
  <2>5. QED
    BY <1>1, <2>2, <2>3, <2>4
<1>4. QED
  BY <1>1, <1>2, <1>3 DEF q

\* There are finitely many rows of either table.
LEMMA RowsFinite ==
    ASSUME Inv, NEW source \in {"outcomes", "feedback"}
    PROVE  IsFiniteSet(DOMAIN RowsOf(source))
<1>1. IsFiniteSet(DOMAIN OutcomeRows)
  <2>1. DOMAIN OutcomeRows \subseteq Preds
    BY DEF OutcomeRows
  <2>2. QED
    BY <2>1, FS_Subset, FeedbackAssumption, WeightsAssumption
<1>2. IsFiniteSet(DOMAIN FeedbackRows)
  <2>1. DOMAIN FeedbackRows = 1..Len(feedback) /\ Len(feedback) \in Nat
    BY DEF FeedbackRows, Inv, FeedbackInv
  <2>2. QED
    BY <2>1, FS_Interval
<1>3. QED
  BY <1>1, <1>2 DEF RowsOf

\* Accuracies are shares, of the agents that were observed.
LEMMA AccuracyIsWindow ==
    ASSUME NEW rows, IsFiniteSet(DOMAIN rows)
    PROVE  /\ DOMAIN Accuracy(rows) \subseteq Agents
           /\ DOMAIN Accuracy(rows) # {} => Accuracy(rows) \in AllWindows
<1> DEFINE acc == Accuracy(rows)
<1>1. DOMAIN acc = Rated(rows) /\ Rated(rows) \subseteq Agents
  BY DEF Accuracy, Rated
<1>2. ASSUME NEW a \in Rated(rows)
      PROVE  acc[a] \in 0..AccScale
  <2> DEFINE hits == Hits(rows, a)
             seen == Observed(rows, a)
  <2>1. hits \subseteq seen /\ seen \subseteq DOMAIN rows /\ seen # {}
    BY DEF Hits, Observed, Rated
  <2> HIDE DEF hits, seen
  <2>2. IsFiniteSet(seen) /\ IsFiniteSet(hits)
    BY <2>1, FS_Subset
  <2>3. Cardinality(hits) <= Cardinality(seen)
    BY <2>1, <2>2, FS_Subset
  <2>4. Cardinality(hits) \in Nat /\ Cardinality(seen) \in Nat \ {0}
    BY <2>1, <2>2, FS_CardinalityType, FS_EmptySet
  <2>5. (AccScale * Cardinality(hits)) \div Cardinality(seen) \in 0..AccScale
    BY <2>3, <2>4, Quotient, FeedbackAssumption, WeightsAssumption
  <2>6. acc[a] = (AccScale * Cardinality(hits)) \div Cardinality(seen)
    BY DEF Accuracy, hits, seen
  <2>7. QED
    BY <2>5, <2>6
<1>3. acc \in [Rated(rows) -> 0..AccScale]
  BY <1>2 DEF Accuracy
<1>4. QED
  BY <1>1, <1>3 DEF AllWindows

LEMMA LearnIsTick ==
    ASSUME Inv, NEW source \in {"outcomes", "feedback"}, Learn(source), cached' # cached
    PROVE  WeightsNext
<1> DEFINE acc == Accuracy(RowsOf(source))
<1>1. cached' = Reweighted(acc)
  BY DEF Learn
<1> HIDE DEF acc
<1>2. DOMAIN acc # {} /\ Enabled /\ cached' = Adjusted(Current, acc)
  BY <1>1 DEF Reweighted
<1>3. acc \in AllWindows
  BY <1>2, RowsFinite, AccuracyIsWindow DEF acc
<1>4. Tick(acc)
  BY <1>2 DEF Tick
<1>5. QED
  BY FeedbackAssumption, <1>3, <1>4 DEF WeightsNext

LEMMA StepFollows == Inv /\ [Next]_vars => [cached' # cached => WeightsNext]_cached
<1> SUFFICES ASSUME Inv, [Next]_vars, cached' # cached PROVE WeightsNext
  OBVIOUS
<1>1. CASE \E source \in {"outcomes", "feedback"} : Learn(source)
  BY <1>1, LearnIsTick
<1>2. CASE RollbackWeights
  BY <1>2 DEF RollbackWeights, WeightsNext, Reset
<1>3. CASE \/ \E p \in Preds :
               \/ \E text \in Forecasts, calls \in Votes : Predict(p, text, calls)
               \/ \E text \in Actuals : Snapshot(p, text) \/ RecordOutcome(p, text)
               \/ \E verdict \in {"approve", "reject"} : RecordFeedback(p, verdict, None)
               \/ \E text \in Actuals \cup {None} : RecordFeedback(p, "correct", text)
           \/ UNCHANGED vars
  <2>1. cached' = cached
    BY <1>3 DEF Predict, Snapshot, RecordOutcome, RecordFeedback, vars
  <2>2. QED
    BY <2>1
<1>4. QED
  BY <1>1, <1>2, <1>3 DEF Next

\* The weights of this loop change as module Weights lets them, by the tick of a
\* window of accuracies or a reset (_apply_accuracy_weighting, rollback_weights).
THEOREM FollowsWeights == Spec => WeightsFollow
<1>1. Inv /\ [Next]_vars => [cached' # cached => WeightsNext]_cached
  BY StepFollows
<1>2. QED
  BY <1>1, Invariant, PTL DEF Spec, WeightsFollow
-----------------------------------------------------------------------------
(* What a tick does to a vector of weights.                                *)

LEMMA Products ==
    ASSUME NEW j \in Nat \ {0}, NEW k \in Nat \ {0}
    PROVE  j * k \in Nat \ {0}
OBVIOUS

LEMMA Division ==
    ASSUME NEW x \in Nat, NEW d \in Nat \ {0}
    PROVE  x \div d \in Nat /\ d * (x \div d) <= x /\ x < d * (x \div d) + d
<1> DEFINE q == x \div d
<1>1. q \in Int /\ d * q <= x /\ x < d * q + d
  OBVIOUS
<1> HIDE DEF q
<1>2. 0 <= q
  <2>1. SUFFICES ASSUME q + 1 <= 0 PROVE FALSE
    BY <1>1
  <2>2. d * (q + 1) <= 0 /\ d * (q + 1) = d * q + d
    BY <1>1, <2>1
  <2>3. QED
    BY <1>1, <2>2
<1>3. QED
  BY <1>1, <1>2 DEF q

\* The greater a number, the greater its quotient.
LEMMA DivisionOrder ==
    ASSUME NEW x \in Nat, NEW y \in Nat, NEW d \in Nat \ {0}, x <= y
    PROVE  x \div d <= y \div d
<1> DEFINE p == x \div d
           q == y \div d
<1>1. p \in Nat /\ d * p <= x
  BY Division
<1>2. q \in Nat /\ y < d * q + d
  BY Division
<1> HIDE DEF p, q
<1>3. SUFFICES ASSUME q + 1 <= p PROVE FALSE
  BY <1>1, <1>2 DEF p, q
<1>4. d * (q + 1) <= d * p /\ d * (q + 1) = d * q + d
  BY <1>1, <1>2, <1>3
<1>5. QED
  BY <1>1, <1>2, <1>4

\* Share(v, t) is Scale * v / t, within one half.
LEMMA ShareFacts ==
    ASSUME NEW v \in Nat, NEW t \in Nat \ {0}
    PROVE  LET s == Share(v, t) IN
           /\ s \in Nat
           /\ (2 * t) * s <= (2 * Scale) * v + t
           /\ (2 * Scale) * v + t < (2 * t) * s + 2 * t
<1> DEFINE x == (2 * Scale) * v + t
           d == 2 * t
<1>1. x \in Nat /\ d \in Nat \ {0}
  BY WeightsAssumption
<1>2. Share(v, t) = x \div d
  BY DEF Share
<1> HIDE DEF x, d
<1>3. x \div d \in Nat /\ d * (x \div d) <= x /\ x < d * (x \div d) + d
  BY <1>1, Division
<1>4. QED
  BY <1>2, <1>3 DEF x, d

LEMMA ShareOrder ==
    ASSUME NEW u \in Nat, NEW v \in Nat, NEW t \in Nat \ {0}, u <= v
    PROVE  Share(u, t) <= Share(v, t)
<1> DEFINE x == (2 * Scale) * u + t
           y == (2 * Scale) * v + t
<1>1. x \in Nat /\ y \in Nat /\ 2 * t \in Nat \ {0}
  BY WeightsAssumption
<1>2. (2 * Scale) * u <= (2 * Scale) * v /\ (2 * Scale) * u \in Nat /\ (2 * Scale) * v \in Nat
  BY WeightsAssumption
<1>3. x <= y
  BY <1>2
<1>4. Share(u, t) = x \div (2 * t) /\ Share(v, t) = y \div (2 * t)
  BY DEF Share
<1> HIDE DEF x, y
<1>5. QED
  BY <1>1, <1>3, <1>4, DivisionOrder

LEMMA Limits ==
    ASSUME NEW one \in Nat
    PROVE  /\ MinWeight * one \in Nat /\ MaxWeight * one \in Nat
           /\ MinWeight * one <= MaxWeight * one
BY WeightsAssumption

LEMMA ClampFacts ==
    ASSUME NEW v \in Int, NEW one \in Nat
    PROVE  /\ Clamp(v, one) \in Nat
           /\ MinWeight * one <= Clamp(v, one) /\ Clamp(v, one) <= MaxWeight * one
<1> DEFINE lo == MinWeight * one
           hi == MaxWeight * one
<1>1. lo \in Nat /\ hi \in Nat /\ lo <= hi
  BY Limits
<1>2. Clamp(v, one) = CASE v < lo -> lo [] v > hi -> hi [] OTHER -> v
  BY DEF Clamp
<1> HIDE DEF lo, hi
<1>3. QED
  BY <1>1, <1>2 DEF lo, hi

\* What is at most 0 is clamped to the least there is.
LEMMA ClampOrder ==
    ASSUME NEW u \in Int, NEW v \in Int, NEW one \in Nat, u <= v \/ u <= 0
    PROVE  Clamp(u, one) <= Clamp(v, one)
<1> DEFINE lo == MinWeight * one
           hi == MaxWeight * one
<1>1. lo \in Nat /\ hi \in Nat /\ lo <= hi
  BY Limits
<1>2. /\ Clamp(u, one) = CASE u < lo -> lo [] u > hi -> hi [] OTHER -> u
      /\ Clamp(v, one) = CASE v < lo -> lo [] v > hi -> hi [] OTHER -> v
  BY DEF Clamp
<1> HIDE DEF lo, hi
<1>3. QED
  BY <1>1, <1>2

LEMMA WindowFacts ==
    ASSUME NEW acc \in AllWindows
    PROVE  /\ DOMAIN acc \subseteq Agents /\ acc \in [DOMAIN acc -> Nat]
           /\ Cardinality(DOMAIN acc) \in Nat \ {0}
           /\ SumFunction(acc) \in Int
           /\ Whole(acc) \in Nat \ {0}
           /\ \A a \in Agents : Factor(acc, a) \in Int
<1>1. PICK S \in (SUBSET Agents) \ {{}} : acc \in [S -> 0..AccScale]
  BY DEF AllWindows
<1>2. DOMAIN acc = S /\ acc \in [S -> Nat] /\ acc \in [S -> Int] /\ IsFiniteSet(S)
  BY <1>1, FS_Subset, WeightsAssumption
<1>3. Cardinality(S) \in Nat \ {0}
  BY <1>1, <1>2, FS_CardinalityType, FS_EmptySet
<1>4. SumFunction(acc) \in Int
  BY <1>2, SumType
<1>5. Whole(acc) \in Nat \ {0}
  <2>1. Whole(acc) = (RateDen * AccScale) * Cardinality(S)
    BY <1>2 DEF Whole
  <2>2. RateDen * AccScale \in Nat \ {0}
    BY WeightsAssumption
  <2>3. QED
    BY <1>3, <2>1, <2>2, Products
<1>6. ASSUME NEW a \in Agents
      PROVE  Factor(acc, a) \in Int
  <2>1. CASE a \in S
    <3>1. Factor(acc, a) =
              Whole(acc) + RateNum * (Cardinality(S) * acc[a] - SumFunction(acc))
      BY <1>2, <2>1 DEF Factor
    <3>2. Cardinality(S) * acc[a] \in Int
      BY <1>2, <1>3, <2>1
    <3>3. QED
      BY <1>4, <1>5, <3>1, <3>2, WeightsAssumption
  <2>2. CASE a \notin S
    BY <1>2, <1>5, <2>2 DEF Factor
  <2>3. QED
    BY <2>1, <2>2
<1>7. QED
  BY <1>1, <1>2, <1>3, <1>4, <1>5, <1>6

\* The more accurate an agent, the greater its factor.
LEMMA FactorOrder ==
    ASSUME NEW acc \in AllWindows, NEW a \in DOMAIN acc, NEW b \in DOMAIN acc, acc[b] <= acc[a]
    PROVE  Factor(acc, b) <= Factor(acc, a)
<1> DEFINE n == Cardinality(DOMAIN acc)
           sum == SumFunction(acc)
           one == Whole(acc)
<1>1. n \in Nat \ {0} /\ sum \in Int /\ one \in Nat /\ acc[a] \in Nat /\ acc[b] \in Nat
  BY WindowFacts
<1>2. /\ Factor(acc, a) = one + RateNum * (n * acc[a] - sum)
      /\ Factor(acc, b) = one + RateNum * (n * acc[b] - sum)
  BY DEF Factor
<1> HIDE DEF n, sum, one
<1>3. n * acc[b] <= n * acc[a] /\ n * acc[a] \in Int /\ n * acc[b] \in Int
  BY <1>1
<1> DEFINE x == n * acc[b] - sum
           y == n * acc[a] - sum
<1>4. x \in Int /\ y \in Int /\ x <= y
  BY <1>1, <1>3
<1> HIDE DEF x, y
<1>5. RateNum * x <= RateNum * y /\ RateNum * x \in Int /\ RateNum * y \in Int
  BY <1>4, WeightsAssumption
<1>6. QED
  BY <1>1, <1>2, <1>5 DEF x, y

\* Weights before they are normalised, one standing for 1.0: within the limits.
Clamped(v, one) ==
    /\ one \in Nat \ {0}
    /\ v \in [Agents -> Nat]
    /\ \A a \in Agents : MinWeight * one <= v[a] /\ v[a] <= MaxWeight * one

ClampedBy(w, acc) == [a \in Agents |-> Clamp(w[a] * Factor(acc, a), Whole(acc))]

LEMMA TickIsClamped ==
    ASSUME NEW w \in [Agents -> Nat], NEW acc \in AllWindows
    PROVE  /\ Clamped(ClampedBy(w, acc), Whole(acc))
           /\ Adjusted(w, acc) = Normalise(ClampedBy(w, acc))
<1>1. Whole(acc) \in Nat \ {0}
  BY WindowFacts
<1>2. ASSUME NEW a \in Agents
      PROVE  w[a] * Factor(acc, a) \in Int
  <2>1. w[a] \in Nat /\ Factor(acc, a) \in Int
    BY WindowFacts
  <2>2. QED
    BY <2>1
<1>3. \A a \in Agents :
          /\ ClampedBy(w, acc)[a] \in Nat
          /\ MinWeight * Whole(acc) <= ClampedBy(w, acc)[a]
          /\ ClampedBy(w, acc)[a] <= MaxWeight * Whole(acc)
  BY <1>1, <1>2, ClampFacts DEF ClampedBy
<1>4. ClampedBy(w, acc) \in [Agents -> Nat]
  BY <1>3 DEF ClampedBy
<1>5. QED
  BY <1>1, <1>3, <1>4 DEF Clamped, ClampedBy, Adjusted

LEMMA NormaliseFacts ==
    ASSUME NEW v \in [Agents -> Nat]
    PROVE  /\ SumFunction(v) \in Nat
           /\ Normalise(v) \in [Agents -> Nat]
           /\ SumFunction(v) # 0 =>
                  \A a \in Agents : Normalise(v)[a] = Share(v[a], SumFunction(v))
           /\ SumFunction(v) = 0 =>
                  \A a, b \in Agents : Normalise(v)[a] = Normalise(v)[b]
<1> DEFINE t == SumFunction(v)
           n == Cardinality(Agents)
<1>1. n \in Nat \ {0}
  BY WeightsAssumption, FS_CardinalityType, FS_EmptySet
<1>2. t \in Nat
  <2> DEFINE z == 0
             o == 1
  <2>1. v \in [Agents -> Int] /\ \A a \in Agents : 0 <= v[a]
    OBVIOUS
  <2>2. z \in Int /\ o \in Int /\ \A a \in Agents : z * v[a] <= o * v[a] + z
    BY <2>1
  <2> HIDE DEF z, o
  <2>3. z * t <= o * t + z * n
    BY <2>1, <2>2, SumsCompared, WeightsAssumption
  <2>4. t \in Int
    BY <2>1, SumType, WeightsAssumption
  <2>5. QED
    BY <1>1, <2>3, <2>4 DEF z, o
<1>3. Normalise(v) = [a \in Agents |-> IF t = 0 THEN Scale \div n ELSE Share(v[a], t)]
  BY DEF Normalise
<1> HIDE DEF t, n
<1>4. Scale \div n \in Nat
  BY <1>1, Division, WeightsAssumption
<1>5. t # 0 => \A a \in Agents : Share(v[a], t) \in Nat
  BY <1>2, ShareFacts
<1>6. QED
  BY <1>2, <1>3, <1>4, <1>5 DEF t
-----------------------------------------------------------------------------
(* What is true of the vector after any number of ticks.                   *)

WeightsInv == cached # None => \E v, one : Clamped(v, one) /\ cached = Normalise(v)

LEMMA CurrentType ==
    ASSUME WeightsInv
    PROVE  Current \in [Agents -> Nat]
<1>1. CASE cached = None
  BY <1>1, WeightsAssumption DEF Current
<1>2. CASE cached # None
  <2>1. PICK v, one : Clamped(v, one) /\ cached = Normalise(v)
    BY <1>2 DEF WeightsInv
  <2>2. v \in [Agents -> Nat]
    BY <2>1 DEF Clamped
  <2>3. QED
    BY <1>2, <2>1, <2>2, NormaliseFacts DEF Current
<1>3. QED
  BY <1>1, <1>2

LEMMA WeightsStep == WeightsInv /\ [WeightsNext]_cached => WeightsInv'
<1> SUFFICES ASSUME WeightsInv, [WeightsNext]_cached PROVE WeightsInv'
  OBVIOUS
<1>1. ASSUME NEW acc \in AllWindows, Tick(acc)
      PROVE  WeightsInv'
  <2>1. cached' = Adjusted(Current, acc)
    BY <1>1 DEF Tick
  <2>2. /\ Clamped(ClampedBy(Current, acc), Whole(acc))
        /\ cached' = Normalise(ClampedBy(Current, acc))
    BY <2>1, CurrentType, TickIsClamped
  <2>3. QED
    BY <2>2 DEF WeightsInv
<1>2. CASE Reset
  BY <1>2 DEF Reset, WeightsInv
<1>3. CASE cached' = cached
  BY <1>3 DEF WeightsInv
<1>4. QED
  BY FeedbackAssumption, <1>1, <1>2, <1>3 DEF WeightsNext

LEMMA WeightsInvariant == WeightsSpec => []WeightsInv
<1>1. WeightsInit => WeightsInv
  BY DEF WeightsInit, WeightsInv
<1>2. QED
  BY <1>1, WeightsStep, PTL DEF WeightsSpec

LEMMA Merit ==
    ASSUME NEW w \in [Agents -> Nat], NEW acc \in AllWindows,
           NEW a \in DOMAIN acc, NEW b \in DOMAIN acc, acc[a] >= acc[b], w[a] >= w[b]
    PROVE  Adjusted(w, acc)[a] >= Adjusted(w, acc)[b]
<1> DEFINE v == ClampedBy(w, acc)
           one == Whole(acc)
           p == w[b] * Factor(acc, b)
           q == w[a] * Factor(acc, a)
<1>1. a \in Agents /\ b \in Agents /\ one \in Nat /\ acc[a] \in Nat /\ acc[b] \in Nat
  BY WindowFacts
<1>2. p \in Int /\ q \in Int /\ (p <= q \/ p <= 0)
  <2> DEFINE f == Factor(acc, b)
             g == Factor(acc, a)
  <2>1. f \in Int /\ g \in Int /\ f <= g
    <3>1. acc[b] <= acc[a]
      BY <1>1
    <3>2. QED
      BY <1>1, <3>1, WindowFacts, FactorOrder
  <2>2. w[a] \in Nat /\ w[b] \in Nat /\ w[b] <= w[a]
    BY <1>1
  <2> HIDE DEF f, g
  <2>3. CASE f <= 0
    <3>1. w[b] * f <= 0 /\ w[b] * f \in Int /\ w[a] * g \in Int
      BY <2>1, <2>2, <2>3
    <3>2. QED
      BY <3>1 DEF f, g
  <2>4. CASE f > 0
    <3>1. w[b] * f <= w[a] * f /\ w[a] * f <= w[a] * g
      BY <2>1, <2>2, <2>4
    <3>2. w[b] * f \in Int /\ w[a] * f \in Int /\ w[a] * g \in Int
      BY <2>1, <2>2
    <3>3. w[b] * f <= w[a] * g
      BY <3>1, <3>2
    <3>4. QED
      BY <3>2, <3>3 DEF f, g
  <2>5. QED
    BY <2>1, <2>3, <2>4
<1>3. v[a] = Clamp(q, one) /\ v[b] = Clamp(p, one)
  BY <1>1 DEF ClampedBy
<1> HIDE DEF p, q
<1>4. v[b] <= v[a]
  BY <1>1, <1>2, <1>3, ClampOrder
<1>5. v \in [Agents -> Nat] /\ Adjusted(w, acc) = Normalise(v)
  BY TickIsClamped DEF Clamped
<1> HIDE DEF v
<1> DEFINE next == Normalise(v)
           t == SumFunction(v)
<1>6. t \in Nat /\ next[a] \in Nat /\ next[b] \in Nat
  BY <1>1, <1>5, NormaliseFacts
<1>7. CASE t = 0
  BY <1>1, <1>5, <1>6, <1>7, NormaliseFacts
<1>8. CASE t # 0
  <2>1. next[a] = Share(v[a], t) /\ next[b] = Share(v[b], t)
    BY <1>1, <1>5, <1>8, NormaliseFacts
  <2>2. v[a] \in Nat /\ v[b] \in Nat
    BY <1>1, <1>5
  <2>3. Share(v[b], t) <= Share(v[a], t)
    BY <1>4, <1>6, <1>8, <2>2, ShareOrder
  <2>4. QED
    BY <1>5, <1>6, <2>1, <2>3
<1>9. QED
  BY <1>7, <1>8

\* An agent that is no less accurate and has no less weight keeps no less weight,
\* whichever accuracy window comes next and whatever the learning rate and the
\* limits are (adjust_from_accuracy).
THEOREM MeritIsRespected == WeightsSpec => []MeritRespected
<1>1. WeightsInv => MeritRespected
  <2> SUFFICES ASSUME WeightsInv, NEW acc \in AllWindows, NEW a \in DOMAIN acc,
                      NEW b \in DOMAIN acc, acc[a] >= acc[b], Current[a] >= Current[b]
               PROVE  Adjusted(Current, acc)[a] >= Adjusted(Current, acc)[b]
    BY FeedbackAssumption DEF MeritRespected
  <2>1. QED
    BY CurrentType, Merit
<1>2. QED
  BY <1>1, WeightsInvariant, PTL

\* The vector of this loop is one that Weights publishes: each lesson is the tick of
\* a window of accuracies, each rollback a reset (_apply_accuracy_weighting,
\* rollback_weights).
THEOREM ImplementsWeights == Spec => WeightsSpec
<1>1. Init => WeightsInit
  BY DEF Init, WeightsInit
<1>2. Inv /\ [Next]_vars => [WeightsNext]_cached
  BY StepFollows
<1>3. QED
  BY <1>1, <1>2, Invariant, PTL DEF Spec, WeightsSpec
-----------------------------------------------------------------------------
(* How far a share can go.                                                 *)

LEMMA Cancel ==
    ASSUME NEW t \in Nat \ {0}, NEW x \in Int, NEW y \in Int, t * x <= t * y
    PROVE  x <= y
<1>1. SUFFICES ASSUME y + 1 <= x PROVE FALSE
  OBVIOUS
<1>2. t * (y + 1) <= t * x /\ t * (y + 1) = t * y + t
  BY <1>1
<1>3. t * x \in Int /\ t * y \in Int
  OBVIOUS
<1>4. QED
  BY <1>2, <1>3

\* The share r of v is not less than that of the least among the greatest.
LEMMA LeastShare ==
    ASSUME NEW m \in Nat, NEW M \in Nat, NEW S \in Nat, NEW one \in Nat \ {0}, NEW o \in Nat,
           NEW v \in Nat, NEW t \in Nat, NEW r \in Nat,
           m * one <= v, t <= v + (M * one) * o, S * v <= t * r
    PROVE  S * m <= r * (m + o * M)
<1> DEFINE b == (M * o) * r
<1>1. b \in Nat /\ one * b \in Nat /\ r * (m + o * M) = r * m + b
  OBVIOUS
<1>2. t * r <= v * r + one * b
  <2>1. t * r <= (v + (M * one) * o) * r
    OBVIOUS
  <2>2. (v + (M * one) * o) * r = v * r + one * b
    OBVIOUS
  <2>3. QED
    BY <2>1, <2>2
<1> HIDE DEF b
<1>3. CASE S <= r
  <2>1. S * m <= r * m /\ S * m \in Nat /\ r * m \in Nat
    BY <1>3
  <2>2. QED
    BY <1>1, <2>1
<1>4. CASE r < S
  <2> DEFINE d == S - r
  <2>1. d \in Nat /\ d * v = S * v - v * r /\ S * m = d * m + r * m
    BY <1>4
  <2>2. S * v \in Nat /\ v * r \in Nat /\ t * r \in Nat
    OBVIOUS
  <2>3. d * v <= one * b
    BY <1>1, <1>2, <2>1, <2>2
  <2> HIDE DEF d
  <2>4. d * (m * one) <= d * v
    BY <2>1
  <2>5. d * (m * one) = one * (d * m) /\ d * m \in Nat /\ one * (d * m) \in Nat /\ d * v \in Nat
    BY <2>1
  <2>6. one * (d * m) <= one * b
    BY <1>1, <2>3, <2>4, <2>5
  <2>7. d * m <= b
    BY <1>1, <2>5, <2>6, Cancel
  <2>8. r * m \in Nat
    OBVIOUS
  <2>9. QED
    BY <1>1, <2>1, <2>5, <2>7, <2>8
<1>5. QED
  BY <1>3, <1>4

\* Nor is it more than that of the greatest among the least.
LEMMA GreatestShare ==
    ASSUME NEW m \in Nat \ {0}, NEW M \in Nat, NEW S \in Nat \ {0}, NEW one \in Nat \ {0},
           NEW o \in Nat, NEW v \in Nat, NEW t \in Nat, NEW r \in Int,
           m * one <= v, v <= M * one, v + (m * one) * o <= t, t * r <= S * v
    PROVE  r * (M + o * m) <= S * M
<1>1. CASE r <= 0
  <2>1. M + o * m \in Nat /\ S * M \in Nat
    OBVIOUS
  <2>2. \A k \in Nat : r * k <= 0 /\ r * k \in Int
    BY <1>1
  <2>3. r * (M + o * m) <= 0 /\ r * (M + o * m) \in Int
    BY <2>1, <2>2
  <2>4. QED
    BY <2>1, <2>3
<1>2. CASE r > 0
  <2> DEFINE b == (m * o) * r
             d == S - r
  <2>1. r \in Nat
    BY <1>2
  <2>2. b \in Nat /\ one * b \in Nat /\ r * (M + o * m) = r * M + b
    BY <2>1
  <2>3. v * r + one * b <= S * v
    <3>1. (v + (m * one) * o) * r <= t * r
      BY <2>1
    <3>2. (v + (m * one) * o) * r = v * r + one * b
      BY <2>1
    <3>3. v * r \in Nat /\ t * r \in Nat /\ S * v \in Nat
      BY <2>1
    <3> HIDE DEF b
    <3>4. QED
      BY <2>2, <3>1, <3>2, <3>3
  <2> HIDE DEF b
  <2>4. d \in Int /\ d * v = S * v - v * r /\ S * M = d * M + r * M
    BY <2>1
  <2>5. S * v \in Nat /\ v * r \in Nat /\ d * v \in Int
    BY <2>1, <2>4
  <2>6. one * b <= d * v
    BY <2>2, <2>3, <2>4, <2>5
  <2> HIDE DEF d
  <2>7. m * one \in Nat \ {0} /\ v \in Nat \ {0}
    <3>1. m * one \in Nat \ {0}
      BY Products
    <3>2. QED
      BY <3>1
  <2>8. d >= 0
    <3>1. SUFFICES ASSUME d <= -1 PROVE FALSE
      BY <2>4
    <3>2. d * v <= (-1) * v
      BY <2>4, <3>1
    <3>3. QED
      BY <2>2, <2>5, <2>6, <2>7, <3>2
  <2>9. d \in Nat
    BY <2>4, <2>8
  <2>10. d * v <= d * (M * one) /\ d * (M * one) = one * (d * M) /\ d * M \in Nat
    BY <2>9
  <2>11. one * b <= one * (d * M) /\ one * (d * M) \in Nat
    BY <2>2, <2>5, <2>6, <2>10
  <2>12. b <= d * M
    BY <2>2, <2>10, <2>11, Cancel
  <2>13. r * M \in Nat
    BY <2>1
  <2>14. QED
    BY <2>2, <2>4, <2>10, <2>12, <2>13
<1>3. QED
  BY <1>1, <1>2

\* The rounding of the shares, summed up.
LEMMA Gap ==
    ASSUME NEW v \in [Agents -> Nat], SumFunction(v) # 0
    PROVE  2 * (SumFunction(Normalise(v)) - Scale) \in
               (-Cardinality(Agents))..Cardinality(Agents)
<1> DEFINE next == Normalise(v)
           t == SumFunction(v)
           n == Cardinality(Agents)
           sum == SumFunction(next)
           p == 2 * t
           q == 2 * Scale
<1>1. n \in Nat /\ Scale \in Nat
  BY WeightsAssumption, FS_CardinalityType
<1>2. t \in Nat \ {0} /\ p \in Nat \ {0} /\ q \in Nat
  BY <1>1, NormaliseFacts
<1>3. v \in [Agents -> Int] /\ next \in [Agents -> Int]
  BY NormaliseFacts
<1>4. sum \in Int
  BY <1>3, SumType, WeightsAssumption
<1>5. \A a \in Agents : p * next[a] <= q * v[a] + t /\ q * v[a] <= p * next[a] + t
  <2>1. SUFFICES ASSUME NEW a \in Agents
                 PROVE  p * next[a] <= q * v[a] + t /\ q * v[a] <= p * next[a] + t
    OBVIOUS
  <2>2. next[a] = Share(v[a], t) /\ v[a] \in Nat
    BY NormaliseFacts
  <2> HIDE DEF next, t
  <2>3. /\ next[a] \in Nat
        /\ p * next[a] <= q * v[a] + t
        /\ q * v[a] + t < p * next[a] + 2 * t
    BY <1>2, <2>2, ShareFacts
  <2>4. p * next[a] \in Int /\ q * v[a] \in Int
    BY <1>2, <2>2, <2>3
  <2> HIDE DEF p, q
  <2>5. QED
    BY <1>2, <2>3, <2>4
<1>6. p * sum <= q * t + t * n /\ q * t <= p * sum + t * n
  <2>1. IsFiniteSet(Agents) /\ t = SumFunction(v) /\ sum = SumFunction(next)
    BY WeightsAssumption
  <2>2. p \in Int /\ q \in Int /\ t \in Int
    BY <1>2
  <2> HIDE DEF next, p, q, t, sum
  <2>3. p * SumFunction(next) <= q * SumFunction(v) + t * Cardinality(Agents)
    BY <1>3, <1>5, <2>1, <2>2, SumsCompared
  <2>4. q * SumFunction(v) <= p * SumFunction(next) + t * Cardinality(Agents)
    BY <1>3, <1>5, <2>1, <2>2, SumsCompared
  <2>5. QED
    BY <2>1, <2>3, <2>4
<1> HIDE DEF next, t, n, sum
<1>7. t * (2 * sum) <= t * (2 * Scale + n) /\ t * (2 * Scale - n) <= t * (2 * sum)
  <2>1. /\ t * (2 * sum) = p * sum
        /\ t * (2 * Scale + n) = q * t + t * n
        /\ t * (2 * Scale - n) = q * t - t * n
    BY <1>1, <1>2, <1>4
  <2>2. p * sum \in Int /\ q * t \in Int /\ t * n \in Int
    BY <1>1, <1>2, <1>4
  <2> HIDE DEF p, q
  <2>3. QED
    BY <1>6, <2>1, <2>2
<1>8. 2 * sum <= 2 * Scale + n /\ 2 * Scale - n <= 2 * sum
  BY <1>1, <1>2, <1>4, <1>7, Cancel
<1>9. QED
  BY <1>1, <1>4, <1>8 DEF next, n, sum

\* What one weight leaves to the others, and they to it.
LEMMA Others ==
    ASSUME NEW v, NEW one, Clamped(v, one), NEW a \in Agents
    PROVE  LET o == Cardinality(Agents) - 1 IN
           /\ o \in Nat
           /\ v[a] + (MinWeight * one) * o <= SumFunction(v)
           /\ SumFunction(v) <= v[a] + (MaxWeight * one) * o
<1> DEFINE n == Cardinality(Agents)
           lo == MinWeight * one
           hi == MaxWeight * one
<1>1. n \in Nat \ {0}
  BY WeightsAssumption, FS_CardinalityType, FS_EmptySet
<1>2. /\ v \in [Agents -> Int] /\ v[a] \in Int /\ lo \in Int /\ hi \in Int /\ lo <= hi
      /\ \A b \in Agents : lo <= v[b] /\ v[b] <= hi
  BY Limits DEF Clamped
<1> HIDE DEF lo, hi
<1> DEFINE least == [v EXCEPT ![a] = lo]
           most == [v EXCEPT ![a] = hi]
<1>3. /\ least \in [Agents -> Int] /\ \A b \in Agents : lo <= least[b] /\ least[b] <= hi
      /\ most \in [Agents -> Int] /\ \A b \in Agents : lo <= most[b] /\ most[b] <= hi
  BY <1>2
<1>4. /\ SumFunction(v) - SumFunction(least) = v[a] - lo
      /\ SumFunction(v) - SumFunction(most) = v[a] - hi
  <2>1. IsFiniteSet(Agents)
    BY WeightsAssumption
  <2>2. /\ least[a] = lo /\ most[a] = hi
        /\ \A b \in Agents \ {a} : least[b] = v[b] /\ most[b] = v[b]
    BY <1>2
  <2> HIDE DEF least, most
  <2>3. SumFunction(v) - SumFunction(least) = v[a] - least[a]
    BY <1>2, <1>3, <2>1, <2>2, SumChanged
  <2>4. SumFunction(v) - SumFunction(most) = v[a] - most[a]
    BY <1>2, <1>3, <2>1, <2>2, SumChanged
  <2>5. QED
    BY <2>2, <2>3, <2>4
<1> HIDE DEF least, most
<1>5. lo * n <= SumFunction(least) /\ SumFunction(most) <= hi * n
  BY <1>2, <1>3, SumBounded, WeightsAssumption
<1>6. /\ SumFunction(v) \in Int
      /\ SumFunction(least) \in Int /\ SumFunction(most) \in Int
  BY <1>2, <1>3, SumType, WeightsAssumption
<1> HIDE DEF n
<1>7. lo * (n - 1) = lo * n - lo /\ hi * (n - 1) = hi * n - hi
      /\ lo * n \in Int /\ hi * n \in Int
  BY <1>1, <1>2
<1>8. /\ v[a] + lo * (n - 1) <= SumFunction(v)
      /\ SumFunction(v) <= v[a] + hi * (n - 1)
  BY <1>2, <1>4, <1>5, <1>6, <1>7
<1>9. QED
  BY <1>1, <1>8 DEF n, lo, hi

LEMMA Bounds ==
    ASSUME NEW v, NEW one, Clamped(v, one), MinWeight > 0, NEW a \in Agents
    PROVE  LET next == Normalise(v)
               o == Cardinality(Agents) - 1
           IN  /\ SumFunction(v) # 0
               /\ (next[a] + 1) * (MinWeight + o * MaxWeight) >= Scale * MinWeight
               /\ (next[a] - 1) * (MaxWeight + o * MinWeight) <= Scale * MaxWeight
<1> DEFINE next == Normalise(v)
           o == Cardinality(Agents) - 1
           t == SumFunction(v)
           lo == MinWeight * one
           hi == MaxWeight * one
<1>1. /\ one \in Nat \ {0} /\ v \in [Agents -> Nat] /\ v[a] \in Nat
      /\ MinWeight * one <= v[a] /\ v[a] <= MaxWeight * one
  BY DEF Clamped
<1>2. /\ o \in Nat
      /\ v[a] + (MinWeight * one) * o <= t
      /\ t <= v[a] + (MaxWeight * one) * o
  BY Others
<1>3. t \in Nat
  BY <1>1, NormaliseFacts
<1> HIDE DEF next, o, t
<1>4. MinWeight \in Nat \ {0} /\ MaxWeight \in Nat /\ Scale \in Nat \ {0}
  BY WeightsAssumption
<1>5. t # 0
  <2>1. MinWeight * one \in Nat \ {0}
    BY <1>1, <1>4, Products
  <2>2. (MinWeight * one) * o \in Nat
    BY <1>2, <2>1
  <2>3. QED
    BY <1>1, <1>2, <2>1, <2>2
<1> DEFINE s == next[a]
<1>6. /\ s \in Nat
      /\ (2 * t) * s <= (2 * Scale) * v[a] + t
      /\ (2 * Scale) * v[a] + t < (2 * t) * s + 2 * t
  <2>1. s = Share(v[a], t)
    BY <1>1, <1>5, NormaliseFacts DEF next, t
  <2>2. QED
    BY <1>1, <1>3, <1>5, <2>1, ShareFacts
<1> HIDE DEF s
<1>7. Scale * v[a] <= t * (s + 1) /\ t * (s - 1) <= Scale * v[a]
  <2> DEFINE x == t * s
             y == Scale * v[a]
  <2>1. /\ x \in Nat /\ y \in Nat
        /\ (2 * t) * s = 2 * x /\ (2 * Scale) * v[a] = 2 * y
        /\ t * (s + 1) = x + t /\ t * (s - 1) = x - t
    BY <1>1, <1>3, <1>4, <1>6
  <2> HIDE DEF x, y
  <2>2. y <= x + t /\ x - t <= y
    BY <1>3, <1>6, <2>1
  <2>3. QED
    BY <2>1, <2>2 DEF y
<1>8. Scale * MinWeight <= (s + 1) * (MinWeight + o * MaxWeight)
  <2>1. s + 1 \in Nat
    BY <1>6
  <2>2. QED
    BY <1>1, <1>2, <1>3, <1>4, <1>7, <2>1, LeastShare
<1>9. (s - 1) * (MaxWeight + o * MinWeight) <= Scale * MaxWeight
  <2>1. s - 1 \in Int
    BY <1>6
  <2>2. QED
    BY <1>1, <1>2, <1>3, <1>4, <1>7, <2>1, GreatestShare
<1>10. (s + 1) * (MinWeight + o * MaxWeight) \in Int /\ Scale * MinWeight \in Int
  <2>1. o * MaxWeight \in Nat
    BY <1>2, <1>4
  <2>2. MinWeight + o * MaxWeight \in Nat /\ s + 1 \in Nat
    BY <1>4, <1>6, <2>1
  <2>3. QED
    BY <1>4, <2>2
<1>11. QED
  BY <1>5, <1>8, <1>9, <1>10 DEF s, next, o, t

\* However long the ticks go on, the published weights add up to one within half a
\* unit of rounding per agent, and none leaves the shares the limits allow, provided
\* the least weight is not 0: nothing forbids that in the settings, whose default is
\* 0.02, and with it all the weights could vanish at once (adjust_from_accuracy,
\* normalise).
THEOREM SharesStayBounded == ASSUME MinWeight > 0 PROVE WeightsSpec => []SharesBounded
<1>1. WeightsInv => SharesBounded
  <2> SUFFICES ASSUME WeightsInv, cached # None
               PROVE  LET others == Cardinality(Agents) - 1
                          gap == 2 * (SumFunction(cached) - Scale)
                      IN  /\ gap \in (-Cardinality(Agents))..Cardinality(Agents)
                          /\ \A a \in Agents :
                                 /\ (cached[a] + 1) * (MinWeight + others * MaxWeight)
                                        >= Scale * MinWeight
                                 /\ (cached[a] - 1) * (MaxWeight + others * MinWeight)
                                        <= Scale * MaxWeight
    BY DEF SharesBounded
  <2>1. PICK v, one : Clamped(v, one) /\ cached = Normalise(v)
    BY DEF WeightsInv
  <2>2. v \in [Agents -> Nat]
    BY <2>1 DEF Clamped
  <2>3. SumFunction(v) # 0
    BY <2>1, Bounds, WeightsAssumption
  <2>4. QED
    BY <2>1, <2>2, <2>3, Gap, Bounds
<1>2. QED
  BY <1>1, WeightsInvariant, PTL
-----------------------------------------------------------------------------
(* How far a tick can go.                                                  *)

\* A square is no less than 0, and so is what is left of the quadratic.
LEMMA Squares ==
    ASSUME NEW x \in Int
    PROVE  x * x \in Nat
<1>1. CASE x >= 0
  BY <1>1
<1>2. CASE x < 0
  <2>1. x * x = (-x) * (-x) /\ -x \in Nat
    BY <1>2
  <2>2. QED
    BY <2>1
<1>3. QED
  BY <1>1, <1>2

\* w is a part of W and u at most half of d; the part grows by (d + u) / d, the rest
\* shrinks by (d - u) / d: the share gains at most two thirds of u / d.
LEMMA Convex ==
    ASSUME NEW w \in Int, NEW W \in Int, NEW d \in Nat, NEW u \in Nat, 2 * u <= d
    PROVE  (3 * d * W) * ((d + u) * w) <= (W * (d - u) + 2 * u * w) * (3 * d * w + 2 * u * W)
<1> DEFINE A == W * W - 3 * (w * W) + 3 * (w * w)
           B == W * W - 4 * (w * W) + 6 * (w * w)
<1>1. A \in Nat
  <2>1. (2 * W - 3 * w) * (2 * W - 3 * w) \in Nat /\ w * w \in Nat
    BY Squares
  <2>2. 4 * A = (2 * W - 3 * w) * (2 * W - 3 * w) + 3 * (w * w) /\ A \in Int
    OBVIOUS
  <2> HIDE DEF A
  <2>3. QED
    BY <2>1, <2>2
<1>2. B \in Nat
  <2>1. (W - 2 * w) * (W - 2 * w) \in Nat /\ w * w \in Nat
    BY Squares
  <2>2. B = (W - 2 * w) * (W - 2 * w) + 2 * (w * w) /\ B \in Int
    OBVIOUS
  <2> HIDE DEF B
  <2>3. QED
    BY <2>1, <2>2
<1>3. (W * (d - u) + 2 * u * w) * (3 * d * w + 2 * u * W) - (3 * d * W) * ((d + u) * w)
          = (2 * u) * ((d - 2 * u) * A + u * B)
  OBVIOUS
<1> HIDE DEF A, B
<1>4. (d - 2 * u) * A \in Nat /\ u * B \in Nat
  <2>1. d - 2 * u \in Nat
    OBVIOUS
  <2>2. QED
    BY <1>1, <1>2, <2>1
<1>5. (2 * u) * ((d - 2 * u) * A + u * B) \in Nat
  BY <1>4
<1> DEFINE L == (3 * d * W) * ((d + u) * w)
           R == (W * (d - u) + 2 * u * w) * (3 * d * w + 2 * u * W)
<1>6. L \in Int /\ R \in Int
  OBVIOUS
<1>7. R - L \in Nat
  BY <1>3, <1>5
<1> HIDE DEF L, R
<1>8. L <= R
  BY <1>6, <1>7
<1>9. QED
  BY <1>8 DEF L, R

LEMMA Order ==
    ASSUME NEW t \in Nat, NEW x \in Int, NEW y \in Int, x <= y
    PROVE  t * x <= t * y /\ x * t <= y * t
OBVIOUS

\* The part q of P that came of the part w of W, g times as big.
LEMMA ShareGain ==
    ASSUME NEW w \in Nat, NEW W \in Nat \ {0}, w <= W,
           NEW d \in Nat \ {0}, NEW u \in Nat, 2 * u <= d, NEW g \in Nat \ {0},
           NEW q \in Nat, NEW P \in Nat, q <= P,
           q <= ((d + u) * w) * g, ((d - u) * (W - w)) * g <= P - q
    PROVE  (3 * d * W) * q <= P * (3 * d * w + 2 * u * W)
<1> DEFINE A == (d + u) * w
           B == (d - u) * (W - w)
           E == W * (d - u) + 2 * u * w
           K == 3 * d * W
           L == 3 * d * w + 2 * u * W
<1>1. A \in Nat /\ B \in Nat /\ K \in Nat /\ L \in Nat
  <2>1. d - u \in Nat /\ W - w \in Nat
    OBVIOUS
  <2>2. QED
    BY <2>1
<1>2. E = A + B /\ E \in Nat \ {0}
  <2>1. W * (d - u) \in Nat \ {0} /\ 2 * u * w \in Nat
    <3>1. d - u \in Nat \ {0}
      OBVIOUS
    <3>2. QED
      BY <3>1
  <2>2. E = A + B
    OBVIOUS
  <2>3. QED
    BY <2>1, <2>2
<1>3. K * A <= E * L
  BY Convex
<1> HIDE DEF A, B, E, K, L
<1>4. q <= A * g /\ B * g <= P - q
  BY DEF A, B
<1>5. q * B <= A * (P - q)
  <2>1. q * B <= (A * g) * B
    BY <1>1, <1>4, Order
  <2>2. (A * g) * B = A * (B * g) /\ A * (B * g) \in Int /\ q * B \in Int /\ B * g \in Int
    BY <1>1
  <2>3. A * (B * g) <= A * (P - q)
    BY <1>1, <1>4, <2>2, Order
  <2>4. A * (P - q) \in Int
    BY <1>1
  <2>5. QED
    BY <2>1, <2>2, <2>3, <2>4
<1>6. q * E <= A * P
  <2>1. q * E = q * A + q * B /\ A * (P - q) = A * P - q * A
    BY <1>1, <1>2
  <2>2. q * A \in Int /\ q * B \in Int /\ A * P \in Int
    BY <1>1
  <2>3. QED
    BY <1>5, <2>1, <2>2
<1>7. E * (K * q) <= E * (P * L)
  <2>1. E * (K * q) = K * (q * E) /\ K * (A * P) = (K * A) * P /\ (E * L) * P = E * (P * L)
    BY <1>1, <1>2
  <2>2. q * E \in Int /\ A * P \in Int /\ K * A \in Int /\ E * L \in Int
    BY <1>1, <1>2
  <2>3. K * (q * E) <= K * (A * P) /\ (K * A) * P <= (E * L) * P
    BY <1>1, <1>3, <1>6, <2>2, Order
  <2>4. K * (q * E) \in Int /\ K * (A * P) \in Int /\ (E * L) * P \in Int
    BY <1>1, <2>2
  <2>5. QED
    BY <2>1, <2>3, <2>4
<1>8. K * q <= P * L
  BY <1>1, <1>2, <1>7, Cancel
<1>9. QED
  BY <1>8 DEF K, L

\* w had nearly s of W and got r of s for q of P, rounded.
LEMMA Gain ==
    ASSUME NEW w \in Nat, NEW W \in Nat \ {0}, w <= W,
           NEW d \in Nat \ {0}, NEW u \in Nat, NEW q \in Nat, NEW P \in Nat \ {0},
           (3 * d * W) * q <= P * (3 * d * w + 2 * u * W),
           NEW s \in Nat, NEW n \in Nat, 2 * (s - W) <= n, 3 * d * (n + 1) <= 2 * u * s,
           NEW r \in Nat, (2 * P) * r <= (2 * s) * q + P
    PROVE  d * (r - w) <= u * s
<1> DEFINE K == 3 * d * W
           L == 3 * d * w + 2 * u * W
           c == 2 * s
<1>1. K \in Nat /\ L \in Nat /\ c \in Nat
  OBVIOUS
<1> HIDE DEF K, L, c
<1>2. P * (2 * K * r) <= P * (c * L + K)
  <2>1. K * ((2 * P) * r) <= K * (c * q + P)
    <3>1. (2 * P) * r \in Int /\ c * q + P \in Int
      BY <1>1
    <3>2. (2 * P) * r <= c * q + P
      BY DEF c
    <3>3. QED
      BY <1>1, <3>1, <3>2, Order
  <2>2. c * (K * q) <= c * (P * L)
    <3>1. K * q \in Int /\ P * L \in Int
      BY <1>1
    <3>2. K * q <= P * L
      BY DEF K, L
    <3>3. QED
      BY <1>1, <3>1, <3>2, Order
  <2>3. /\ K * ((2 * P) * r) = P * (2 * K * r)
        /\ K * (c * q + P) = c * (K * q) + P * K
        /\ P * (c * L + K) = c * (P * L) + P * K
    BY <1>1
  <2>4. /\ P * (2 * K * r) \in Int /\ c * (K * q) \in Int
        /\ c * (P * L) \in Int /\ P * K \in Int
    BY <1>1
  <2>5. QED
    BY <2>1, <2>2, <2>3, <2>4
<1>3. 2 * K * r <= c * L + K
  <2>1. 2 * K * r \in Int /\ c * L + K \in Int
    BY <1>1
  <2>2. QED
    BY <1>2, <2>1, Cancel
<1>4. c * w <= 2 * (w * W) + n * W
  <2>1. w * (2 * (s - W)) <= w * n /\ n * w <= n * W
    BY Order
  <2>2. w * (2 * (s - W)) = c * w - 2 * (w * W)
    BY DEF c
  <2>3. c * w \in Int /\ w * W \in Int /\ w * n \in Int /\ n * W \in Int /\ n * w = w * n
    BY <1>1
  <2>4. QED
    BY <2>1, <2>2, <2>3
<1>5. (3 * d) * (c * w) <= (3 * d) * (2 * (w * W) + n * W)
  <2>1. 3 * d \in Nat /\ c * w \in Int /\ 2 * (w * W) + n * W \in Int
    BY <1>1
  <2>2. QED
    BY <1>4, <2>1, Order
<1>6. W * (6 * d * r) <= W * (6 * d * w + 4 * u * s + 3 * d * (n + 1))
  <2>1. /\ 2 * K * r = W * (6 * d * r)
        /\ c * L + K = (3 * d) * (c * w) + W * (4 * u * s) + W * (3 * d)
    BY DEF K, L, c
  <2>2. (3 * d) * (2 * (w * W) + n * W) = W * (6 * d * w) + W * (3 * d * n)
    OBVIOUS
  <2>3. W * (6 * d * w + 4 * u * s + 3 * d * (n + 1))
            = W * (6 * d * w) + W * (4 * u * s) + W * (3 * d * n) + W * (3 * d)
    OBVIOUS
  <2>4. /\ W * (6 * d * r) \in Int /\ (3 * d) * (c * w) \in Int /\ W * (4 * u * s) \in Int
        /\ W * (3 * d) \in Int /\ W * (6 * d * w) \in Int /\ W * (3 * d * n) \in Int
    BY <1>1
  <2>5. QED
    BY <1>3, <1>5, <2>1, <2>2, <2>3, <2>4
<1>7. 6 * d * r <= 6 * d * w + 4 * u * s + 3 * d * (n + 1)
  <2>1. 6 * d * r \in Int /\ 6 * d * w + 4 * u * s + 3 * d * (n + 1) \in Int
    OBVIOUS
  <2>2. QED
    BY <1>6, <2>1, Cancel
<1>8. 6 * d * r = 6 * (d * r) /\ 6 * d * w = 6 * (d * w) /\ 4 * u * s = 4 * (u * s)
      /\ 2 * u * s = 2 * (u * s) /\ d * (r - w) = d * r - d * w
  OBVIOUS
<1>9. d * r \in Int /\ d * w \in Int /\ u * s \in Int /\ 3 * d * (n + 1) \in Int
  OBVIOUS
<1>10. QED
  BY <1>7, <1>8, <1>9

\* The same of what it can lose: the rest gains no more.
LEMMA Loss ==
    ASSUME NEW w \in Nat, NEW W \in Nat \ {0}, w <= W,
           NEW d \in Nat \ {0}, NEW u \in Nat, NEW q \in Nat, NEW P \in Nat \ {0}, q <= P,
           (3 * d * W) * (P - q) <= P * (3 * d * (W - w) + 2 * u * W),
           NEW s \in Nat, NEW n \in Nat, 2 * (W - s) <= n, 3 * d * (n + 1) <= 2 * u * s,
           NEW r \in Nat, (2 * s) * q + P < (2 * P) * r + 2 * P
    PROVE  d * (w - r) <= u * s
<1> DEFINE K == 3 * d * W
           L == 3 * d * w - 2 * u * W
           c == 2 * s
<1>1. K \in Nat /\ L \in Int /\ c \in Nat
  OBVIOUS
<1>2. P * L <= K * q
  <2>1. K * (P - q) = K * P - K * q
    OBVIOUS
  <2>2. P * (3 * d * (W - w) + 2 * u * W) = K * P - P * L
    OBVIOUS
  <2>3. K * (P - q) <= P * (3 * d * (W - w) + 2 * u * W)
    OBVIOUS
  <2>4. K * P \in Int /\ K * q \in Int /\ P * L \in Int
    BY <1>1
  <2> HIDE DEF K, L
  <2>5. QED
    BY <2>1, <2>2, <2>3, <2>4
<1> HIDE DEF K, L, c
<1>3. P * (c * L) <= P * (2 * K * r + K)
  <2>1. c * (P * L) <= c * (K * q)
    <3>1. K * q \in Int /\ P * L \in Int
      BY <1>1
    <3>2. QED
      BY <1>1, <1>2, <3>1, Order
  <2>2. K * (c * q) <= K * ((2 * P) * r + P)
    <3>1. (2 * P) * r + P \in Int /\ c * q \in Int /\ (2 * P) * r \in Int
      BY <1>1
    <3>2. c * q <= (2 * P) * r + P
      <4>1. c * q + P < (2 * P) * r + 2 * P
        BY DEF c
      <4>2. QED
        BY <3>1, <4>1
    <3>3. QED
      BY <1>1, <3>1, <3>2, Order
  <2>3. /\ c * (P * L) = P * (c * L) /\ c * (K * q) = K * (c * q)
        /\ K * ((2 * P) * r + P) = P * (2 * K * r + K)
    BY <1>1
  <2>4. /\ P * (c * L) \in Int /\ K * (c * q) \in Int /\ P * (2 * K * r + K) \in Int
    BY <1>1
  <2>5. QED
    BY <2>1, <2>2, <2>3, <2>4
<1>4. c * L <= 2 * K * r + K
  <2>1. 2 * K * r + K \in Int /\ c * L \in Int
    BY <1>1
  <2>2. QED
    BY <1>3, <2>1, Cancel
<1>5. 2 * (w * W) - n * W <= c * w
  <2>1. w * (2 * (W - s)) <= w * n /\ n * w <= n * W
    BY Order
  <2>2. w * (2 * (W - s)) = 2 * (w * W) - c * w
    BY DEF c
  <2>3. c * w \in Int /\ w * W \in Int /\ w * n \in Int /\ n * W \in Int /\ n * w = w * n
    BY <1>1
  <2>4. QED
    BY <2>1, <2>2, <2>3
<1>6. (3 * d) * (2 * (w * W) - n * W) <= (3 * d) * (c * w)
  <2>1. 3 * d \in Nat /\ c * w \in Int /\ 2 * (w * W) - n * W \in Int
    BY <1>1
  <2>2. QED
    BY <1>5, <2>1, Order
<1>7. W * (6 * d * w) <= W * (6 * d * r + 4 * u * s + 3 * d * (n + 1))
  <2>1. /\ 2 * K * r + K = W * (6 * d * r) + W * (3 * d)
        /\ c * L = (3 * d) * (c * w) - W * (4 * u * s)
    BY DEF K, L, c
  <2>2. (3 * d) * (2 * (w * W) - n * W) = W * (6 * d * w) - W * (3 * d * n)
    OBVIOUS
  <2>3. W * (6 * d * r + 4 * u * s + 3 * d * (n + 1))
            = W * (6 * d * r) + W * (4 * u * s) + W * (3 * d * n) + W * (3 * d)
    OBVIOUS
  <2>4. /\ W * (6 * d * r) \in Int /\ (3 * d) * (c * w) \in Int /\ W * (4 * u * s) \in Int
        /\ W * (3 * d) \in Int /\ W * (6 * d * w) \in Int /\ W * (3 * d * n) \in Int
    BY <1>1
  <2>5. QED
    BY <1>4, <1>6, <2>1, <2>2, <2>3, <2>4
<1>8. 6 * d * w <= 6 * d * r + 4 * u * s + 3 * d * (n + 1)
  <2>1. 6 * d * w \in Int /\ 6 * d * r + 4 * u * s + 3 * d * (n + 1) \in Int
    OBVIOUS
  <2>2. QED
    BY <1>7, <2>1, Cancel
<1>9. 6 * d * r = 6 * (d * r) /\ 6 * d * w = 6 * (d * w) /\ 4 * u * s = 4 * (u * s)
      /\ 2 * u * s = 2 * (u * s) /\ d * (w - r) = d * w - d * r
  OBVIOUS
<1>10. d * r \in Int /\ d * w \in Int /\ u * s \in Int /\ 3 * d * (n + 1) \in Int
  OBVIOUS
<1>11. QED
  BY <1>8, <1>9, <1>10

\* No factor is further from 1 than the rate.
LEMMA FactorFacts ==
    ASSUME NEW acc \in AllWindows, NEW a \in Agents
    PROVE  LET g == AccScale * Cardinality(DOMAIN acc) IN
           /\ g \in Nat \ {0}
           /\ Whole(acc) = RateDen * g
           /\ (RateDen - RateNum) * g <= Factor(acc, a)
           /\ Factor(acc, a) <= (RateDen + RateNum) * g
<1> DEFINE k == Cardinality(DOMAIN acc)
           g == AccScale * k
           sum == SumFunction(acc)
<1>1. PICK S \in (SUBSET Agents) \ {{}} : acc \in [S -> 0..AccScale]
  BY DEF AllWindows
<1>2. DOMAIN acc = S /\ IsFiniteSet(S) /\ acc \in [S -> Int]
  BY <1>1, FS_Subset, WeightsAssumption
<1>3. k \in Nat \ {0} /\ sum \in Int
  BY WindowFacts
<1>4. AccScale \in Nat \ {0} /\ RateDen \in Nat \ {0} /\ RateNum \in Nat
  BY WeightsAssumption
<1>5. g \in Nat \ {0}
  BY <1>3, <1>4, Products
<1>6. Whole(acc) = RateDen * g
  BY <1>3, <1>4 DEF Whole
<1>7. 0 <= sum /\ sum <= g
  <2> DEFINE lo == 0
             hi == AccScale
  <2>1. lo \in Int /\ hi \in Int /\ \A x \in S : lo <= acc[x] /\ acc[x] <= hi
    BY <1>1, <1>4
  <2> HIDE DEF lo, hi
  <2>2. lo * Cardinality(S) <= SumFunction(acc) /\ SumFunction(acc) <= hi * Cardinality(S)
    BY <1>2, <2>1, SumBounded
  <2>3. QED
    BY <1>2, <1>3, <2>2 DEF lo, hi
<1> HIDE DEF sum
<1>8. CASE a \in S
  <2>1. Factor(acc, a) = Whole(acc) + RateNum * (k * acc[a] - sum)
    BY <1>2, <1>8 DEF Factor, sum
  <2> DEFINE x == k * acc[a] - sum
  <2>2. x \in Int /\ x <= g /\ -g <= x
    <3>1. acc[a] \in Nat /\ acc[a] <= AccScale
      BY <1>1, <1>4, <1>8
    <3>2. k * acc[a] \in Nat /\ k * acc[a] <= g
      BY <1>3, <1>4, <3>1
    <3>3. QED
      BY <1>3, <1>5, <1>7, <3>2
  <2>3. Factor(acc, a) = RateDen * g + RateNum * x
    BY <1>6, <2>1
  <2> HIDE DEF x, g
  <2>4. RateNum * x <= RateNum * g /\ RateNum * (-g) <= RateNum * x
    BY <1>4, <1>5, <2>2, Order
  <2>5. /\ (RateDen - RateNum) * g = RateDen * g - RateNum * g
        /\ (RateDen + RateNum) * g = RateDen * g + RateNum * g
        /\ RateNum * (-g) = -(RateNum * g)
    BY <1>4, <1>5
  <2>6. RateDen * g \in Int /\ RateNum * g \in Int /\ RateNum * x \in Int
    BY <1>4, <1>5, <2>2
  <2>7. QED
    BY <1>5, <1>6, <2>3, <2>4, <2>5, <2>6 DEF g
<1>9. CASE a \notin S
  <2>1. Factor(acc, a) = RateDen * g
    BY <1>2, <1>6, <1>9 DEF Factor
  <2>2. /\ (RateDen - RateNum) * g <= RateDen * g
        /\ RateDen * g <= (RateDen + RateNum) * g
    <3> HIDE DEF g
    <3>1. QED
      BY <1>4, <1>5
  <2>3. QED
    BY <1>5, <1>6, <2>1, <2>2
<1>10. QED
  BY <1>8, <1>9

\* A tick's factor, at its least and at its greatest, leaves no weight of w beyond the
\* limits: the clamp moves none by more than the rate.
Near(w) ==
    \A a \in Agents : /\ (RateDen - RateNum) * w[a] <= RateDen * MaxWeight
                      /\ RateDen * MinWeight <= (RateDen + RateNum) * w[a]

\* What a tick makes of a weight differs from it by the rate at most.
LEMMA ClampedNear ==
    ASSUME NEW w \in [Agents -> Nat], Near(w), NEW acc \in AllWindows, NEW a \in Agents
    PROVE  LET g == AccScale * Cardinality(DOMAIN acc)
               v == ClampedBy(w, acc)
           IN  /\ ((RateDen - RateNum) * w[a]) * g <= v[a]
               /\ v[a] <= ((RateDen + RateNum) * w[a]) * g
<1> DEFINE g == AccScale * Cardinality(DOMAIN acc)
           v == ClampedBy(w, acc)
           f == Factor(acc, a)
           lo == MinWeight * Whole(acc)
           hi == MaxWeight * Whole(acc)
           least == ((RateDen - RateNum) * w[a]) * g
           most == ((RateDen + RateNum) * w[a]) * g
<1>1. /\ g \in Nat \ {0} /\ Whole(acc) = RateDen * g
      /\ (RateDen - RateNum) * g <= f /\ f <= (RateDen + RateNum) * g
  BY FactorFacts
<1>2. /\ RateDen \in Nat \ {0} /\ RateNum \in Nat /\ MinWeight \in Nat /\ MaxWeight \in Nat
      /\ MinWeight <= MaxWeight /\ w[a] \in Nat
  BY WeightsAssumption
<1>3. f \in Int
  BY WindowFacts
<1>4. v[a] = CASE w[a] * f < lo -> lo [] w[a] * f > hi -> hi [] OTHER -> w[a] * f
  BY DEF ClampedBy, Clamp
<1> HIDE DEF g, f, v
<1>5. least <= w[a] * f /\ w[a] * f <= most
  <2>1. w[a] * ((RateDen - RateNum) * g) <= w[a] * f /\ w[a] * f <= w[a] * ((RateDen + RateNum) * g)
    BY <1>1, <1>2, <1>3, Order
  <2>2. /\ w[a] * ((RateDen - RateNum) * g) = least
        /\ w[a] * ((RateDen + RateNum) * g) = most
    BY <1>1, <1>2
  <2>3. QED
    BY <2>1, <2>2
<1>6. least <= hi /\ lo <= most
  <2>1. /\ (RateDen - RateNum) * w[a] <= RateDen * MaxWeight
        /\ RateDen * MinWeight <= (RateDen + RateNum) * w[a]
    BY DEF Near
  <2>2. /\ (RateDen - RateNum) * w[a] \in Int /\ RateDen * MaxWeight \in Int
        /\ (RateDen + RateNum) * w[a] \in Int /\ RateDen * MinWeight \in Int
    BY <1>2
  <2>3. least <= (RateDen * MaxWeight) * g /\ (RateDen * MinWeight) * g <= most
    BY <1>1, <2>1, <2>2, Order
  <2>4. hi = (RateDen * MaxWeight) * g /\ lo = (RateDen * MinWeight) * g
    BY <1>1, <1>2
  <2>5. QED
    BY <2>3, <2>4
<1>7. least \in Int /\ most \in Int /\ lo \in Int /\ hi \in Int /\ w[a] * f \in Int
  BY <1>1, <1>2, <1>3
<1> DEFINE x == w[a] * f
<1>8. least <= x /\ x <= most /\ x \in Int /\ v[a] = CASE x < lo -> lo [] x > hi -> hi [] OTHER -> x
  BY <1>4, <1>5, <1>7
<1>9. lo <= hi
  BY <1>1, <1>2, Limits
<1> HIDE DEF least, most, lo, hi, x
<1>10. least <= v[a] /\ v[a] <= most
  BY <1>6, <1>7, <1>8, <1>9
<1>11. QED
  BY <1>10 DEF least, most, g, v

\* All but one, each at most p : q as big, are at most that as big together.
LEMMA RestCompared ==
    ASSUME NEW v \in [Agents -> Int], NEW w \in [Agents -> Int], NEW a \in Agents,
           NEW p \in Int, NEW q \in Int, \A b \in Agents : p * v[b] <= q * w[b]
    PROVE  p * (SumFunction(v) - v[a]) <= q * (SumFunction(w) - w[a])
<1> DEFINE f == [v EXCEPT ![a] = 0]
           h == [w EXCEPT ![a] = 0]
           z == 0
<1>1. /\ f \in [Agents -> Int] /\ h \in [Agents -> Int] /\ z \in Int
      /\ f[a] = 0 /\ h[a] = 0
      /\ \A b \in Agents \ {a} : f[b] = v[b] /\ h[b] = w[b]
  OBVIOUS
<1>2. IsFiniteSet(Agents) /\ Cardinality(Agents) \in Nat
  BY FS_CardinalityType, WeightsAssumption
<1>3. \A b \in Agents : p * f[b] <= q * h[b] + z
  <2>1. SUFFICES ASSUME NEW b \in Agents PROVE p * f[b] <= q * h[b] + z
    OBVIOUS
  <2>2. CASE b = a
    <3>1. p * f[b] = 0 /\ q * h[b] = 0
      BY <1>1, <2>2
    <3>2. QED
      BY <3>1
  <2>3. CASE b # a
    <3>1. p * f[b] <= q * h[b] /\ q * h[b] \in Int
      BY <1>1, <2>3
    <3>2. QED
      BY <3>1
  <2>4. QED
    BY <2>2, <2>3
<1> HIDE DEF f, h, z
<1>4. p * SumFunction(f) <= q * SumFunction(h) + z * Cardinality(Agents)
  BY <1>1, <1>2, <1>3, SumsCompared
<1>5. /\ SumFunction(v) - SumFunction(f) = v[a] - f[a]
      /\ SumFunction(w) - SumFunction(h) = w[a] - h[a]
  BY <1>1, <1>2, SumChanged
<1>6. /\ SumFunction(f) \in Int /\ SumFunction(h) \in Int
      /\ SumFunction(v) \in Int /\ SumFunction(w) \in Int
  BY <1>1, <1>2, SumType
<1>7. SumFunction(f) = SumFunction(v) - v[a] /\ SumFunction(h) = SumFunction(w) - w[a]
  BY <1>1, <1>5, <1>6
<1>8. z * Cardinality(Agents) = 0
  BY <1>2 DEF z
<1>9. p * SumFunction(f) <= q * SumFunction(h)
  <2>1. q * SumFunction(h) \in Int
    BY <1>6
  <2>2. QED
    BY <1>4, <1>8, <2>1
<1>10. QED
  BY <1>7, <1>9

LEMMA PartOfSum ==
    ASSUME NEW w \in [Agents -> Nat], NEW a \in Agents
    PROVE  SumFunction(w) \in Nat /\ w[a] \in Nat /\ w[a] <= SumFunction(w)
<1>1. SumFunction(w) \in Nat /\ w[a] \in Nat /\ w \in [Agents -> Int]
  BY NormaliseFacts
<1> DEFINE z == [b \in Agents |-> 0]
           one == 1
<1>2. z \in [Agents -> Int] /\ z[a] = 0 /\ one \in Int /\ \A b \in Agents : one * z[b] <= one * w[b]
  OBVIOUS
<1>3. \A b \in Agents : 0 <= z[b] /\ z[b] <= 0
  OBVIOUS
<1> HIDE DEF z, one
<1>4. one * (SumFunction(z) - z[a]) <= one * (SumFunction(w) - w[a])
  BY <1>1, <1>2, RestCompared
<1>5. SumFunction(z) \in Int /\ 0 * Cardinality(Agents) <= SumFunction(z)
  BY <1>2, <1>3, SumType, SumBounded, WeightsAssumption
<1>6. Cardinality(Agents) \in Nat
  BY FS_CardinalityType, WeightsAssumption
<1>7. QED
  BY <1>1, <1>2, <1>4, <1>5, <1>6 DEF one

LEMMA TickMoves ==
    ASSUME RateFits, NEW w \in [Agents -> Nat], Near(w), AddsUp(w),
           NEW acc \in AllWindows, NEW a \in Agents
    PROVE  LET r == Adjusted(w, acc)[a] IN
           /\ RateDen * (r - w[a]) <= RateNum * Scale
           /\ RateDen * (w[a] - r) <= RateNum * Scale
<1> DEFINE g == AccScale * Cardinality(DOMAIN acc)
           v == ClampedBy(w, acc)
           W == SumFunction(w)
           P == SumFunction(v)
           n == Cardinality(Agents)
           r == Adjusted(w, acc)[a]
           d == RateDen
           u == RateNum
           s == Scale
<1>1. d \in Nat \ {0} /\ u \in Nat /\ s \in Nat /\ n \in Nat
  BY FS_CardinalityType, WeightsAssumption
<1>2. 2 * u <= d /\ 3 * d * (n + 1) <= 2 * u * s
  BY DEF RateFits
<1>3. g \in Nat \ {0}
  BY FactorFacts
<1>4. v \in [Agents -> Nat] /\ Adjusted(w, acc) = Normalise(v)
  BY TickIsClamped DEF Clamped
<1>5. /\ W \in Nat /\ w[a] \in Nat /\ w[a] <= W
      /\ P \in Nat /\ v[a] \in Nat /\ v[a] <= P
  <2> HIDE DEF v
  <2>1. QED
    BY <1>4, PartOfSum
<1>6. 2 * (s - W) <= n /\ 2 * (W - s) <= n
  BY <1>1, <1>5 DEF AddsUp
<1>7. \A b \in Agents : ((d - u) * w[b]) * g <= v[b] /\ v[b] <= ((d + u) * w[b]) * g
  BY ClampedNear
<1> HIDE DEF g, v, W, P, n, r, d, u, s
<1>8. W \in Nat \ {0}
  <2>1. d * (3 * (n + 1)) <= d * s
    <3>1. (2 * u) * s <= d * s
      BY <1>1, <1>2, Order
    <3>2. d * (3 * (n + 1)) = 3 * d * (n + 1) /\ 2 * u * s = (2 * u) * s
      BY <1>1
    <3>3. d * (3 * (n + 1)) \in Int /\ (2 * u) * s \in Int /\ d * s \in Int
      BY <1>1
    <3>4. QED
      BY <1>2, <3>1, <3>2, <3>3
  <2>2. 3 * (n + 1) <= s
    BY <1>1, <2>1, Cancel
  <2>3. QED
    BY <1>1, <1>5, <1>6, <2>2
<1>9. /\ ((d - u) * (W - w[a])) * g <= P - v[a]
      /\ P - v[a] <= ((d + u) * (W - w[a])) * g
  <2> DEFINE one == 1
             lo == (d - u) * g
             hi == (d + u) * g
  <2>1. v \in [Agents -> Int] /\ w \in [Agents -> Int] /\ one \in Int /\ lo \in Int /\ hi \in Int
    BY <1>1, <1>3, <1>4
  <2>2. \A b \in Agents : lo * w[b] <= one * v[b] /\ one * v[b] <= hi * w[b]
    <3>1. SUFFICES ASSUME NEW b \in Agents
                   PROVE  lo * w[b] <= one * v[b] /\ one * v[b] <= hi * w[b]
      OBVIOUS
    <3>2. w[b] \in Int /\ v[b] \in Int
      BY <2>1
    <3>3. lo * w[b] = ((d - u) * w[b]) * g /\ hi * w[b] = ((d + u) * w[b]) * g
      BY <1>1, <1>3, <3>2
    <3>4. one * v[b] = v[b]
      BY <3>2
    <3>5. QED
      BY <1>7, <3>3, <3>4
  <2> HIDE DEF one, lo, hi
  <2>3. /\ lo * (SumFunction(w) - w[a]) <= one * (SumFunction(v) - v[a])
        /\ one * (SumFunction(v) - v[a]) <= hi * (SumFunction(w) - w[a])
    BY <2>1, <2>2, RestCompared
  <2>4. /\ lo * (W - w[a]) = ((d - u) * (W - w[a])) * g
        /\ hi * (W - w[a]) = ((d + u) * (W - w[a])) * g
        /\ one * (P - v[a]) = P - v[a]
    BY <1>1, <1>3, <1>5 DEF lo, hi, one
  <2>5. QED
    BY <2>3, <2>4 DEF W, P
<1>10. ((d - u) * w[a]) * g <= v[a] /\ v[a] <= ((d + u) * w[a]) * g
  BY <1>7
<1>11. P \in Nat \ {0}
  <2>1. ((d - u) * w[a]) * g + ((d - u) * (W - w[a])) * g = ((d - u) * W) * g
    BY <1>1, <1>3, <1>5
  <2>2. ((d - u) * W) * g \in Nat \ {0}
    <3>1. d - u \in Nat \ {0}
      BY <1>1, <1>2
    <3>2. QED
      BY <1>3, <1>8, <3>1, Products
  <2>3. /\ ((d - u) * w[a]) * g \in Int /\ ((d - u) * (W - w[a])) * g \in Int
    BY <1>1, <1>3, <1>5
  <2>4. QED
    BY <1>5, <1>9, <1>10, <2>1, <2>2, <2>3
<1>12. /\ r \in Nat
       /\ (2 * P) * r <= (2 * s) * v[a] + P
       /\ (2 * s) * v[a] + P < (2 * P) * r + 2 * P
  <2>1. r = Share(v[a], P)
    BY <1>4, <1>11, NormaliseFacts DEF r, P
  <2>2. QED
    BY <1>5, <1>11, <2>1, ShareFacts DEF s
<1>13. d * (r - w[a]) <= u * s
  <2>1. (3 * d * W) * v[a] <= P * (3 * d * w[a] + 2 * u * W)
    BY <1>1, <1>2, <1>3, <1>5, <1>8, <1>9, <1>10, ShareGain
  <2>2. QED
    BY <1>1, <1>2, <1>5, <1>6, <1>8, <1>11, <1>12, <2>1, Gain
<1>14. d * (w[a] - r) <= u * s
  <2> DEFINE x == W - w[a]
             q == P - v[a]
  <2>1. x \in Nat /\ x <= W /\ q \in Nat /\ q <= P /\ W - x = w[a] /\ P - q = v[a]
    BY <1>5
  <2>2. q <= ((d + u) * x) * g /\ ((d - u) * (W - x)) * g <= P - q
    BY <1>9, <1>10, <2>1
  <2> HIDE DEF x, q
  <2>3. (3 * d * W) * q <= P * (3 * d * x + 2 * u * W)
    BY <1>1, <1>2, <1>3, <1>8, <1>11, <2>1, <2>2, ShareGain
  <2>4. (3 * d * W) * (P - v[a]) <= P * (3 * d * (W - w[a]) + 2 * u * W)
    BY <2>3 DEF x, q
  <2>5. QED
    BY <1>1, <1>2, <1>5, <1>6, <1>8, <1>11, <1>12, <2>4, Loss
<1>15. QED
  BY <1>13, <1>14 DEF d, u, s, r

\* Whichever window comes next, it moves no weight by more than the rate, from every
\* vector that ticks can reach whose weights are near the limits: adjust_from_accuracy
\* divides what it has moved by the new total, and that takes nobody further than the
\* nudge did.  The rate is at most one half and large next to the rounding (0.1 and
\* four decimals as configured), and the configured weights add up to 1.  A weight
\* beyond the limits the clamp takes back at once, by more than a small rate.
THEOREM StepsStayBounded ==
    ASSUME MinWeight > 0, RateFits, AddsUp(DefaultWeights)
    PROVE  WeightsSpec => [](Near(Current) => BoundedStep)
<1>1. WeightsInv /\ Near(Current) => BoundedStep
  <2>1. SUFFICES ASSUME WeightsInv, Near(Current), NEW acc \in Windows, NEW a \in Agents
                 PROVE  LET next == Adjusted(Current, acc) IN
                        /\ RateDen * (next[a] - Current[a]) <= RateNum * Scale
                        /\ RateDen * (Current[a] - next[a]) <= RateNum * Scale
    BY DEF BoundedStep
  <2>2. AddsUp(Current)
    <3>1. CASE cached = None
      BY <3>1 DEF Current
    <3>2. CASE cached # None
      <4>1. PICK v, one : Clamped(v, one) /\ cached = Normalise(v)
        BY <2>1, <3>2 DEF WeightsInv
      <4>2. v \in [Agents -> Nat]
        BY <4>1 DEF Clamped
      <4>3. SumFunction(v) # 0
        BY <4>1, Bounds, WeightsAssumption
      <4>4. AddsUp(cached)
        BY <4>1, <4>2, <4>3, Gap DEF AddsUp
      <4>5. QED
        BY <3>2, <4>4 DEF Current
    <3>3. QED
      BY <3>1, <3>2
  <2>3. Current \in [Agents -> Nat] /\ acc \in AllWindows
    BY <2>1, CurrentType, FeedbackAssumption
  <2>4. QED
    BY <2>1, <2>2, <2>3, TickMoves
<1>2. QED
  BY <1>1, WeightsInvariant, PTL
-----------------------------------------------------------------------------
(* What a lesson does to who was right and who was wrong.                  *)

\* A weight the limits allow is worth n steps of the rate: share r of the least.
LEMMA Worth ==
    ASSUME NEW r \in Nat, NEW M \in Nat \ {0}, NEW x \in Nat, NEW y \in Nat, NEW u \in Nat,
           x <= (r + 1) * M, (y + u) * M <= u * x
    PROVE  y <= u * r
<1>1. u * x <= u * ((r + 1) * M) /\ u * x \in Int /\ u * ((r + 1) * M) \in Int
  BY Order
<1>2. u * ((r + 1) * M) = M * (u * r + u) /\ (y + u) * M = M * (y + u)
  OBVIOUS
<1>3. M * (y + u) <= M * (u * r + u)
  <2>1. M * (y + u) \in Int /\ M * (u * r + u) \in Int
    OBVIOUS
  <2>2. QED
    BY <1>1, <1>2, <2>1
<1>4. y + u <= u * r + u
  <2>1. y + u \in Int /\ u * r + u \in Int
    OBVIOUS
  <2>2. QED
    BY <1>3, <2>1, Cancel
<1>5. u * r \in Int
  OBVIOUS
<1>6. QED
  BY <1>4, <1>5

LEMMA WeightsAreWorth ==
    ASSUME WeightsInv, LessonsFit, NEW a \in Agents
    PROVE  RateDen * Cardinality(Agents) <= RateNum * Current[a] /\ AddsUp(Current)
<1>1. CASE cached = None
  BY <1>1 DEF Current, LessonsFit
<1>2. CASE cached # None
  <2> DEFINE n == Cardinality(Agents)
             o == n - 1
             M == MinWeight + o * MaxWeight
  <2>1. PICK v, one : Clamped(v, one) /\ cached = Normalise(v)
    BY <1>2 DEF WeightsInv
  <2>2. MinWeight > 0
    BY DEF LessonsFit
  <2>3. SumFunction(v) # 0 /\ (cached[a] + 1) * M >= Scale * MinWeight
    BY <2>1, <2>2, Bounds
  <2>4. v \in [Agents -> Nat] /\ cached \in [Agents -> Nat]
    BY <2>1, NormaliseFacts DEF Clamped
  <2>5. AddsUp(cached)
    BY <2>1, <2>3, <2>4, Gap DEF AddsUp
  <2>6. n \in Nat \ {0}
    BY FS_CardinalityType, FS_EmptySet, WeightsAssumption
  <2>7. /\ MinWeight \in Nat \ {0} /\ MaxWeight \in Nat /\ Scale \in Nat
        /\ RateDen \in Nat /\ RateNum \in Nat
    BY <2>2, WeightsAssumption
  <2>8. (RateDen * n + RateNum) * M <= RateNum * (Scale * MinWeight)
    BY DEF LessonsFit
  <2> HIDE DEF n
  <2>9. o \in Nat /\ o * MaxWeight \in Nat
    BY <2>6, <2>7
  <2>10. M \in Nat \ {0} /\ RateDen * n \in Nat /\ Scale * MinWeight \in Nat
    BY <2>6, <2>7, <2>9
  <2>11. cached[a] \in Nat
    BY <2>4
  <2> HIDE DEF M, o
  <2>12. Scale * MinWeight <= (cached[a] + 1) * M
    BY <2>3, <2>10, <2>11
  <2>13. RateDen * n <= RateNum * cached[a]
    BY <2>7, <2>8, <2>10, <2>11, <2>12, Worth
  <2>14. QED
    BY <1>2, <2>5, <2>13 DEF Current, n
<1>3. QED
  BY <1>1, <1>2

\* The total of what a tick normalises is below 2.
LEMMA TotalBelow ==
    ASSUME LessonsFit, NEW w \in [Agents -> Nat], AddsUp(w), NEW acc \in AllWindows
    PROVE  SumFunction(ClampedBy(w, acc)) < 2 * (Scale * Whole(acc))
<1> DEFINE g == AccScale * Cardinality(DOMAIN acc)
           v == ClampedBy(w, acc)
           W == SumFunction(w)
           P == SumFunction(v)
           n == Cardinality(Agents)
           d == RateDen
           u == RateNum
           s == Scale
           lo == MinWeight * Whole(acc)
           c == (d + u) * g
           one == 1
<1>1. /\ d \in Nat \ {0} /\ u \in Nat /\ s \in Nat /\ n \in Nat /\ MinWeight \in Nat
      /\ MaxWeight \in Nat
  BY FS_CardinalityType, WeightsAssumption
<1>2. \E a \in Agents : TRUE
  BY WeightsAssumption
<1>3. g \in Nat \ {0} /\ Whole(acc) = d * g
  BY <1>2, FactorFacts
<1>4. \A a \in Agents : Factor(acc, a) \in Int /\ Factor(acc, a) <= c
  BY FactorFacts, WindowFacts
<1>5. v \in [Agents -> Nat]
  BY TickIsClamped DEF Clamped
<1>6. /\ v \in [Agents -> Int] /\ w \in [Agents -> Int] /\ W \in Nat /\ P \in Nat
  <2> HIDE DEF v
  <2>1. QED
    BY <1>5, NormaliseFacts
<1> HIDE DEF g
<1>7. c \in Int /\ lo \in Nat /\ one \in Int
  BY <1>1, <1>3
<1>8. \A a \in Agents : one * v[a] <= c * w[a] + lo
  <2>1. SUFFICES ASSUME NEW a \in Agents PROVE v[a] <= c * w[a] + lo
    BY <1>5
  <2> DEFINE x == w[a] * Factor(acc, a)
             hi == MaxWeight * Whole(acc)
  <2>2. v[a] = CASE x < lo -> lo [] x > hi -> hi [] OTHER -> x
    BY DEF ClampedBy, Clamp
  <2>3. x \in Int /\ x <= w[a] * c /\ w[a] * c = c * w[a]
    BY <1>4, <1>7, Order
  <2>4. c * w[a] \in Nat
    <3>1. c \in Nat /\ w[a] \in Nat
      BY <1>1, <1>3
    <3>2. QED
      BY <3>1
  <2>5. hi \in Nat
    BY <1>1, <1>3
  <2> HIDE DEF x, c, lo, hi, v
  <2>6. QED
    BY <1>7, <2>2, <2>3, <2>4, <2>5
<1> HIDE DEF v, c, lo, one
<1>9. one * P <= c * W + lo * n
  <2>1. IsFiniteSet(Agents) /\ lo \in Int
    BY <1>7, WeightsAssumption
  <2> HIDE DEF W, P, n, d, u, s
  <2>2. one * SumFunction(v) <= c * SumFunction(w) + lo * Cardinality(Agents)
    BY <1>6, <1>7, <1>8, <2>1, SumsCompared
  <2>3. QED
    BY <2>2 DEF W, P, n
<1>10. P <= c * W + lo * n
  BY <1>6, <1>9 DEF one
<1>11. 2 * W <= 2 * s + n
  BY <1>1, <1>6 DEF AddsUp
<1>12. (d + u) * (2 * s + n) + 2 * (d * MinWeight) * n < 4 * (s * d)
  BY DEF LessonsFit
<1> HIDE DEF W, P, n, d, u, s
<1>13. 2 * P <= g * ((d + u) * (2 * s + n) + 2 * (d * MinWeight) * n)
  <2>1. c * (2 * W) <= c * (2 * s + n)
    <3>1. c \in Nat
      BY <1>1, <1>3 DEF c
    <3>2. QED
      BY <1>1, <1>6, <1>11, <3>1, Order
  <2>2. c * (2 * W) = 2 * (c * W) /\ c * W \in Int /\ lo * n \in Int /\ c * (2 * s + n) \in Int
    BY <1>1, <1>6, <1>7
  <2>3. g * ((d + u) * (2 * s + n) + 2 * (d * MinWeight) * n) = c * (2 * s + n) + 2 * (lo * n)
    BY <1>1, <1>3 DEF c, lo
  <2>4. QED
    BY <1>6, <1>10, <2>1, <2>2, <2>3
<1>14. g * ((d + u) * (2 * s + n) + 2 * (d * MinWeight) * n) < g * (4 * (s * d))
  <2> DEFINE x == (d + u) * (2 * s + n) + 2 * (d * MinWeight) * n
             y == 4 * (s * d)
  <2>1. x \in Int /\ y \in Int /\ x < y
    BY <1>1, <1>12
  <2> HIDE DEF x, y
  <2>2. g * x < g * y
    BY <1>3, <2>1
  <2>3. QED
    BY <2>2 DEF x, y
<1>15. g * (4 * (s * d)) = 4 * (s * Whole(acc)) /\ s * Whole(acc) \in Int
  BY <1>1, <1>3
<1>16. g * ((d + u) * (2 * s + n) + 2 * (d * MinWeight) * n) \in Int
  BY <1>1, <1>3
<1>17. P < 2 * (s * Whole(acc))
  BY <1>6, <1>13, <1>14, <1>15, <1>16
<1>18. QED
  BY <1>17 DEF P, s, v

\* One agent was always right and another always wrong: the mean is at least one
\* share away from either.
LEMMA Extremes ==
    ASSUME NEW acc \in AllWindows, NEW a \in DOMAIN acc, NEW b \in DOMAIN acc,
           acc[a] = AccScale, acc[b] = 0
    PROVE  /\ AccScale <= SumFunction(acc)
           /\ SumFunction(acc) <= Cardinality(DOMAIN acc) * AccScale - AccScale
<1>1. PICK S \in (SUBSET Agents) \ {{}} : acc \in [S -> 0..AccScale]
  BY DEF AllWindows
<1>2. DOMAIN acc = S /\ IsFiniteSet(S) /\ acc \in [S -> Int] /\ a \in S /\ b \in S
  BY <1>1, FS_Subset, WeightsAssumption
<1>3. AccScale \in Nat \ {0} /\ Cardinality(S) \in Nat
  BY <1>2, FS_CardinalityType, WeightsAssumption
<1> DEFINE none == [acc EXCEPT ![a] = 0]
           all == [acc EXCEPT ![b] = AccScale]
           zero == 0
           top == AccScale
<1>4. /\ none \in [S -> Int] /\ \A x \in S : zero <= none[x] /\ none[x] <= top
      /\ all \in [S -> Int] /\ \A x \in S : zero <= all[x] /\ all[x] <= top
      /\ \A x \in S \ {a} : none[x] = acc[x]
      /\ \A x \in S \ {b} : all[x] = acc[x]
      /\ none[a] = 0 /\ all[b] = AccScale
  BY <1>1, <1>2, <1>3
<1>5. zero \in Int /\ top \in Int
  BY <1>3
<1> HIDE DEF none, all, zero, top
<1>6. zero * Cardinality(S) <= SumFunction(none) /\ SumFunction(all) <= top * Cardinality(S)
  BY <1>2, <1>4, <1>5, SumBounded
<1>7. /\ SumFunction(acc) - SumFunction(none) = acc[a] - none[a]
      /\ SumFunction(acc) - SumFunction(all) = acc[b] - all[b]
  BY <1>2, <1>4, SumChanged
<1>8. SumFunction(acc) \in Int /\ SumFunction(none) \in Int /\ SumFunction(all) \in Int
  BY <1>2, <1>4, SumType
<1>9. /\ zero * Cardinality(S) = 0
      /\ top * Cardinality(S) = Cardinality(S) * AccScale
      /\ Cardinality(S) * AccScale \in Int
  BY <1>3 DEF zero, top
<1>10. QED
  BY <1>2, <1>3, <1>4, <1>6, <1>7, <1>8, <1>9

\* The weight of who was right gains a unit at least before it is normalised, that of
\* who was wrong loses one, unless they are at a limit.
LEMMA UnitGained ==
    ASSUME NEW w \in [Agents -> Nat], NEW acc \in AllWindows,
           NEW a \in DOMAIN acc, NEW b \in DOMAIN acc, acc[a] = AccScale, acc[b] = 0,
           w[a] < MaxWeight, MinWeight < w[b],
           RateDen * Cardinality(Agents) <= RateNum * w[a],
           RateDen * Cardinality(Agents) <= RateNum * w[b]
    PROVE  LET v == ClampedBy(w, acc)
               one == Whole(acc)
           IN  /\ (w[a] + 1) * one <= v[a]
               /\ v[b] <= (w[b] - 1) * one
<1> DEFINE v == ClampedBy(w, acc)
           one == Whole(acc)
           k == Cardinality(DOMAIN acc)
           n == Cardinality(Agents)
           sum == SumFunction(acc)
           A == AccScale
           d == RateDen
           u == RateNum
           lo == MinWeight * one
           hi == MaxWeight * one
<1>1. a \in Agents /\ b \in Agents /\ DOMAIN acc \subseteq Agents
  BY WindowFacts
<1>2. /\ k \in Nat \ {0} /\ n \in Nat /\ k <= n /\ sum \in Int /\ one \in Nat \ {0}
  BY <1>1, WindowFacts, FS_Subset, FS_CardinalityType, WeightsAssumption
<1>3. /\ A \in Nat \ {0} /\ d \in Nat \ {0} /\ u \in Nat /\ MinWeight \in Nat
      /\ MaxWeight \in Nat /\ w[a] \in Nat /\ w[b] \in Nat
  BY <1>1, WeightsAssumption
<1>4. A <= sum /\ sum <= k * A - A
  BY Extremes
<1>5. one = (d * A) * k
  BY DEF Whole
<1>6. /\ Factor(acc, a) = one + u * (k * A - sum)
      /\ Factor(acc, b) = one + u * (0 - sum)
  <2>1. k * 0 = 0
    BY <1>2
  <2>2. QED
    BY <2>1 DEF Factor
<1>7. d * n <= u * w[a] /\ d * n <= u * w[b]
  OBVIOUS
<1>8. /\ v[a] = CASE w[a] * Factor(acc, a) < lo -> lo
                  [] w[a] * Factor(acc, a) > hi -> hi
                  [] OTHER -> w[a] * Factor(acc, a)
      /\ v[b] = CASE w[b] * Factor(acc, b) < lo -> lo
                  [] w[b] * Factor(acc, b) > hi -> hi
                  [] OTHER -> w[b] * Factor(acc, b)
  BY <1>1 DEF ClampedBy, Clamp
<1> HIDE DEF v, k, n, sum, A, d, u
\* n steps of the rate are worth a unit of every share.
<1>9. ASSUME NEW x \in Nat, d * n <= u * x
      PROVE  one <= (u * A) * x
  <2>1. d * k <= d * n
    BY <1>2, <1>3, Order
  <2>2. d * k \in Int /\ d * n \in Int /\ u * x \in Int
    BY <1>2, <1>3
  <2>3. A * (d * k) <= A * (u * x)
    BY <1>3, <1>9, <2>1, <2>2, Order
  <2>4. A * (d * k) = (d * A) * k /\ A * (u * x) = (u * A) * x
    BY <1>2, <1>3
  <2>5. QED
    BY <1>5, <2>3, <2>4
<1> HIDE DEF one
<1>10. (w[a] + 1) * one <= w[a] * Factor(acc, a)
  <2>1. u * A <= u * (k * A - sum) /\ u * A \in Int /\ u * (k * A - sum) \in Int
    <3>1. k * A - sum \in Int /\ A <= k * A - sum
      BY <1>2, <1>3, <1>4
    <3>2. QED
      BY <1>3, <3>1, Order
  <2>2. w[a] * (u * A) <= w[a] * (u * (k * A - sum))
    BY <1>3, <2>1, Order
  <2>3. one <= w[a] * (u * A)
    <3>1. (u * A) * w[a] = w[a] * (u * A)
      BY <1>3
    <3>2. QED
      BY <1>3, <1>7, <1>9, <3>1
  <2> DEFINE x == u * (k * A - sum)
  <2>4. w[a] * Factor(acc, a) = w[a] * one + w[a] * x
    <3>1. x \in Int
      BY <2>1
    <3> HIDE DEF x
    <3>2. w[a] * (one + x) = w[a] * one + w[a] * x
      BY <1>2, <1>3, <3>1
    <3>3. QED
      BY <1>6, <3>2 DEF x
  <2>5. (w[a] + 1) * one = w[a] * one + one /\ w[a] * one \in Int /\ w[a] * x \in Int
        /\ w[a] * (u * A) \in Int
    BY <1>2, <1>3, <2>1
  <2>6. QED
    BY <1>2, <2>2, <2>3, <2>4, <2>5
<1>11. w[b] * Factor(acc, b) <= (w[b] - 1) * one
  <2>1. u * A <= u * sum /\ u * A \in Int /\ u * sum \in Int
    BY <1>2, <1>3, <1>4, Order
  <2>2. w[b] * (u * A) <= w[b] * (u * sum)
    BY <1>3, <2>1, Order
  <2>3. one <= w[b] * (u * A)
    <3>1. (u * A) * w[b] = w[b] * (u * A)
      BY <1>3
    <3>2. QED
      BY <1>3, <1>7, <1>9, <3>1
  <2> DEFINE x == u * sum
  <2>4. w[b] * Factor(acc, b) = w[b] * one - w[b] * x
    <3>1. x \in Int /\ u * (0 - sum) = -x
      BY <1>2, <1>3, <2>1
    <3> HIDE DEF x
    <3>2. w[b] * (one - x) = w[b] * one - w[b] * x
      BY <1>2, <1>3, <3>1
    <3>3. Factor(acc, b) = one - x
      BY <1>2, <1>6, <3>1
    <3>4. QED
      BY <3>2, <3>3
  <2>5. (w[b] - 1) * one = w[b] * one - one /\ w[b] * one \in Int /\ w[b] * x \in Int
        /\ w[b] * (u * A) \in Int
    BY <1>2, <1>3, <2>1
  <2>6. QED
    BY <1>2, <2>2, <2>3, <2>4, <2>5
<1>12. (w[a] + 1) * one <= hi /\ lo <= (w[b] - 1) * one
  <2>1. w[a] + 1 <= MaxWeight /\ MinWeight <= w[b] - 1
    BY <1>3
  <2>2. w[a] + 1 \in Int /\ w[b] - 1 \in Int
    BY <1>3
  <2>3. QED
    BY <1>2, <1>3, <2>1, <2>2, Order
<1>13. /\ w[a] * Factor(acc, a) \in Int /\ w[b] * Factor(acc, b) \in Int
       /\ lo \in Int /\ hi \in Int /\ lo <= hi
       /\ (w[a] + 1) * one \in Int /\ (w[b] - 1) * one \in Int
  <2>1. Factor(acc, a) \in Int /\ Factor(acc, b) \in Int
    BY <1>1, WindowFacts
  <2>2. QED
    BY <1>2, <1>3, <2>1, Limits
<1> DEFINE x == w[a] * Factor(acc, a)
           y == w[b] * Factor(acc, b)
           up == (w[a] + 1) * one
           down == (w[b] - 1) * one
<1>14. /\ v[a] = CASE x < lo -> lo [] x > hi -> hi [] OTHER -> x
       /\ v[b] = CASE y < lo -> lo [] y > hi -> hi [] OTHER -> y
       /\ up <= x /\ y <= down /\ up <= hi /\ lo <= down
       /\ x \in Int /\ y \in Int /\ lo \in Int /\ hi \in Int /\ lo <= hi
       /\ up \in Int /\ down \in Int
  BY <1>8, <1>10, <1>11, <1>12, <1>13
<1> HIDE DEF x, y, up, down, lo, hi
<1>15. up <= v[a] /\ v[b] <= down
  BY <1>14
<1>16. QED
  BY <1>15 DEF up, down, v, one

\* That unit is seen through the rounding if the total P is below 2.
LEMMA UnitSeen ==
    ASSUME NEW x \in Nat, NEW y \in Nat \ {0}, NEW one \in Nat, NEW s \in Nat,
           NEW p \in Nat, NEW q \in Nat, (x + 1) * one <= p, q <= (y - 1) * one,
           NEW P \in Nat \ {0}, P < 2 * (s * one),
           NEW i \in Nat, (2 * s) * p + P < (2 * P) * i + 2 * P,
           NEW j \in Nat, (2 * P) * j <= (2 * s) * q + P
    PROVE  i * y > j * x
<1> DEFINE c == 2 * s
           D == c * one
           t == 2 * P
<1>1. c \in Nat /\ D \in Nat /\ P < D /\ t \in Nat \ {0}
  BY Products
<1>2. D * (x + 1) - P < t * i
  <2>1. c * ((x + 1) * one) <= c * p
    BY <1>1, Order
  <2>2. c * ((x + 1) * one) = D * (x + 1)
    OBVIOUS
  <2>3. c * p + P < t * i + 2 * P
    OBVIOUS
  <2>4. c * p \in Int /\ t * i \in Int /\ D * (x + 1) \in Int
    BY <1>1
  <2> HIDE DEF c, D, t
  <2>5. QED
    BY <2>1, <2>2, <2>3, <2>4
<1>3. t * j <= D * (y - 1) + P
  <2>1. c * q <= c * ((y - 1) * one)
    BY <1>1, Order
  <2>2. c * ((y - 1) * one) = D * (y - 1)
    OBVIOUS
  <2>3. t * j <= c * q + P
    OBVIOUS
  <2>4. c * q \in Int /\ t * j \in Int /\ D * (y - 1) \in Int
    BY <1>1
  <2> HIDE DEF c, D, t
  <2>5. QED
    BY <2>1, <2>2, <2>3, <2>4
<1> HIDE DEF c, D, t
<1>4. y * (D * (x + 1) - P) < y * (t * i)
  <2> DEFINE l == D * (x + 1) - P
             r == t * i
  <2>1. l \in Int /\ r \in Int /\ l < r
    BY <1>1, <1>2
  <2> HIDE DEF l, r
  <2>2. y * l < y * r
    BY <2>1
  <2>3. QED
    BY <2>2 DEF l, r
<1>5. x * (t * j) <= x * (D * (y - 1) + P)
  <2>1. t * j \in Int /\ D * (y - 1) + P \in Int
    BY <1>1
  <2>2. QED
    BY <1>3, <2>1, Order
<1>6. /\ y * (D * (x + 1) - P) = D * (x * y) + y * (D - P)
      /\ x * (D * (y - 1) + P) = D * (x * y) - x * (D - P)
      /\ y * (t * i) = t * (i * y) /\ x * (t * j) = t * (j * x)
  BY <1>1
<1>7. y * (D - P) \in Nat /\ x * (D - P) \in Nat
  <2>1. D - P \in Nat
    BY <1>1
  <2>2. QED
    BY <2>1
<1>8. D * (x * y) \in Int /\ t * (i * y) \in Int /\ t * (j * x) \in Int
  BY <1>1
<1>9. t * (j * x) < t * (i * y)
  BY <1>4, <1>5, <1>6, <1>7, <1>8
<1>10. SUFFICES ASSUME i * y <= j * x PROVE FALSE
  <2>1. i * y \in Int /\ j * x \in Int
    OBVIOUS
  <2>2. QED
    BY <2>1
<1>11. t * (i * y) <= t * (j * x)
  <2>1. i * y \in Int /\ j * x \in Int /\ t \in Nat
    BY <1>1
  <2>2. QED
    BY <1>10, <2>1, Order
<1>12. QED
  BY <1>8, <1>9, <1>11

\* An agent whose calls all hit has accuracy 1, one without a hit 0.
LEMMA FullMarks ==
    ASSUME NEW rows, IsFiniteSet(DOMAIN rows), NEW a \in Rated(rows)
    PROVE  /\ Hits(rows, a) = Observed(rows, a) => Accuracy(rows)[a] = AccScale
           /\ Hits(rows, a) = {} => Accuracy(rows)[a] = 0
<1> DEFINE seen == Observed(rows, a)
           m == Cardinality(seen)
<1>1. seen \subseteq DOMAIN rows /\ seen # {}
  BY DEF Observed, Rated
<1>2. m \in Nat \ {0}
  <2> HIDE DEF seen
  <2>1. IsFiniteSet(seen)
    BY <1>1, FS_Subset
  <2>2. QED
    BY <1>1, <2>1, FS_CardinalityType, FS_EmptySet
<1>3. Accuracy(rows)[a] = (AccScale * Cardinality(Hits(rows, a))) \div m
  BY DEF Accuracy
<1>4. AccScale \in Nat
  BY WeightsAssumption
<1> HIDE DEF m
<1>5. (AccScale * m) \div m = AccScale
  <2> DEFINE q == (AccScale * m) \div m
  <2>1. AccScale * m \in Nat
    BY <1>2, <1>4
  <2>2. q \in Nat /\ m * q <= AccScale * m /\ AccScale * m < m * q + m
    BY <1>2, <2>1, Division
  <2> HIDE DEF q
  <2>3. m * q <= m * AccScale
    BY <1>2, <1>4, <2>2
  <2>4. m * AccScale < m * (q + 1)
    BY <1>2, <1>4, <2>2
  <2>5. q <= AccScale
    BY <1>2, <1>4, <2>2, <2>3, Cancel
  <2>6. SUFFICES ASSUME q + 1 <= AccScale PROVE FALSE
    BY <1>4, <2>2, <2>5 DEF q
  <2>7. m * (q + 1) <= m * AccScale /\ m * (q + 1) \in Int /\ m * AccScale \in Int
    BY <1>2, <1>4, <2>2, <2>6, Order
  <2>8. QED
    BY <2>4, <2>7
<1>6. (AccScale * 0) \div m = 0
  <2>1. AccScale * 0 = 0
    BY <1>4
  <2>2. 0 \div m = 0
    BY <1>2
  <2>3. QED
    BY <2>1, <2>2
<1>7. QED
  BY <1>3, <1>5, <1>6, FS_EmptySet DEF m

LEMMA LessonShows ==
    ASSUME LessonsFit, Inv, WeightsInv, NEW source \in {"outcomes", "feedback"},
           NEW a \in Agents, NEW b \in Agents, Learn(source),
           {a, b} \subseteq Rated(RowsOf(source)), Settled(a, source), Refuted(b, source),
           ~(Current[a] >= MaxWeight), ~(Current[b] <= MinWeight)
    PROVE  cached'[a] * Current[b] > cached'[b] * Current[a]
<1> DEFINE rows == RowsOf(source)
           acc == Accuracy(rows)
           w == Current
           v == ClampedBy(w, acc)
           P == SumFunction(v)
<1>1. acc \in AllWindows /\ DOMAIN acc = Rated(rows)
  <2>1. DOMAIN acc = Rated(rows)
    BY DEF Accuracy
  <2> HIDE DEF acc
  <2>2. DOMAIN acc # {}
    BY <2>1
  <2>3. QED
    BY <2>1, <2>2, RowsFinite, AccuracyIsWindow DEF acc
<1>2. acc[a] = AccScale
  <2>1. Hits(rows, a) = Observed(rows, a)
    BY DEF Settled, Right, Hits
  <2>2. QED
    BY <2>1, RowsFinite, FullMarks
<1>3. acc[b] = 0
  <2>1. Hits(rows, b) = {}
    BY DEF Refuted, Right, Hits
  <2>2. QED
    BY <2>1, RowsFinite, FullMarks
<1>4. cached' = Reweighted(acc)
  BY DEF Learn
<1>5. a \in DOMAIN acc /\ b \in DOMAIN acc
  BY <1>1
<1> HIDE DEF acc, rows
<1>6. cached' = Adjusted(w, acc)
  BY <1>4, <1>5 DEF Reweighted, LessonsFit
<1>7. w \in [Agents -> Nat]
  BY CurrentType
<1>8. /\ RateDen * Cardinality(Agents) <= RateNum * w[a]
      /\ RateDen * Cardinality(Agents) <= RateNum * w[b]
      /\ AddsUp(w)
  BY WeightsAreWorth
<1>9. w[a] \in Nat /\ w[b] \in Nat /\ w[a] < MaxWeight /\ MinWeight < w[b]
  BY <1>7, WeightsAssumption
<1> HIDE DEF w
<1>10. (w[a] + 1) * Whole(acc) <= v[a] /\ v[b] <= (w[b] - 1) * Whole(acc)
  BY <1>1, <1>2, <1>3, <1>5, <1>7, <1>8, <1>9, UnitGained
<1>11. P < 2 * (Scale * Whole(acc))
  BY <1>1, <1>7, <1>8, TotalBelow
<1>12. v \in [Agents -> Nat] /\ cached' = Normalise(v) /\ Whole(acc) \in Nat \ {0}
  BY <1>1, <1>6, <1>7, TickIsClamped DEF Clamped
<1> HIDE DEF v
<1>13. P \in Nat /\ v[a] \in Nat /\ v[b] \in Nat /\ v[a] <= P
  BY <1>12, PartOfSum
<1>14. P \in Nat \ {0}
  <2>1. (w[a] + 1) * Whole(acc) \in Nat \ {0}
    BY <1>9, <1>12, Products
  <2>2. QED
    BY <1>10, <1>13, <2>1
<1>15. cached'[a] = Share(v[a], P) /\ cached'[b] = Share(v[b], P)
  BY <1>12, <1>14, NormaliseFacts DEF P
<1> HIDE DEF P
<1>16. /\ cached'[a] \in Nat /\ cached'[b] \in Nat
       /\ (2 * Scale) * v[a] + P < (2 * P) * cached'[a] + 2 * P
       /\ (2 * P) * cached'[b] <= (2 * Scale) * v[b] + P
  BY <1>13, <1>14, <1>15, ShareFacts
<1>17. w[b] \in Nat \ {0} /\ Scale \in Nat
  BY <1>9, WeightsAssumption
<1>18. cached'[a] * w[b] > cached'[b] * w[a]
  BY <1>9, <1>10, <1>11, <1>12, <1>13, <1>14, <1>16, <1>17, UnitSeen
<1>19. QED
  BY <1>18 DEF w

\* A lesson shows: whoever was right in every labelled row has gained on whoever was
\* wrong in every one, unless either is at a limit, provided the settings let a step of
\* the rate be seen through the rounding, as those of the repository do with six agents
\* (recalculate_weights, learn_from_feedback, adjust_from_accuracy).
THEOREM TheRightDoGain == ASSUME LessonsFit PROVE Spec => RightGains
<1>1. Inv /\ WeightsInv /\ [Next]_vars =>
          [\A source \in {"outcomes", "feedback"}, a, b \in Agents :
              /\ Learn(source)
              /\ {a, b} \subseteq Rated(RowsOf(source))
              /\ Settled(a, source) /\ Refuted(b, source)
              => \/ Current[a] >= MaxWeight
                 \/ Current[b] <= MinWeight
                 \/ cached'[a] * Current[b] > cached'[b] * Current[a]]_vars
  BY LessonShows
<1>2. Spec => []WeightsInv
  BY ImplementsWeights, WeightsInvariant, PTL
<1>3. QED
  BY <1>1, <1>2, Invariant, PTL DEF Spec, RightGains
-----------------------------------------------------------------------------
(* Contradictions.                                                         *)

SaidFor(p, label) == {i \in DOMAIN feedback : feedback[i].pred = p /\ VerdictLabel(i) = label}

Misses(a) == Observed(FeedbackRows, a) \ Hits(FeedbackRows, a)

LEMMA DisjointUnion ==
    ASSUME NEW S, NEW T, IsFiniteSet(S), IsFiniteSet(T), S \cap T = {}
    PROVE  Cardinality(S \cup T) = Cardinality(S) + Cardinality(T)
<1>1. /\ Cardinality(S) \in Nat /\ Cardinality(T) \in Nat
      /\ Cardinality(S \cap T) = 0
  BY FS_EmptySet, FS_CardinalityType
<1>2. Cardinality(S \cup T) = Cardinality(S) + Cardinality(T) - Cardinality(S \cap T)
  BY FS_Union
<1>3. QED
  BY <1>1, <1>2

LEMMA VerdictFacts ==
    ASSUME Inv, NEW i \in DOMAIN feedback
    PROVE  /\ feedback[i].pred \in Preds
           /\ VerdictLabel(i) \in {0, 1, None}
           /\ predictions[feedback[i].pred].calls \in Calls
<1> DEFINE f == feedback[i]
<1>1. f \in VerdictRow /\ predictions[f.pred] # None
  BY DEF Inv, FeedbackInv
<1>2. VerdictLabel(i) = LabelFromFeedback(f.verdict, predictions[f.pred].text, f.corrected)
  BY DEF VerdictLabel
<1> HIDE DEF f
<1>3. /\ f.pred \in Preds /\ f.verdict \in Verdicts /\ f.corrected \in Text \cup {None}
  BY <1>1 DEF VerdictRow
<1>4. predictions[f.pred].text \in Text /\ predictions[f.pred].calls \in Calls
  BY <1>1, <1>3 DEF Inv, PredictionsInv
<1>5. \A t \in Text \cup {None} : LabelFromActual(t) \in {0, 1, None}
  BY DEF LabelFromActual, Text, Sides
<1>6. VerdictLabel(i) \in {0, 1, None}
  BY <1>2, <1>3, <1>4, <1>5 DEF LabelFromFeedback, Verdicts
<1>7. QED
  BY <1>3, <1>4, <1>6 DEF f

LEMMA FeedbackRowsAre ==
    ASSUME NEW a
    PROVE  /\ Observed(FeedbackRows, a) =
                  {i \in DOMAIN feedback :
                      /\ VerdictLabel(i) # None
                      /\ a \in DOMAIN predictions[feedback[i].pred].calls}
           /\ Hits(FeedbackRows, a) =
                  {i \in Observed(FeedbackRows, a) :
                      predictions[feedback[i].pred].calls[a] = (VerdictLabel(i) = 1)}
BY DEF Observed, Hits, FeedbackRows

\* Of what is said of one prediction, an agent that has made a call on it hits what
\* speaks for one side and misses what speaks for the other.
LEMMA OneSideHits ==
    ASSUME Inv, NEW a \in Agents, NEW p \in Preds
    PROVE  LET hits == {i \in Hits(FeedbackRows, a) : feedback[i].pred = p}
               misses == {i \in Misses(a) : feedback[i].pred = p}
           IN  \/ hits = {} /\ misses = {}
               \/ hits = SaidFor(p, 1) /\ misses = SaidFor(p, 0)
               \/ hits = SaidFor(p, 0) /\ misses = SaidFor(p, 1)
<1> DEFINE hits == {i \in Hits(FeedbackRows, a) : feedback[i].pred = p}
           misses == {i \in Misses(a) : feedback[i].pred = p}
           calls == predictions[p].calls
           rows == {i \in DOMAIN feedback : feedback[i].pred = p}
<1>1. \A i \in rows : VerdictLabel(i) \in {0, 1, None} /\ calls \in Calls
  BY VerdictFacts
<1>2. /\ hits = {i \in rows : /\ VerdictLabel(i) # None /\ a \in DOMAIN calls
                              /\ calls[a] = (VerdictLabel(i) = 1)}
      /\ misses = {i \in rows : /\ VerdictLabel(i) # None /\ a \in DOMAIN calls
                                /\ calls[a] # (VerdictLabel(i) = 1)}
  BY FeedbackRowsAre DEF Misses
<1>3. /\ SaidFor(p, 1) = {i \in rows : VerdictLabel(i) = 1}
      /\ SaidFor(p, 0) = {i \in rows : VerdictLabel(i) = 0}
  BY DEF SaidFor
<1>4. None # 0 /\ None # 1
  BY FeedbackAssumption, WeightsAssumption
<1> HIDE DEF hits, misses, calls, rows
<1>5. CASE rows = {} \/ a \notin DOMAIN calls
  BY <1>2, <1>5 DEF hits, misses
<1>6. CASE rows # {} /\ a \in DOMAIN calls
  <2>1. calls[a] \in BOOLEAN
    <3>1. calls \in Calls /\ DOMAIN <<>> = {}
      BY <1>1, <1>6
    <3>2. QED
      BY <1>6, <3>1 DEF Calls
  <2>2. CASE calls[a] = TRUE
    <3>1. \A i \in rows : /\ (calls[a] = (VerdictLabel(i) = 1)) <=> VerdictLabel(i) = 1
                          /\ (calls[a] # (VerdictLabel(i) = 1)) <=> VerdictLabel(i) # 1
      BY <2>2
    <3>2. /\ hits = {i \in rows : VerdictLabel(i) = 1}
          /\ misses = {i \in rows : VerdictLabel(i) = 0}
      BY <1>1, <1>2, <1>4, <1>6, <3>1
    <3>3. QED
      BY <1>3, <3>2 DEF hits, misses
  <2>3. CASE calls[a] = FALSE
    <3>1. \A i \in rows : /\ (calls[a] = (VerdictLabel(i) = 1)) <=> VerdictLabel(i) # 1
                          /\ (calls[a] # (VerdictLabel(i) = 1)) <=> VerdictLabel(i) = 1
      BY <2>3
    <3>2. /\ hits = {i \in rows : VerdictLabel(i) = 0}
          /\ misses = {i \in rows : VerdictLabel(i) = 1}
      BY <1>1, <1>2, <1>4, <1>6, <3>1
    <3>3. QED
      BY <1>3, <3>2 DEF hits, misses
  <2>4. QED
    BY <2>1, <2>2, <2>3
<1>7. QED
  BY <1>5, <1>6

\* So when nobody prevails on any prediction, an agent hits as often as it misses.
LEMMA AsManyHits ==
    ASSUME Inv, NEW a \in Agents,
           \A p \in Preds : Cardinality(SaidFor(p, 0)) = Cardinality(SaidFor(p, 1))
    PROVE  Cardinality(Hits(FeedbackRows, a)) = Cardinality(Misses(a))
<1> DEFINE H == Hits(FeedbackRows, a)
           M == Misses(a)
           HitsOf(s) == {i \in H : feedback[i].pred \in s}
           MissesOf(s) == {i \in M : feedback[i].pred \in s}
           P == {s \in SUBSET Preds : Cardinality(HitsOf(s)) = Cardinality(MissesOf(s))}
<1>1. H \subseteq DOMAIN feedback /\ M \subseteq DOMAIN feedback
  BY FeedbackRowsAre DEF Misses
<1>2. IsFiniteSet(H) /\ IsFiniteSet(M)
  <2>1. DOMAIN feedback = 1..Len(feedback) /\ Len(feedback) \in Nat
    BY DEF Inv, FeedbackInv
  <2>2. IsFiniteSet(DOMAIN feedback)
    BY <2>1, FS_Interval
  <2>3. QED
    BY <1>1, <2>2, FS_Subset
<1>3. \A p \in Preds :
          Cardinality({i \in H : feedback[i].pred = p}) =
              Cardinality({i \in M : feedback[i].pred = p})
  BY OneSideHits
<1> HIDE DEF H, M
<1>4. {} \in P
  <2>1. HitsOf({}) = {} /\ MissesOf({}) = {}
    OBVIOUS
  <2>2. QED
    BY <2>1
<1>5. ASSUME NEW s \in SUBSET Preds, s # {}, Rest(s) \in P PROVE s \in P
  <2> DEFINE p == First(s)
             r == Rest(s)
             h == {i \in H : feedback[i].pred = p}
             m == {i \in M : feedback[i].pred = p}
             hr == HitsOf(r)
             mr == MissesOf(r)
  <2>1. p \in s /\ p \in Preds /\ p \notin r /\ s = r \cup {p}
    BY <1>5 DEF First, Rest
  <2>2. /\ HitsOf(s) = hr \cup h /\ hr \cap h = {}
        /\ MissesOf(s) = mr \cup m /\ mr \cap m = {}
    BY <2>1
  <2>3. IsFiniteSet(hr) /\ IsFiniteSet(h) /\ IsFiniteSet(mr) /\ IsFiniteSet(m)
    BY <1>2, FS_Subset
  <2>4. Cardinality(h) = Cardinality(m) /\ Cardinality(hr) = Cardinality(mr)
    BY <1>3, <1>5, <2>1
  <2> HIDE DEF h, m, hr, mr, p, r
  <2>5. /\ Cardinality(hr \cup h) = Cardinality(hr) + Cardinality(h)
        /\ Cardinality(mr \cup m) = Cardinality(mr) + Cardinality(m)
    BY <2>2, <2>3, DisjointUnion
  <2>6. QED
    BY <2>2, <2>4, <2>5
<1>6. Preds \in P
  <2> HIDE DEF P
  <2> QED BY <1>4, <1>5, SubsetInduction, FeedbackAssumption, WeightsAssumption
<1>7. HitsOf(Preds) = H /\ MissesOf(Preds) = M
  BY <1>1, VerdictFacts
<1>8. QED
  BY <1>6, <1>7 DEF H, M

\* When for each prediction as many verdicts speak for one side as for the other,
\* the accuracies they teach are all one half, whatever the agents have called and
\* in whatever order the verdicts came; one half must be an accuracy there is
\* (_feedback_observations, agent_accuracy).
THEOREM ContradictionsDoCancel ==
    ASSUME NEW half \in Nat, AccScale = 2 * half
    PROVE  Spec => []ContradictionsCancel
<1>1. Inv => ContradictionsCancel
  <2> SUFFICES ASSUME Inv, NEW a \in Rated(FeedbackRows),
                      \A p \in Preds : Cardinality(SaidFor(p, 0)) = Cardinality(SaidFor(p, 1))
               PROVE  2 * Accuracy(FeedbackRows)[a] = AccScale
    BY DEF ContradictionsCancel, SaidFor
  <2> DEFINE seen == Observed(FeedbackRows, a)
             hits == Hits(FeedbackRows, a)
             h == Cardinality(hits)
             o == Cardinality(seen)
  <2>1. a \in Agents /\ seen # {} /\ hits \subseteq seen /\ seen \subseteq DOMAIN FeedbackRows
    BY DEF Rated, Hits, Observed
  <2>2. IsFiniteSet(seen) /\ IsFiniteSet(hits) /\ IsFiniteSet(seen \ hits)
    <3>1. IsFiniteSet(DOMAIN FeedbackRows)
      BY RowsFinite DEF RowsOf
    <3>2. QED
      BY <2>1, <3>1, FS_Subset
  <2>3. h = Cardinality(seen \ hits)
    BY <2>1, AsManyHits DEF Misses
  <2>4. o = h + Cardinality(seen \ hits)
    <3>1. hits \cap (seen \ hits) = {} /\ hits \cup (seen \ hits) = seen
      BY <2>1
    <3> HIDE DEF hits, seen
    <3>2. Cardinality(hits \cup (seen \ hits)) = Cardinality(hits) + Cardinality(seen \ hits)
      BY <2>2, <3>1, DisjointUnion
    <3>3. QED
      BY <3>1, <3>2
  <2>5. h \in Nat /\ o \in Nat \ {0}
    BY <2>1, <2>2, FS_CardinalityType, FS_EmptySet
  <2>6. Accuracy(FeedbackRows)[a] = (AccScale * h) \div o
    BY DEF Accuracy
  <2> HIDE DEF h, o
  <2>7. o = h + h /\ h \in Nat \ {0}
    BY <2>3, <2>4, <2>5
  <2>8. AccScale * h = half * o
    BY <2>7
  <2>9. (half * o) \div o = half
    BY <2>5
  <2>10. QED
    BY <2>6, <2>8, <2>9
<1>2. QED
  BY <1>1, Invariant, PTL
=============================================================================
