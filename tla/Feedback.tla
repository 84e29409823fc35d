------------------------------ MODULE Feedback ------------------------------
(***************************************************************************)
(* Human verdicts and recorded outcomes as two sources of the same lesson: *)
(* rows of tables feedback and outcomes are turned into labels, labels     *)
(* into observations per agent, observations into an accuracy window, and  *)
(* the window into weights (app/prediction/feedback.py, benchmark.py, the  *)
(* second half of app/orchestration/service.py).                           *)
(*                                                                         *)
(* A text is known by its kind and the side it names: 1 the home (positive)*)
(* side, 0 the away (negative) side, None neither.  It is a class token, a *)
(* bare score line, or another text, like the score line with the names of *)
(* the teams that a resolved match is predicted with.  Requests are atomic *)
(* here; LearningLoop has the sessions.  This module extends Weights: a     *)
(* lesson changes the vector there by one of its ticks.                    *)
(***************************************************************************)
EXTENDS Weights, Sequences

CONSTANTS
    Preds,
    Votes,              \* directional calls the agents may make, [Agents -> BOOLEAN]
    Forecasts,          \* texts a full prediction may have
    Actuals,            \* texts that may be recorded or given as a correction
    MaxVerdicts,        \* bound on rows of table feedback
    MaxLessons          \* bound on recalculations

Sides == {1, 0, None}

Text == {t \in [kind : {"token", "score", "match"}, side : Sides] :
            t.kind = "token" => t.side # None}

ASSUME FeedbackAssumption ==
    /\ IsFiniteSet(Preds)
    /\ Votes \subseteq [Agents -> BOOLEAN]
    /\ Forecasts \subseteq Text /\ Actuals \subseteq Text
    /\ Windows = AllWindows
    /\ MaxVerdicts \in Nat /\ MaxLessons \in Nat
    /\ None \notin {0, 1} \cup Text

VARIABLES
    predictions,  \* per prediction its text and the calls of its agents
    outcomes,     \* per prediction what really happened
    feedback,     \* rows of table feedback, in the order of their insertion
    lessons       \* recalculations so far

vars == <<predictions, outcomes, feedback, cached, lessons>>

Init ==
    /\ predictions = [p \in Preds |-> None]
    /\ outcomes = [p \in Preds |-> None]
    /\ feedback = <<>>
    /\ WeightsInit
    /\ lessons = 0

-----------------------------------------------------------------------------
(* Labels.                                                                 *)

\* A class token says which side it means; nothing else does.
LabelFromActual(t) == IF t # None /\ t.kind = "token" THEN t.side ELSE None

LabelFromScoreline(t) == IF t # None /\ t.kind = "score" THEN t.side ELSE None

RealisedLabel(t) ==
    IF LabelFromActual(t) # None THEN LabelFromActual(t) ELSE LabelFromScoreline(t)

\* Mutated form of LabelFromFeedback: a rejection keeps the predicted side.
LabelFromFeedbackKept(verdict, predicted, corrected) ==
    IF verdict = "correct" THEN LabelFromActual(corrected) ELSE LabelFromActual(predicted)

LabelFromFeedback(verdict, predicted, corrected) ==
    CASE verdict = "approve" -> LabelFromActual(predicted)
      [] verdict = "reject" -> IF LabelFromActual(predicted) = None THEN None
                               ELSE 1 - LabelFromActual(predicted)
      [] verdict = "correct" -> LabelFromActual(corrected)

\* In halves of a point.
FeedbackReward(verdict, corrected) ==
    CASE verdict = "approve" -> 2
      [] verdict = "reject" -> -2
      [] verdict = "correct" -> IF corrected = None THEN 0 ELSE 1

-----------------------------------------------------------------------------
(* Observations.                                                           *)

\* The rows of table outcomes, labelled.
OutcomeRows ==
    [p \in {q \in Preds : outcomes[q] # None} |->
        [pred |-> p, label |-> RealisedLabel(outcomes[p].actual)]]

\* What row i of table feedback says.
VerdictLabel(i) ==
    LabelFromFeedback(feedback[i].verdict, predictions[feedback[i].pred].text,
                      feedback[i].corrected)

\* Mutated form of FeedbackRows: a row replaces the earlier one on its prediction.
FeedbackRowsLatest ==
    LET latest == {i \in DOMAIN feedback :
                       \A j \in DOMAIN feedback : feedback[j].pred = feedback[i].pred => j <= i}
    IN  [i \in latest |-> [pred |-> feedback[i].pred, label |-> VerdictLabel(i)]]

\* The rows of table feedback, labelled.
FeedbackRows ==
    [i \in DOMAIN feedback |-> [pred |-> feedback[i].pred, label |-> VerdictLabel(i)]]

RowsOf(source) == IF source = "outcomes" THEN OutcomeRows ELSE FeedbackRows

\* The labelled rows that say something about agent a.
Observed(rows, a) ==
    {i \in DOMAIN rows : /\ rows[i].label # None
                         /\ a \in DOMAIN predictions[rows[i].pred].calls}

\* Mutated form of Hits: a call for the away side never hits.
HitsHome(rows, a) ==
    {i \in Observed(rows, a) : predictions[rows[i].pred].calls[a] /\ rows[i].label = 1}

\* Those on which its call was right.
Hits(rows, a) ==
    {i \in Observed(rows, a) : predictions[rows[i].pred].calls[a] = (rows[i].label = 1)}

Rated(rows) == {a \in Agents : Observed(rows, a) # {}}

\* agent_accuracy; the rounding is left out.
Accuracy(rows) ==
    [a \in Rated(rows) |->
        (AccScale * Cardinality(Hits(rows, a))) \div Cardinality(Observed(rows, a))]

-----------------------------------------------------------------------------
(* The requests.                                                           *)

\* A vote none of the agents casts is not the outcome of their vote.
Plausible(text, calls) ==
    text.kind = "token" => \E a \in Agents : calls[a] = (text.side = 1)

\* POST /predict: every agent has a result, a failed one included.
Predict(p, text, calls) ==
    /\ predictions[p] = None
    /\ Plausible(text, calls)
    /\ predictions' = [predictions EXCEPT ![p] = [text |-> text, calls |-> calls]]
    /\ UNCHANGED <<outcomes, feedback, cached, lessons>>

\* refresh_worldcup: a bare score line and no agents.
Snapshot(p, text) ==
    /\ predictions[p] = None
    /\ text.kind = "score"
    /\ predictions' = [predictions EXCEPT ![p] = [text |-> text, calls |-> <<>>]]
    /\ UNCHANGED <<outcomes, feedback, cached, lessons>>

\* POST /predictions/{id}/outcome, and the ingestion of results.
RecordOutcome(p, actual) ==
    /\ predictions[p] # None
    /\ outcomes' = [outcomes EXCEPT ![p] =
           [actual |-> actual, correct |-> predictions[p].text = actual]]
    /\ UNCHANGED <<predictions, feedback, cached, lessons>>

\* POST /predictions/{id}/feedback: a row more, whatever was said before.
RecordFeedback(p, verdict, corrected) ==
    /\ predictions[p] # None
    /\ Len(feedback) < MaxVerdicts
    /\ feedback' = Append(feedback,
           [pred |-> p, verdict |-> verdict, corrected |-> corrected,
            reward |-> FeedbackReward(verdict, corrected)])
    /\ UNCHANGED <<predictions, outcomes, cached, lessons>>

\* Mutated form of Reweighted: the weights are the accuracies themselves.
ReweightedBy(acc) ==
    IF DOMAIN acc = {} \/ ~Enabled THEN cached
    ELSE Normalise([a \in Agents |-> IF a \in DOMAIN acc THEN acc[a] ELSE 0])

\* adjust_from_accuracy, which does nothing without a window.
Reweighted(acc) ==
    IF DOMAIN acc = {} \/ ~Enabled THEN cached ELSE Adjusted(Current, acc)

\* POST /weights/recalculate and POST /weights/learn-from-feedback.  The accuracy
\* snapshots they add are read by nobody.
Learn(source) ==
    /\ lessons < MaxLessons
    /\ lessons' = lessons + 1
    /\ cached' = Reweighted(Accuracy(RowsOf(source)))
    /\ UNCHANGED <<predictions, outcomes, feedback>>

\* POST /weights/rollback, or the end of the entry's day.
RollbackWeights ==
    /\ cached # None
    /\ cached' = None
    /\ UNCHANGED <<predictions, outcomes, feedback, lessons>>

Next ==
    \/ \E p \in Preds :
           \/ \E text \in Forecasts, calls \in Votes : Predict(p, text, calls)
           \/ \E text \in Actuals : Snapshot(p, text) \/ RecordOutcome(p, text)
           \/ \E verdict \in {"approve", "reject"} : RecordFeedback(p, verdict, None)
           \/ \E text \in Actuals \cup {None} : RecordFeedback(p, "correct", text)
    \/ \E source \in {"outcomes", "feedback"} : Learn(source)
    \/ RollbackWeights

Spec == Init /\ [][Next]_vars

-----------------------------------------------------------------------------
(* Properties.                                                             *)

\* What a reviewer says who knows the outcome and says the truth.
Honest(f) ==
    LET said == predictions[f.pred].text.side
        was == outcomes[f.pred].actual.side
    IN  CASE f.verdict = "approve" -> said = was
          [] f.verdict = "reject" -> said # was
          [] f.verdict = "correct" -> f.corrected = outcomes[f.pred].actual

\* The text that a verdict is about, or gives, is no class token.
Unread(f) ==
    LET text == IF f.verdict = "correct" THEN f.corrected ELSE predictions[f.pred].text
    IN  text.kind # "token"

\* "Exactly like a real outcome", "label semantics identical" (feedback.py): an honest
\* verdict has the label of the outcome, recorded as a token or a score line, but for
\* two disagreements.  Without a class token a verdict teaches nothing, even where the
\* same score line, recorded as the outcome, teaches its winner; and a prediction
\* rejected for a draw teaches a win of the other side, while the draw teaches nothing
\* (label_from_feedback, realised_label).
HonestVerdictsAgree ==
    \A i \in DOMAIN feedback :
        LET f == feedback[i]
            o == outcomes[f.pred]
        IN  o # None /\ o.actual.kind # "match" /\ Honest(f) =>
                \/ VerdictLabel(i) = RealisedLabel(o.actual)
                \/ VerdictLabel(i) = None /\ Unread(f)
                \/ f.verdict = "reject" /\ o.actual.side = None

\* Several verdicts on one prediction all count: when for each prediction as
\* many speak for one side as for the other, nobody is right more often than
\* wrong and the accuracies are all one half (_feedback_observations).
ContradictionsCancel ==
    LET For(p, label) ==
            {i \in DOMAIN feedback : feedback[i].pred = p /\ VerdictLabel(i) = label}
    IN  (\A p \in Preds : Cardinality(For(p, 0)) = Cardinality(For(p, 1))) =>
            \A a \in Rated(FeedbackRows) : 2 * Accuracy(FeedbackRows)[a] = AccScale

\* Every change of the weights is a tick of an accuracy window or a reset:
\* what Weights promises of a sequence of ticks holds of this loop.
WeightsFollow == [][cached' # cached => WeightsNext]_cached

\* "A human correction changes future behaviour": after a lesson, an agent that
\* was right in every labelled row has gained on one that was wrong in every
\* one, unless either is at a limit.
Right(source, a, i) ==
    predictions[RowsOf(source)[i].pred].calls[a] = (RowsOf(source)[i].label = 1)
Settled(a, source) == \A i \in Observed(RowsOf(source), a) : Right(source, a, i)
Refuted(a, source) == \A i \in Observed(RowsOf(source), a) : ~Right(source, a, i)

RightGains ==
    [][\A source \in {"outcomes", "feedback"}, a, b \in Agents :
           /\ Learn(source)
           /\ {a, b} \subseteq Rated(RowsOf(source))
           /\ Settled(a, source) /\ Refuted(b, source)
           => \/ Current[a] >= MaxWeight
              \/ Current[b] <= MinWeight
              \/ cached'[a] * Current[b] > cached'[b] * Current[a]]_vars
=============================================================================
