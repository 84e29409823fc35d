-------------------------- MODULE MCLearningLoop --------------------------
(* Small instances of LearningLoop.                                      *)
EXTENDS LearningLoop, TLC

CONSTANTS p1, p2, l1, l2, r1

TwoPredictions == {p1, p2}
OnePrediction == {p1}
TwoLearners == {l1, l2}
OneRecorder == {r1}
NoRecorder == {}

\* Learners are interchangeable (safety runs only), predictions too when both
\* are decisive.
LearnerSymmetry == Permutations(TwoLearners)
=============================================================================
