----------------------------- MODULE MCFeedback -----------------------------
(* A small instance of Feedback.                                           *)
EXTENDS Feedback, TLC

CONSTANTS p1, p2, a1, a2

TwoPreds == {p1, p2}
TwoAgents == {a1, a2}

\* One for the home side, the other against it.
SomeVotes == {(a1 :> TRUE) @@ (a2 :> FALSE), (a1 :> FALSE) @@ (a2 :> TRUE)}

\* The vote of the agents, or the score line of a match that was resolved.
TokenOrMatch == {[kind |-> "token", side |-> 1], [kind |-> "match", side |-> 1]}

\* A label for the away side, the score lines of a home win and of a draw.
LabelsAndScores ==
    {[kind |-> "token", side |-> 0]} \cup {[kind |-> "score", side |-> s] : s \in {1, None}}

EqualWeights == [a \in TwoAgents |-> 500]

BothSymmetry == Permutations(TwoPreds) \cup Permutations(TwoAgents)

ASSUME SettingsFit == LessonsFit
=============================================================================
