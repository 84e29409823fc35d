---------------------------- MODULE MCPrediction ----------------------------
(* A small instance of Prediction.                                          *)
EXTENDS Prediction

CONSTANTS q1, a1, a2, a3, line

OneRequest == {q1}
ThreeAgents == {a1, a2, a3}

OneLine == {line}

\* Equal weights, two where one agent outweighs the others, and one whose shares
\* are rounded unevenly, so that a close vote and the weights stored with it differ.
LopsidedVectors ==
    {[b \in Agents |-> 1]} \cup {[b \in Agents |-> IF b = a THEN 5 ELSE 1] : a \in {a1, Expert}}
        \cup {[b \in Agents |-> IF b = Expert THEN 3 ELSE IF b = a1 THEN 2 ELSE 1]}
=============================================================================
