----------------------------- MODULE Prediction -----------------------------
(***************************************************************************)
(* POST /predict, from the request to the commit that follows the answer:  *)
(* the agents of the graph answer or fail in any order, the expert reads   *)
(* them, the vote is weighted and stored with its agent results, an audit  *)
(* row is added, the client is answered, the session commits.  Requests    *)
(* overlap, and the weights are re-tuned or rolled back under them.        *)
(*                                                                         *)
(* A score s in 0..1 stands as (s - 0.5), in units in which an agent's     *)
(* full opinion is N, so that the expert's average is a whole number.      *)
(***************************************************************************)
EXTENDS Integers, FiniteSets, Functions

CONSTANTS
    Requests,
    Analytical,     \* the agents of the parallel fan-out
    Expert,
    Vectors,        \* the weights that may be in the cache
    Scale,          \* what stored weights are rounded to: so many parts of 1
    Lines,          \* score lines, as labels
    MaxFaults,      \* bound on database failures
    None

Agents == Analytical \cup {Expert}

ASSUME PredictionAssumption ==
    /\ IsFiniteSet(Analytical) /\ Analytical # {}
    /\ Expert \notin Analytical
    /\ Vectors \subseteq [Agents -> Nat]
    /\ Scale \in Nat \ {0}
    /\ Lines \cap {"Positive", "Negative"} = {} /\ None \notin Lines
    /\ MaxFaults \in Nat

VARIABLES
    long,        \* requests whose entity has more than 256 characters
    weights,     \* WeightManager.current()
    pc,
    results,     \* state["results"]: what each agent has answered
    vote,        \* AggregationResult
    pending,     \* the rows the session has flushed
    stored,      \* the committed prediction with its agent results
    answer,      \* what the client was told
    hurt,        \* history: the database failed this request
    faults

vars == <<long, weights, pc, results, vote, pending, stored, answer, hurt, faults>>

N == Cardinality(Analytical)

Opinions == {-N, 0, N}

Phases == {"idle", "agents", "expert", "aggregate", "persist", "audit", "respond", "commit", "done"}

Init ==
    /\ long \in SUBSET Requests
    /\ weights \in Vectors
    /\ pc = [q \in Requests |-> "idle"]
    /\ results = [q \in Requests |-> <<>>]
    /\ vote = [q \in Requests |-> None]
    /\ pending = [q \in Requests |-> None]
    /\ stored = [q \in Requests |-> None]
    /\ answer = [q \in Requests |-> None]
    /\ hurt = [q \in Requests |-> FALSE]
    /\ faults = 0

-----------------------------------------------------------------------------
(* The graph: the analytical agents, then the expert.                      *)

Ask(q) ==
    /\ pc[q] = "idle"
    /\ pc' = [pc EXCEPT ![q] = "agents"]
    /\ UNCHANGED <<long, weights, results, vote, pending, stored, answer, hurt, faults>>

\* The reducer of state["results"]; the fan-out ends with the last agent.
Append(q, a, r) ==
    LET after == [b \in DOMAIN results[q] \cup {a} |->
                      IF b = a THEN r ELSE results[q][b]]
    IN  /\ results' = [results EXCEPT ![q] = after]
        /\ pc' = [pc EXCEPT ![q] = IF DOMAIN after = Agents THEN "aggregate"
                                   ELSE IF DOMAIN after = Analytical THEN "expert"
                                   ELSE "agents"]
        /\ UNCHANGED <<long, weights, vote, pending, stored, answer, hurt, faults>>

Due(q, a) ==
    /\ pc[q] = IF a = Expert THEN "expert" ELSE "agents"
    /\ a \notin DOMAIN results[q]

Says(q, a, s) ==
    /\ a # Expert
    /\ Due(q, a)
    /\ Append(q, a, [score |-> s, failed |-> FALSE])

\* Mutated form of FallbackScore: an agent that fails votes against.
FallbackScoreZero == -N

\* The neutral result BaseAgent.run makes of an exception.
FallbackScore == 0

\* Mutated form of Fails: the exception ends the request.
FailsLoudly(q, a) ==
    /\ Due(q, a)
    /\ answer' = [answer EXCEPT ![q] = "error"]
    /\ pc' = [pc EXCEPT ![q] = "done"]
    /\ UNCHANGED <<long, weights, results, vote, pending, stored, hurt, faults>>

Fails(q, a) ==
    /\ Due(q, a)
    /\ Append(q, a, [score |-> FallbackScore, failed |-> TRUE])

PeerSum(q) == SumFunction([a \in Analytical |-> results[q][a].score])

PeerMean(q) == PeerSum(q) \div N

\* The mean of the peers; the LLM only words it, and has a fallback.
ExpertSays(q) ==
    /\ Due(q, Expert)
    /\ Append(q, Expert, [score |-> PeerMean(q), failed |-> FALSE])

-----------------------------------------------------------------------------
(* aggregate.                                                              *)

Weightless(w) == SumFunction(w) = 0

\* Weights of the agents present; equal ones when nothing is left of them.
Active(w) == IF Weightless(w) THEN [a \in Agents |-> 1] ELSE w

WeightedSum(score, w) == SumFunction([a \in Agents |-> w[a] * score[a]])

Positive(score, w) == WeightedSum(score, w) >= 0

\* round(x / n); where the code's floats are half way they may go to either side.
Rounded(x, n) == (2 * x + n) \div (2 * n)

\* weights_used: the renormalised weights, rounded after they have been used.
Shares(w) == [a \in Agents |-> Rounded(Scale * w[a], SumFunction(w))]

\* Mutated form of Pushing: the direction of the vote is not looked at.
PushingUp(score, positive) == {a \in Analytical : score[a] >= 0}

\* The agents in the winning direction, the expert aside.
Pushing(score, positive) == {a \in Analytical : (score[a] >= 0) = positive}

Contributors(score, positive) ==
    IF Pushing(score, positive) = {} THEN Analytical ELSE Pushing(score, positive)

Scores(q) == [a \in Agents |-> results[q][a].score]

Aggregate(q) ==
    /\ pc[q] = "aggregate"
    /\ LET w == Active(weights)
           positive == Positive(Scores(q), w)
       IN  vote' = [vote EXCEPT ![q] =
               [positive |-> positive, used |-> Shares(w),
                contributors |-> Contributors(Scores(q), positive)]]
    /\ pc' = [pc EXCEPT ![q] = "persist"]
    /\ UNCHANGED <<long, weights, results, pending, stored, answer, hurt, faults>>

-----------------------------------------------------------------------------
(* The session.                                                            *)

\* Mutated form of RowWeight: the weights are read again.
RowWeightNow(q, a) == Shares(Active(weights))[a]

\* agg.weights_used.get(result.agent)
RowWeight(q, a) == vote[q].used[a]

\* The score line of a match that the connector resolves stands for the vote.
Label(q, line) ==
    IF line # None THEN line ELSE IF vote[q].positive THEN "Positive" ELSE "Negative"

\* The prediction and a row per agent; a rollback drops all of them.
Persist(q, line) ==
    /\ pc[q] = "persist"
    /\ pending' = [pending EXCEPT ![q] =
           [label |-> Label(q, line),
            score |-> Scores(q),
            weight |-> [a \in Agents |-> RowWeight(q, a)]]]
    /\ pc' = [pc EXCEPT ![q] = "audit"]
    /\ UNCHANGED <<long, weights, results, vote, stored, answer, hurt, faults>>

DatabaseFails(q) ==
    /\ faults < MaxFaults
    /\ faults' = faults + 1
    /\ hurt' = [hurt EXCEPT ![q] = TRUE]

\* The weights' cache, which may be a table, or the flush fails: raised to the
\* client, and get_session rolls back.
PredictFails(q) ==
    /\ pc[q] \in {"aggregate", "persist"}
    /\ DatabaseFails(q)
    /\ answer' = [answer EXCEPT ![q] = "error"]
    /\ pc' = [pc EXCEPT ![q] = "done"]
    /\ UNCHANGED <<long, weights, results, vote, pending, stored>>

\* audit_logs.resource holds 256 characters, predictions.entity 512.
Audit(q) ==
    /\ pc[q] = "audit"
    /\ q \notin long
    /\ pc' = [pc EXCEPT ![q] = "respond"]
    /\ UNCHANGED <<long, weights, results, vote, pending, stored, answer, hurt, faults>>

\* record_audit swallows the exception and rolls back: all the session has.
AuditFails(q) ==
    /\ pc[q] = "audit"
    /\ \/ q \in long /\ UNCHANGED <<hurt, faults>>
       \/ q \notin long /\ DatabaseFails(q)
    /\ pending' = [pending EXCEPT ![q] = None]
    /\ pc' = [pc EXCEPT ![q] = "respond"]
    /\ UNCHANGED <<long, weights, results, vote, stored, answer>>

\* The answer is built from the object, and sent before the session ends.
Respond(q) ==
    /\ pc[q] = "respond"
    /\ answer' = [answer EXCEPT ![q] = "created"]
    /\ pc' = [pc EXCEPT ![q] = "commit"]
    /\ UNCHANGED <<long, weights, results, vote, pending, stored, hurt, faults>>

\* Mutated form of Committed: the session is closed without a commit.
CommittedNothing(q) == None

\* What the database keeps when the session of q commits.
Committed(q) == pending[q]

Commit(q) ==
    /\ pc[q] = "commit"
    /\ stored' = [stored EXCEPT ![q] = Committed(q)]
    /\ pending' = [pending EXCEPT ![q] = None]
    /\ pc' = [pc EXCEPT ![q] = "done"]
    /\ UNCHANGED <<long, weights, results, vote, answer, hurt, faults>>

CommitFails(q) ==
    /\ pc[q] = "commit"
    /\ DatabaseFails(q)
    /\ pending' = [pending EXCEPT ![q] = None]
    /\ pc' = [pc EXCEPT ![q] = "done"]
    /\ UNCHANGED <<long, weights, results, vote, stored, answer>>

-----------------------------------------------------------------------------

\* A learning pass, a rollback or the end of the entry's day.
Retune(w) ==
    /\ weights' = w
    /\ UNCHANGED <<long, pc, results, vote, pending, stored, answer, hurt, faults>>

Step(q) ==
    \/ \E a \in Analytical, s \in Opinions : Says(q, a, s)
    \/ \E a \in Agents : Fails(q, a)
    \/ ExpertSays(q)
    \/ Aggregate(q)
    \/ \E line \in Lines \cup {None} : Persist(q, line)
    \/ PredictFails(q)
    \/ Audit(q) \/ AuditFails(q)
    \/ Respond(q)
    \/ Commit(q) \/ CommitFails(q)

Next ==
    \/ \E q \in Requests : Ask(q) \/ Step(q)
    \/ \E w \in Vectors : Retune(w)

Spec == Init /\ [][Next]_vars

\* A request that is being served goes on.
FairSpec == Spec /\ \A q \in Requests : WF_vars(Step(q))

-----------------------------------------------------------------------------
(* Properties.                                                             *)

\* Half units of a stored weight, times a full opinion, that the rounding of all the
\* weights may move their sum by: less than 2 in 10000 of a score, for six agents.
Blur == N * Cardinality(Agents)

\* A stored prediction is explained by the agent results stored with it: unless it is
\* a score line, its label follows from their scores and weights, whatever was
\* re-tuned, failed or overlapped while it was made, wherever the vote is not so close
\* that the rounding of the weights decides (service.py predict, aggregate).
Reproducible ==
    \A q \in Requests : stored[q] # None /\ stored[q].label \notin Lines =>
        LET sum == WeightedSum(stored[q].score, stored[q].weight)
        IN  /\ 2 * sum > Blur => stored[q].label = "Positive"
            /\ 2 * sum < -Blur => stored[q].label = "Negative"

\* "One agent never breaks a prediction": when those that answer push the same
\* way, the vote goes that way, however many fail and whatever they weigh.
FailuresAreSilent ==
    \A q \in Requests : vote[q] # None =>
        LET said == {results[q][a].score : a \in {b \in Analytical : ~results[q][b].failed}}
        IN  /\ said \subseteq {0, N} => vote[q].positive
            /\ -N \in said /\ N \notin said => ~vote[q].positive

\* Contributors are "agents pushing in the winning direction": there always is
\* one, and none of them pushes the other way.
ContributorsAgree ==
    \A q \in Requests : vote[q] # None =>
        /\ vote[q].contributors # {}
        /\ \A a \in vote[q].contributors :
               IF vote[q].positive THEN results[q][a].score >= 0 ELSE results[q][a].score < 0

\* A prediction the client was told of gets stored, unless the database failed
\* or the audit row took it along.
CreatedIsStored ==
    \A q \in Requests :
        (answer[q] = "created") ~> (stored[q] # None \/ hurt[q] \/ q \in long)

\* "So one agent never breaks a prediction", "LLM errors must never block a
\* prediction": every request is answered, and only the database makes it fail.
OnlyTheDatabaseFails ==
    \A q \in Requests :
        (pc[q] = "agents") ~> (answer[q] = "created" \/ (answer[q] = "error" /\ hurt[q]))
=============================================================================
