-------------------------- MODULE PredictionProofs --------------------------
(***************************************************************************)
(* Proofs about Prediction: what is stored is explained by what is stored  *)
(* with it, for any number of requests, agents, weights and failures.      *)
(***************************************************************************)
EXTENDS Prediction, SumTheorems

\* What the argument needs of the types.
Inv ==
    /\ weights \in Vectors
    /\ pc \in [Requests -> Phases]
    /\ DOMAIN vote = Requests /\ DOMAIN pending = Requests /\ DOMAIN stored = Requests

LEMMA ActiveType ==
    ASSUME NEW w \in Vectors
    PROVE  Active(w) \in [Agents -> Nat] /\ SumFunction(Active(w)) > 0
<1>1. IsFiniteSet(Agents) /\ Agents # {}
  BY PredictionAssumption, FS_AddElement DEF Agents
<1>2. CASE Weightless(w)
  <2> DEFINE ones == [a \in Agents |-> 1]
  <2>1. Active(w) = ones /\ ones \in [Agents -> Nat] /\ ones \in [Agents -> Int]
    BY <1>2 DEF Active
  <2>2. \A a \in Agents : ones[a] > 0
    OBVIOUS
  <2> HIDE DEF ones
  <2>3. SumFunction(ones) > 0
    BY <1>1, <2>1, <2>2, SumPositive
  <2>4. QED
    BY <2>1, <2>3
<1>3. CASE ~Weightless(w)
  <2>1. Active(w) = w /\ w \in [Agents -> Nat]
    BY <1>3, PredictionAssumption DEF Active
  <2>2. w \in [Agents -> Int] /\ \A a \in Agents : w[a] >= 0
    BY <2>1
  <2>3. SumFunction(w) \in Int /\ SumFunction(w) >= 0
    BY <1>1, <2>2, SumSigns
  <2>4. QED
    BY <1>3, <2>1, <2>3 DEF Weightless
<1>4. QED
  BY <1>2, <1>3

LEMMA InitInv == Init => Inv
BY DEF Init, Inv, Phases

LEMMA InvStep == Inv /\ [Next]_vars => Inv'
<1> SUFFICES ASSUME Inv, [Next]_vars PROVE Inv'
  OBVIOUS
<1>1. CASE UNCHANGED vars
  BY <1>1 DEF vars, Inv
<1>2. ASSUME NEW w \in Vectors, Retune(w) PROVE Inv'
  BY <1>2 DEF Retune, Inv
<1>3. ASSUME NEW q \in Requests, NEW k \in Phases, pc' = [pc EXCEPT ![q] = k],
             weights' = weights, DOMAIN vote' = Requests, DOMAIN pending' = Requests,
             DOMAIN stored' = Requests
      PROVE  Inv'
  BY <1>3 DEF Inv
<1>4. ASSUME NEW q \in Requests, NEW a, NEW r, Append(q, a, r) PROVE Inv'
  <2> DEFINE after == [b \in DOMAIN results[q] \cup {a} |->
                          IF b = a THEN r ELSE results[q][b]]
             k == IF DOMAIN after = Agents THEN "aggregate"
                  ELSE IF DOMAIN after = Analytical THEN "expert" ELSE "agents"
  <2>1. pc' = [pc EXCEPT ![q] = k] /\ UNCHANGED <<weights, vote, pending, stored>>
    BY <1>4 DEF Append
  <2>2. k \in Phases
    <3> HIDE DEF after
    <3> QED BY DEF Phases
  <2> HIDE DEF after, k
  <2>3. QED
    BY <1>3, <2>1, <2>2 DEF Inv
<1>5. ASSUME NEW q \in Requests, Ask(q) PROVE Inv'
  BY <1>5 DEF Ask, Inv, Phases
<1>6. ASSUME NEW q \in Requests, Step(q) PROVE Inv'
  <2>1. ASSUME NEW a \in Analytical, NEW s \in Opinions, Says(q, a, s) PROVE Inv'
    BY <1>4, <2>1 DEF Says
  <2>2. ASSUME NEW a \in Agents, Fails(q, a) PROVE Inv'
    BY <1>4, <2>2 DEF Fails
  <2>3. CASE ExpertSays(q)
    BY <1>4, <2>3 DEF ExpertSays
  <2>4. CASE Aggregate(q)
    BY <2>4 DEF Aggregate, Inv, Phases
  <2>5. ASSUME NEW line, Persist(q, line) PROVE Inv'
    BY <2>5 DEF Persist, Inv, Phases
  <2>6. CASE \/ PredictFails(q) \/ Audit(q) \/ AuditFails(q) \/ Respond(q)
             \/ Commit(q) \/ CommitFails(q)
    BY <2>6 DEF PredictFails, Audit, AuditFails, Respond, Commit, CommitFails, Inv, Phases
  <2>7. QED
    BY <1>6, <2>1, <2>2, <2>3, <2>4, <2>5, <2>6 DEF Step
<1>7. QED
  BY <1>1, <1>2, <1>5, <1>6 DEF Next

-----------------------------------------------------------------------------
(* Results and votes.                                                      *)

PositiveWeights == \A w \in Vectors : \A a \in Agents : w[a] > 0

\* What the agents have said: one that failed is neutral, the expert comes last and
\* says the mean of its peers.
ResultsInv ==
    \A q \in Requests :
        LET r == results[q] IN
        /\ DOMAIN r \subseteq Agents
        /\ \A a \in DOMAIN r \cap Analytical :
               r[a].score \in Opinions /\ (r[a].failed => r[a].score = 0)
        /\ Expert \in DOMAIN r =>
               Analytical \subseteq DOMAIN r /\ r[Expert].score \in {0, PeerMean(q)}
        /\ pc[q] \in {"idle", "agents"} => Expert \notin DOMAIN r
        /\ pc[q] = "expert" => DOMAIN r = Analytical
        /\ pc[q] \notin {"idle", "agents", "expert"} => DOMAIN r = Agents

\* A vote is that of the results at hand with some weights, and says their shares.
CastBy(q, w) ==
    /\ w \in [Agents -> Nat] /\ SumFunction(w) > 0
    /\ PositiveWeights => \A a \in Agents : w[a] > 0
    /\ vote[q].used = Shares(w)
    /\ vote[q].positive = Positive(Scores(q), w)

CastInv ==
    \A q \in Requests : vote[q] # None \/ pc[q] = "persist" =>
        /\ pc[q] \notin {"idle", "agents", "expert"}
        /\ \E w : CastBy(q, w)
        /\ vote[q].contributors = Contributors(Scores(q), vote[q].positive)

Votes == DOMAIN results = Requests /\ ResultsInv /\ CastInv

LEMMA AgentFacts ==
    /\ N \in Nat \ {0}
    /\ IsFiniteSet(Agents) /\ Agents = Analytical \cup {Expert}
    /\ Opinions \subseteq Int
<1>1. N \in Nat \ {0}
  BY PredictionAssumption, FS_CardinalityType, FS_EmptySet DEF N
<1>2. IsFiniteSet(Agents)
  BY PredictionAssumption, FS_AddElement DEF Agents
<1>3. QED
  BY <1>1, <1>2 DEF Agents, Opinions

LEMMA InitVotes == Init => Votes
<1> SUFFICES ASSUME Init PROVE Votes
  OBVIOUS
<1>1. DOMAIN <<>> = {}
  OBVIOUS
<1>2. ResultsInv
  BY <1>1 DEF Init, ResultsInv
<1>3. CastInv
  BY DEF Init, CastInv
<1>4. QED
  BY <1>2, <1>3 DEF Init, Votes

\* A vote that stays is the vote of results that stay.
LEMMA CastStays ==
    ASSUME CastInv, NEW q \in Requests, vote'[q] = vote[q], Scores(q)' = Scores(q),
           vote'[q] # None \/ pc'[q] = "persist" =>
               vote[q] # None \/ pc[q] = "persist",
           pc[q] \notin {"idle", "agents", "expert"} =>
               pc'[q] \notin {"idle", "agents", "expert"}
    PROVE  vote'[q] # None \/ pc'[q] = "persist" =>
               /\ pc'[q] \notin {"idle", "agents", "expert"}
               /\ \E w : CastBy(q, w)'
               /\ vote'[q].contributors = Contributors(Scores(q), vote[q].positive)'
<1>1. SUFFICES ASSUME vote'[q] # None \/ pc'[q] = "persist"
               PROVE  /\ pc'[q] \notin {"idle", "agents", "expert"}
                      /\ \E w : CastBy(q, w)'
                      /\ vote'[q].contributors = Contributors(Scores(q), vote[q].positive)'
  OBVIOUS
<1>2. PICK w : CastBy(q, w)
  BY <1>1 DEF CastInv
<1>3. CastBy(q, w)'
  BY <1>2 DEF CastBy
<1>4. vote[q].contributors = Contributors(Scores(q), vote[q].positive)
  BY <1>1 DEF CastInv
<1>5. Contributors(Scores(q), vote[q].positive)' = Contributors(Scores(q)', vote'[q].positive)
  OBVIOUS
<1>6. QED
  BY <1>1, <1>3, <1>4, <1>5 DEF CastInv

\* An answer more.
LEMMA AppendVotes ==
    ASSUME Inv, Votes, NEW q \in Requests, NEW a \in Agents, NEW r, Due(q, a), Append(q, a, r),
           a # Expert => r.score \in Opinions /\ (r.failed => r.score = 0),
           a = Expert => r.score \in {0, PeerMean(q)}
    PROVE  Votes'
<1> DEFINE was == results[q]
           after == [b \in DOMAIN was \cup {a} |-> IF b = a THEN r ELSE was[b]]
           k == IF DOMAIN after = Agents THEN "aggregate"
                ELSE IF DOMAIN after = Analytical THEN "expert" ELSE "agents"
<1>1. /\ results' = [results EXCEPT ![q] = after]
      /\ pc' = [pc EXCEPT ![q] = k]
      /\ UNCHANGED <<weights, vote>>
  BY DEF Append
<1>2. /\ pc[q] = IF a = Expert THEN "expert" ELSE "agents"
      /\ a \notin DOMAIN was
  BY DEF Due
<1>3. /\ results'[q] = after /\ pc'[q] = k
      /\ \A p \in Requests \ {q} : results'[p] = results[p] /\ pc'[p] = pc[p]
      /\ DOMAIN results' = Requests
  BY <1>1 DEF Inv, Votes
<1>4. DOMAIN after = DOMAIN was \cup {a} /\ after[a] = r /\ \A b \in DOMAIN was : after[b] = was[b]
  BY <1>2
<1>5. /\ DOMAIN was \subseteq Agents
      /\ \A b \in DOMAIN was \cap Analytical :
             was[b].score \in Opinions /\ (was[b].failed => was[b].score = 0)
      /\ a # Expert => Expert \notin DOMAIN was
      /\ a = Expert => DOMAIN was = Analytical
  BY <1>2 DEF Votes, ResultsInv
<1>6. Expert \notin Analytical /\ Agents = Analytical \cup {Expert}
  BY PredictionAssumption, AgentFacts
<1>7. a = Expert => PeerMean(q)' = PeerMean(q)
  <2>1. SUFFICES ASSUME a = Expert PROVE PeerMean(q)' = PeerMean(q)
    OBVIOUS
  <2>2. \A b \in Analytical : results'[q][b] = results[q][b]
    BY <1>3, <1>4, <1>5, <2>1
  <2>3. QED
    BY <2>2 DEF PeerMean, PeerSum, N
<1>8. \A p \in Requests \ {q} : PeerMean(p)' = PeerMean(p) /\ Scores(p)' = Scores(p)
  BY <1>3 DEF PeerMean, PeerSum, Scores, N
<1>9. k \in {"aggregate", "expert", "agents"}
  OBVIOUS
<1>10. /\ k = "agents" => Expert \notin DOMAIN after
       /\ k = "expert" => DOMAIN after = Analytical
       /\ k = "aggregate" => DOMAIN after = Agents
  <2>1. DOMAIN after # Agents => Expert \notin DOMAIN after
    BY <1>4, <1>5, <1>6
  <2> HIDE DEF after
  <2>2. QED
    BY <2>1
<1> HIDE DEF was, after, k
<1>11. ResultsInv'
  <2>1. ASSUME NEW p \in Requests \ {q}
        PROVE  LET s == results'[p] IN
               /\ DOMAIN s \subseteq Agents
               /\ \A b \in DOMAIN s \cap Analytical :
                      s[b].score \in Opinions /\ (s[b].failed => s[b].score = 0)
               /\ Expert \in DOMAIN s =>
                      Analytical \subseteq DOMAIN s /\ s[Expert].score \in {0, PeerMean(p)'}
               /\ pc'[p] \in {"idle", "agents"} => Expert \notin DOMAIN s
               /\ pc'[p] = "expert" => DOMAIN s = Analytical
               /\ pc'[p] \notin {"idle", "agents", "expert"} => DOMAIN s = Agents
    BY <1>3, <1>8 DEF Votes, ResultsInv
  <2>2. /\ DOMAIN after \subseteq Agents
        /\ \A b \in DOMAIN after \cap Analytical :
               after[b].score \in Opinions /\ (after[b].failed => after[b].score = 0)
    BY <1>4, <1>5, <1>6
  <2>3. Expert \in DOMAIN after =>
            Analytical \subseteq DOMAIN after /\ after[Expert].score \in {0, PeerMean(q)'}
    BY <1>4, <1>5, <1>6, <1>7
  <2>4. /\ k \in {"idle", "agents"} => Expert \notin DOMAIN after
        /\ k = "expert" => DOMAIN after = Analytical
        /\ k \notin {"idle", "agents", "expert"} => DOMAIN after = Agents
    BY <1>9, <1>10
  <2>5. QED
    BY <1>3, <2>1, <2>2, <2>3, <2>4 DEF ResultsInv, Opinions, N
<1>12. CastInv'
  <2>1. ~(vote'[q] # None \/ pc'[q] = "persist")
    BY <1>1, <1>2, <1>3, <1>9 DEF Votes, CastInv
  <2>2. ASSUME NEW p \in Requests \ {q}, vote'[p] # None \/ pc'[p] = "persist"
        PROVE  /\ pc'[p] \notin {"idle", "agents", "expert"}
               /\ \E w : CastBy(p, w)'
               /\ vote'[p].contributors = Contributors(Scores(p), vote[p].positive)'
    BY <1>1, <1>3, <1>8, <2>2, CastStays DEF Votes
  <2>3. QED
    BY <2>1, <2>2 DEF CastInv
<1>13. QED
  BY <1>3, <1>11, <1>12 DEF Votes

\* Steps that leave results and votes alone.
LEMMA QuietVotes ==
    ASSUME Inv, Votes, NEW q \in Requests, NEW k, k # "persist", pc' = [pc EXCEPT ![q] = k],
           results' = results, vote' = vote,
           \/ pc[q] = "idle" /\ k = "agents"
           \/ /\ pc[q] \notin {"idle", "agents", "expert"}
              /\ k \notin {"idle", "agents", "expert"}
    PROVE  Votes'
<1>1. /\ pc'[q] = k
      /\ \A p \in Requests \ {q} : pc'[p] = pc[p]
  BY DEF Inv
<1>2. \A p \in Requests : PeerMean(p)' = PeerMean(p) /\ Scores(p)' = Scores(p)
  BY DEF PeerMean, PeerSum, Scores, N
<1>3. ResultsInv'
  BY <1>1, <1>2 DEF Votes, ResultsInv, Opinions, N
<1>4. CastInv'
  BY <1>1, <1>2, CastStays DEF Votes, CastInv
<1>5. QED
  BY <1>3, <1>4 DEF Votes

LEMMA AggregateVotes ==
    ASSUME Inv, Votes, NEW q \in Requests, Aggregate(q)
    PROVE  Votes'
<1>0. PICK w : w = Active(weights)
  OBVIOUS
<1> DEFINE cast == [positive |-> Positive(Scores(q), w), used |-> Shares(w),
                    contributors |-> Contributors(Scores(q), Positive(Scores(q), w))]
<1>1. /\ pc[q] = "aggregate"
      /\ pc' = [pc EXCEPT ![q] = "persist"]
      /\ vote' = [vote EXCEPT ![q] = cast]
      /\ results' = results
  BY <1>0 DEF Aggregate
<1>2. /\ w \in [Agents -> Nat] /\ SumFunction(w) > 0
      /\ PositiveWeights => \A a \in Agents : w[a] > 0
  <2>1. weights \in Vectors
    BY DEF Inv
  <2>2. QED
    BY <1>0, <2>1, ActiveType, PredictionAssumption DEF Active, PositiveWeights
<1>3. /\ pc'[q] = "persist" /\ vote'[q] = cast
      /\ \A p \in Requests \ {q} : pc'[p] = pc[p] /\ vote'[p] = vote[p]
  BY <1>1 DEF Inv
<1>4. /\ cast.used = Shares(w) /\ cast.positive = Positive(Scores(q), w)
      /\ cast.contributors = Contributors(Scores(q), cast.positive)
  OBVIOUS
<1> HIDE DEF cast
<1>5. \A p \in Requests : PeerMean(p)' = PeerMean(p) /\ Scores(p)' = Scores(p)
  BY <1>1 DEF PeerMean, PeerSum, Scores, N
<1>6. ResultsInv'
  BY <1>1, <1>3, <1>5 DEF Votes, ResultsInv, Opinions, N
<1>7. CastInv'
  <2>1. CastBy(q, w)'
    BY <1>2, <1>3, <1>4, <1>5 DEF CastBy, PositiveWeights, Shares
  <2>2. ASSUME NEW p \in Requests \ {q}, vote'[p] # None \/ pc'[p] = "persist"
        PROVE  /\ pc'[p] \notin {"idle", "agents", "expert"}
               /\ \E v : CastBy(p, v)'
               /\ vote'[p].contributors = Contributors(Scores(p), vote[p].positive)'
    BY <1>1, <1>3, <1>5, <2>2, CastStays DEF Votes
  <2>3. vote'[q].contributors = Contributors(Scores(q), vote[q].positive)'
    BY <1>3, <1>4, <1>5
  <2>4. QED
    BY <1>3, <2>1, <2>2, <2>3 DEF CastInv
<1>8. QED
  BY <1>1, <1>6, <1>7 DEF Votes

LEMMA StepVotes == Inv /\ Votes /\ [Next]_vars => Votes'
<1> SUFFICES ASSUME Inv, Votes, [Next]_vars PROVE Votes'
  OBVIOUS
<1>1. CASE UNCHANGED vars \/ \E w \in Vectors : Retune(w)
  <2>1. UNCHANGED <<pc, results, vote>>
    BY <1>1 DEF vars, Retune
  <2>2. \A q \in Requests : PeerMean(q)' = PeerMean(q) /\ Scores(q)' = Scores(q)
    BY <2>1 DEF PeerMean, PeerSum, Scores, N
  <2>3. ResultsInv'
    BY <2>1, <2>2 DEF Votes, ResultsInv, Opinions, N
  <2>4. CastInv'
    BY <2>1, <2>2, CastStays DEF Votes, CastInv
  <2>5. QED
    BY <2>1, <2>3, <2>4 DEF Votes
<1>2. ASSUME NEW q \in Requests, Ask(q)
      PROVE  Votes'
  BY <1>2, QuietVotes DEF Ask
<1>3. ASSUME NEW q \in Requests, NEW a \in Analytical, NEW s \in Opinions, Says(q, a, s)
      PROVE  Votes'
  <2> DEFINE r == [score |-> s, failed |-> FALSE]
  <2>1. /\ a \in Agents /\ a # Expert /\ Due(q, a) /\ Append(q, a, r)
        /\ r.score \in Opinions /\ ~r.failed
    BY <1>3 DEF Says, Agents
  <2> HIDE DEF r
  <2>2. QED
    BY <2>1, AppendVotes
<1>4. ASSUME NEW q \in Requests, NEW a \in Agents, Fails(q, a)
      PROVE  Votes'
  <2> DEFINE r == [score |-> FallbackScore, failed |-> TRUE]
  <2>1. Due(q, a) /\ Append(q, a, r) /\ r.score = 0 /\ 0 \in Opinions
    BY <1>4 DEF Fails, FallbackScore, Opinions
  <2> HIDE DEF r
  <2>2. QED
    BY <2>1, AppendVotes
<1>5. ASSUME NEW q \in Requests, ExpertSays(q)
      PROVE  Votes'
  <2> DEFINE r == [score |-> PeerMean(q), failed |-> FALSE]
  <2>1. Due(q, Expert) /\ Append(q, Expert, r) /\ r.score = PeerMean(q) /\ Expert \in Agents
    BY <1>5 DEF ExpertSays, Agents
  <2> HIDE DEF r
  <2>2. QED
    BY <2>1, AppendVotes
<1>6. ASSUME NEW q \in Requests,
             \/ \E line \in Lines \cup {None} : Persist(q, line)
             \/ PredictFails(q) \/ Audit(q) \/ AuditFails(q)
             \/ Respond(q) \/ Commit(q) \/ CommitFails(q)
      PROVE  Votes'
  <2>1. PICK k \in {"audit", "respond", "commit", "done"} :
            /\ pc' = [pc EXCEPT ![q] = k]
            /\ pc[q] \in {"aggregate", "persist", "audit", "respond", "commit"}
            /\ results' = results /\ vote' = vote
    BY <1>6 DEF Persist, PredictFails, Audit, AuditFails, Respond, Commit, CommitFails
  <2>2. QED
    BY <2>1, QuietVotes
<1>7. ASSUME NEW q \in Requests, Step(q)
      PROVE  Votes'
  BY <1>3, <1>4, <1>5, <1>6, <1>7, AggregateVotes DEF Step
<1>8. QED
  BY <1>1, <1>2, <1>7 DEF Next

LEMMA VotesHold == Spec => [](Inv /\ Votes)
BY InitInv, InvStep, InitVotes, StepVotes, PTL DEF Spec

\* All agree: so does the expert, unless it is neutral.
LEMMA MeanSigns ==
    ASSUME NEW q \in Requests, \A a \in Analytical : results[q][a].score \in Opinions
    PROVE  /\ PeerMean(q) \in Int
           /\ (\A a \in Analytical : results[q][a].score >= 0) => PeerMean(q) >= 0
           /\ (\A a \in Analytical : results[q][a].score <= 0) => PeerMean(q) <= 0
<1> DEFINE f == [a \in Analytical |-> results[q][a].score]
<1>1. f \in [Analytical -> Int] /\ N \in Nat \ {0}
  BY AgentFacts
<1>2. PeerMean(q) = SumFunction(f) \div N
  BY DEF PeerMean, PeerSum
<1>3. /\ SumFunction(f) \in Int
      /\ (\A a \in Analytical : f[a] >= 0) => SumFunction(f) >= 0
      /\ (\A a \in Analytical : f[a] <= 0) => SumFunction(f) <= 0
  BY <1>1, SumSigns, PredictionAssumption
<1>4. ASSUME NEW x \in Int, NEW n \in Nat \ {0}
      PROVE  /\ x \div n \in Int
             /\ x >= 0 => x \div n >= 0
             /\ x <= 0 => x \div n <= 0
  <2> DEFINE d == x \div n
  <2>1. d \in Int /\ n * d <= x /\ x < n * d + n
    OBVIOUS
  <2> HIDE DEF d
  <2>2. ASSUME x >= 0, d + 1 <= 0 PROVE FALSE
    <3>1. n * (d + 1) <= 0 /\ n * (d + 1) = n * d + n
      BY <2>1, <2>2
    <3>2. QED
      BY <2>1, <2>2, <3>1
  <2>3. ASSUME x <= 0, d >= 1 PROVE FALSE
    <3>1. n * d >= n
      BY <2>1, <2>3
    <3>2. n * d \in Int
      BY <2>1
    <3>3. QED
      BY <2>1, <2>3, <3>1, <3>2
  <2>4. QED
    BY <2>1, <2>2, <2>3 DEF d
<1>5. QED
  BY <1>1, <1>2, <1>3, <1>4

\* The direction of a vote whose agents agree.
LEMMA VoteSigns ==
    ASSUME Votes, NEW q \in Requests, vote[q] # None
    PROVE  /\ \A a \in Analytical : results[q][a].score \in Opinions
           /\ vote[q].positive \in BOOLEAN
           /\ (\A a \in Analytical : results[q][a].score >= 0) => vote[q].positive
           /\ PositiveWeights /\ (\A a \in Analytical : results[q][a].score <= 0)
                  /\ (\E a \in Analytical : results[q][a].score < 0) => ~vote[q].positive
<1>0. PICK w : CastBy(q, w)
  BY DEF Votes, CastInv
<1> DEFINE f == [a \in Agents |-> w[a] * Scores(q)[a]]
<1>1. /\ w \in [Agents -> Nat]
      /\ PositiveWeights => \A a \in Agents : w[a] > 0
      /\ vote[q].positive = (SumFunction(f) >= 0)
  BY <1>0 DEF CastBy, Positive, WeightedSum
<1>2. /\ DOMAIN results[q] = Agents
      /\ \A a \in Analytical : results[q][a].score \in Opinions
      /\ results[q][Expert].score \in {0, PeerMean(q)}
  BY AgentFacts DEF Votes, ResultsInv, CastInv
<1>3. /\ PeerMean(q) \in Int
      /\ (\A a \in Analytical : results[q][a].score >= 0) => PeerMean(q) >= 0
      /\ (\A a \in Analytical : results[q][a].score <= 0) => PeerMean(q) <= 0
  BY <1>2, MeanSigns
<1>4. \A a \in Agents : Scores(q)[a] = results[q][a].score /\ Scores(q)[a] \in Int
  <2>1. \A a \in Analytical : results[q][a].score \in Int
    BY <1>2, AgentFacts
  <2>2. results[q][Expert].score \in Int
    BY <1>2, <1>3
  <2>3. \A a \in Agents : results[q][a].score \in Int
    BY <2>1, <2>2, AgentFacts
  <2>4. QED
    BY <2>3 DEF Scores
<1>5. ASSUME NEW a \in Agents
      PROVE  /\ f[a] \in Int
             /\ Scores(q)[a] >= 0 => f[a] >= 0
             /\ Scores(q)[a] <= 0 => f[a] <= 0
             /\ w[a] > 0 /\ Scores(q)[a] < 0 => f[a] < 0
  <2>1. w[a] \in Nat /\ Scores(q)[a] \in Int /\ f[a] = w[a] * Scores(q)[a]
    BY <1>1, <1>4
  <2> HIDE DEF f
  <2>2. ASSUME NEW x \in Nat, NEW y \in Int
        PROVE  /\ x * y \in Int
               /\ y >= 0 => x * y >= 0
               /\ y <= 0 => x * y <= 0
               /\ x > 0 /\ y < 0 => x * y < 0
    OBVIOUS
  <2>3. QED
    BY <2>1, <2>2
<1>6. f \in [Agents -> Int]
  BY <1>5
<1> HIDE DEF f
<1>7. /\ SumFunction(f) \in Int
      /\ (\A a \in Agents : f[a] >= 0) => SumFunction(f) >= 0
      /\ (\A a \in Agents : f[a] <= 0) /\ (\E a \in Agents : f[a] < 0) => SumFunction(f) < 0
  BY <1>6, SumSigns, AgentFacts
<1>8. ASSUME \A a \in Analytical : results[q][a].score >= 0
      PROVE  vote[q].positive
  <2>1. \A a \in Agents : Scores(q)[a] >= 0
    BY <1>2, <1>3, <1>4, <1>8, AgentFacts
  <2>2. QED
    BY <1>1, <1>5, <1>7, <2>1
<1>9. ASSUME PositiveWeights, \A a \in Analytical : results[q][a].score <= 0,
             NEW b \in Analytical, results[q][b].score < 0
      PROVE  ~vote[q].positive
  <2>1. \A a \in Agents : Scores(q)[a] <= 0
    BY <1>2, <1>3, <1>4, <1>9, AgentFacts
  <2>2. b \in Agents /\ f[b] < 0
    BY <1>1, <1>4, <1>5, <1>9, AgentFacts
  <2>3. SumFunction(f) < 0
    BY <1>5, <1>7, <2>1, <2>2
  <2>4. ~(SumFunction(f) >= 0)
    BY <1>7, <2>3
  <2>5. QED
    BY <1>1, <2>4
<1>10. QED
  BY <1>1, <1>2, <1>8, <1>9

\* "One agent never breaks a prediction": when those that answer push the same way,
\* the vote goes that way, for any agents, failures and interleavings, provided all
\* agents weigh something, as they do by default and after any number of ticks
\* (SharesStayBounded): else the one that is heard may be one that weighs nothing.
THEOREM FailuresStaySilent == ASSUME PositiveWeights PROVE Spec => []FailuresAreSilent
<1>1. Inv /\ Votes => FailuresAreSilent
  <2> SUFFICES ASSUME Inv, Votes, NEW q \in Requests, vote[q] # None
               PROVE  LET said == {results[q][a].score :
                                      a \in {b \in Analytical : ~results[q][b].failed}}
                      IN  /\ said \subseteq {0, N} => vote[q].positive
                          /\ -N \in said /\ N \notin said => ~vote[q].positive
    BY DEF FailuresAreSilent
  <2> DEFINE said == {results[q][a].score : a \in {b \in Analytical : ~results[q][b].failed}}
  <2>1. \A a \in Analytical :
            results[q][a].score \in Opinions /\ (results[q][a].failed => results[q][a].score = 0)
    BY AgentFacts DEF Votes, ResultsInv, CastInv
  <2>2. \A a \in Analytical : results[q][a].score = 0 \/ results[q][a].score \in said
    BY <2>1
  <2>3. N \in Nat \ {0}
    BY AgentFacts
  <2> HIDE DEF said
  <2>4. ASSUME said \subseteq {0, N} PROVE vote[q].positive
    <3>1. ASSUME NEW a \in Analytical
          PROVE  results[q][a].score >= 0
      <4>1. results[q][a].score = 0 \/ results[q][a].score = N
        BY <2>2, <2>4
      <4>2. QED
        BY <2>3, <4>1
    <3>2. QED
      BY <3>1, VoteSigns
  <2>5. ASSUME -N \in said, N \notin said PROVE ~vote[q].positive
    <3>1. \A a \in Analytical : results[q][a].score <= 0
      BY <2>1, <2>2, <2>3, <2>5 DEF Opinions
    <3>2. PICK b \in Analytical : results[q][b].score = -N
      BY <2>5 DEF said
    <3>3. results[q][b].score < 0
      BY <2>3, <3>2
    <3>4. QED
      BY <3>1, <3>3, VoteSigns
  <2>6. QED
    BY <2>4, <2>5 DEF said
<1>2. QED
  BY <1>1, VotesHold, PTL

\* Contributors push in the winning direction and there always is one, for any
\* agents, failures and interleavings, provided all agents weigh something: else
\* the expert alone could decide against all the others (aggregate).
THEOREM ContributorsDoAgree == ASSUME PositiveWeights PROVE Spec => []ContributorsAgree
<1>1. Inv /\ Votes => ContributorsAgree
  <2> SUFFICES ASSUME Inv, Votes, NEW q \in Requests, vote[q] # None
               PROVE  /\ vote[q].contributors # {}
                      /\ \A a \in vote[q].contributors :
                             IF vote[q].positive THEN results[q][a].score >= 0
                             ELSE results[q][a].score < 0
    BY DEF ContributorsAgree
  <2> DEFINE up == vote[q].positive
             pushing == Pushing(Scores(q), up)
  <2>1. up \in BOOLEAN /\ \A a \in Analytical : results[q][a].score \in Int
    BY VoteSigns, AgentFacts
  <2>2. pushing = {a \in Analytical : (results[q][a].score >= 0) = up}
    BY AgentFacts DEF Pushing, Scores
  <2>3. vote[q].contributors = IF pushing = {} THEN Analytical ELSE pushing
    BY DEF Votes, CastInv, Contributors
  <2>4. pushing # {}
    <3>1. SUFFICES ASSUME pushing = {} PROVE FALSE
      OBVIOUS
    <3>2. CASE up
      <4>1. ASSUME NEW a \in Analytical
            PROVE  results[q][a].score < 0
        <5>1. ~((results[q][a].score >= 0) = up)
          BY <2>2, <3>1
        <5>2. ASSUME NEW c \in BOOLEAN, ~(c = up) PROVE ~c
          BY <2>1, <3>2, <5>2
        <5>3. (results[q][a].score >= 0) \in BOOLEAN
          OBVIOUS
        <5>4. ~(results[q][a].score >= 0)
          BY <5>1, <5>2, <5>3
        <5>5. QED
          BY <2>1, <5>4
      <4>2. (\A a \in Analytical : results[q][a].score <= 0)
            /\ (\E a \in Analytical : results[q][a].score < 0)
        BY <2>1, <4>1, PredictionAssumption
      <4>3. QED
        BY <3>2, <4>2, VoteSigns
    <3>3. CASE ~up
      <4>1. ASSUME NEW a \in Analytical
            PROVE  results[q][a].score >= 0
        <5>1. ~((results[q][a].score >= 0) = up)
          BY <2>2, <3>1
        <5>2. QED
          BY <2>1, <3>3, <5>1
      <4>2. QED
        BY <3>3, <4>1, VoteSigns
    <3>4. QED
      BY <3>2, <3>3
  <2>5. QED
    BY <2>1, <2>2, <2>3, <2>4
<1>2. QED
  BY <1>1, VotesHold, PTL
-----------------------------------------------------------------------------
(* What is stored: the sum over the rounded weights is near that of the     *)
(* vote.                                                                    *)

\* The expert says no more than its peers.
LEMMA ScoresBounded ==
    ASSUME Votes, NEW q \in Requests, pc[q] = "persist"
    PROVE  \A a \in Agents : Scores(q)[a] \in Int /\ -N <= Scores(q)[a] /\ Scores(q)[a] <= N
<1> DEFINE f == [a \in Analytical |-> results[q][a].score]
<1>1. /\ DOMAIN results[q] = Agents
      /\ \A a \in Analytical : results[q][a].score \in Opinions
      /\ results[q][Expert].score \in {0, PeerMean(q)}
  BY AgentFacts DEF Votes, ResultsInv
<1>2. N \in Nat \ {0} /\ N = Cardinality(Analytical) /\ -N \in Int
  BY AgentFacts DEF N
<1>3. f \in [Analytical -> Int] /\ \A a \in Analytical : -N <= f[a] /\ f[a] <= N
  BY <1>1, <1>2 DEF Opinions
<1>4. PeerMean(q) = SumFunction(f) \div N
  BY DEF PeerMean, PeerSum
<1> HIDE DEF f
<1>5. /\ SumFunction(f) \in Int
      /\ (-N) * N <= SumFunction(f) /\ SumFunction(f) <= N * N
  BY <1>2, <1>3, SumBounded, SumType, PredictionAssumption
<1>6. ASSUME NEW x \in Int, NEW n \in Nat \ {0}, (-n) * n <= x, x <= n * n
      PROVE  x \div n \in Int /\ -n <= x \div n /\ x \div n <= n
  <2> DEFINE d == x \div n
  <2>1. d \in Int /\ n * d <= x /\ x < n * d + n
    OBVIOUS
  <2> HIDE DEF d
  <2>2. ASSUME d >= n + 1 PROVE FALSE
    <3>1. n * d >= n * (n + 1) /\ n * (n + 1) = n * n + n
      BY <2>1, <2>2
    <3>2. QED
      BY <1>6, <2>1, <3>1
  <2>3. ASSUME d + 1 <= -n PROVE FALSE
    <3>1. n * (d + 1) <= n * (-n) /\ n * (d + 1) = n * d + n /\ n * (-n) = (-n) * n
      BY <2>1, <2>3
    <3>2. QED
      BY <1>6, <2>1, <3>1
  <2>4. QED
    BY <2>1, <2>2, <2>3 DEF d
<1>7. PeerMean(q) \in Int /\ -N <= PeerMean(q) /\ PeerMean(q) <= N
  BY <1>2, <1>4, <1>5, <1>6
<1>8. \A a \in Agents : results[q][a].score \in Int /\ -N <= results[q][a].score
                         /\ results[q][a].score <= N
  BY <1>1, <1>2, <1>7, AgentFacts DEF Opinions
<1>9. QED
  BY <1>8 DEF Scores

\* Rounding is off by half at most.
LEMMA RoundedIsNear ==
    ASSUME NEW x \in Nat, NEW n \in Nat, n > 0
    PROVE  /\ Rounded(x, n) \in Nat
           /\ 2 * (n * Rounded(x, n)) <= 2 * x + n
           /\ 2 * x <= 2 * (n * Rounded(x, n)) + n
<1> DEFINE m == 2 * n
           y == 2 * x + n
           d == y \div m
<1>1. m \in Nat \ {0} /\ y \in Nat
  OBVIOUS
<1> HIDE DEF m, y
<1>2. d \in Int /\ m * d <= y /\ y < m * d + m
  BY <1>1
<1>3. Rounded(x, n) = d
  BY DEF Rounded, m, y
<1> HIDE DEF d
<1>4. m * d = 2 * (n * d)
  BY <1>2 DEF m
<1>5. d >= 0
  <2>1. ASSUME d + 1 <= 0 PROVE FALSE
    <3>1. m * (d + 1) <= 0 /\ m * (d + 1) = m * d + m
      BY <1>1, <1>2, <2>1
    <3>2. QED
      BY <1>1, <1>2, <3>1
  <2>2. QED
    BY <1>2, <2>1
<1>6. n * d \in Int
  BY <1>2
<1>7. QED
  BY <1>2, <1>3, <1>4, <1>5, <1>6 DEF m, y

\* A product by a share against that by the weight.
LEMMA ShareIsNear ==
    ASSUME NEW t \in Nat, NEW n \in Nat, NEW W \in Int, NEW v \in Int, NEW s \in Int,
           2 * (t * W) <= 2 * v + t, 2 * v <= 2 * (t * W) + t, -n <= s, s <= n
    PROVE  /\ (2 * t) * (W * s) <= 2 * (v * s) + t * n
           /\ (-(2 * t)) * (W * s) <= (-2) * (v * s) + t * n
<1> DEFINE e == 2 * (t * W) - 2 * v
<1>1. t * W \in Int /\ e \in Int /\ -t <= e /\ e <= t
  OBVIOUS
<1>2. e * s = 2 * ((t * W) * s) - 2 * (v * s)
  OBVIOUS
<1>3. (t * W) * s = t * (W * s) /\ W * s \in Int /\ v * s \in Int
  OBVIOUS
<1> HIDE DEF e
<1>4. e * s <= t * n /\ -(t * n) <= e * s
  <2>1. CASE s >= 0
    <3>1. e * s <= t * s /\ (-t) * s <= e * s
      BY <1>1, <2>1
    <3>2. t * s <= t * n /\ (-t) * s = -(t * s)
      BY <2>1
    <3>3. e * s \in Int /\ t * s \in Int /\ t * n \in Int
      BY <1>1
    <3>4. QED
      BY <3>1, <3>2, <3>3
  <2>2. CASE s <= 0
    <3>1. t * s <= e * s /\ e * s <= (-t) * s
      BY <1>1, <2>2
    <3>2. t * (-s) <= t * n /\ t * (-s) = -(t * s) /\ (-t) * s = -(t * s)
      BY <2>2
    <3>3. e * s \in Int /\ t * s \in Int /\ t * n \in Int
      BY <1>1
    <3>4. QED
      BY <3>1, <3>2, <3>3
  <2>3. QED
    BY <2>1, <2>2
<1>5. (2 * t) * (W * s) = 2 * (t * (W * s)) /\ (-(2 * t)) * (W * s) = -(2 * (t * (W * s)))
  BY <1>3
<1>6. t * (W * s) \in Int /\ t * n \in Int /\ e * s \in Int
  BY <1>1, <1>3
<1>7. QED
  BY <1>2, <1>3, <1>4, <1>5, <1>6

LEMMA SharesExplain ==
    ASSUME NEW w \in [Agents -> Nat], SumFunction(w) > 0, NEW score \in [Agents -> Int],
           \A a \in Agents : -N <= score[a] /\ score[a] <= N
    PROVE  LET sum == WeightedSum(score, Shares(w))
           IN  /\ 2 * sum > Blur => Positive(score, w)
               /\ 2 * sum < -Blur => ~Positive(score, w)
<1> DEFINE t == SumFunction(w)
           f == [a \in Agents |-> Shares(w)[a] * score[a]]
           h == [a \in Agents |-> w[a] * score[a]]
           p == 2 * t
           r == 2 * Scale
           c == t * N
           x == SumFunction(f)
           y == SumFunction(h)
<1>1. /\ IsFiniteSet(Agents) /\ N \in Nat \ {0} /\ Cardinality(Agents) \in Nat
      /\ Scale \in Nat \ {0} /\ t \in Nat /\ t > 0
  <2>1. w \in [Agents -> Int]
    OBVIOUS
  <2>2. QED
    BY <2>1, AgentFacts, SumType, FS_CardinalityType, PredictionAssumption
<1> HIDE DEF t
<1>2. ASSUME NEW a \in Agents
      PROVE  /\ f[a] \in Int /\ h[a] \in Int
             /\ p * f[a] <= r * h[a] + c
             /\ (-p) * f[a] <= (-r) * h[a] + c
  <2> DEFINE v == Scale * w[a]
             W == Rounded(v, t)
             s == score[a]
  <2>1. v \in Nat /\ s \in Int /\ -N <= s /\ s <= N /\ w[a] \in Nat
    BY <1>1
  <2>2. Shares(w)[a] = W
    BY DEF Shares, t
  <2>3. f[a] = W * s /\ h[a] = w[a] * s
    BY <2>2
  <2> HIDE DEF f, h, W, v, s
  <2>4. W \in Nat /\ 2 * (t * W) <= 2 * v + t /\ 2 * v <= 2 * (t * W) + t
    BY <1>1, <2>1, RoundedIsNear DEF W
  <2>5. /\ (2 * t) * (W * s) <= 2 * (v * s) + t * N
        /\ (-(2 * t)) * (W * s) <= (-2) * (v * s) + t * N
    BY <1>1, <2>1, <2>4, ShareIsNear
  <2>6. 2 * (v * s) = (2 * Scale) * (w[a] * s) /\ (-2) * (v * s) = (-(2 * Scale)) * (w[a] * s)
    BY <1>1, <2>1 DEF v
  <2>7. W * s \in Int /\ w[a] * s \in Int
    BY <2>1, <2>4
  <2>8. QED
    BY <2>3, <2>5, <2>6, <2>7
<1>3. f \in [Agents -> Int] /\ h \in [Agents -> Int]
  BY <1>2
<1>4. p \in Int /\ r \in Int /\ c \in Int /\ -p \in Int /\ -r \in Int
  BY <1>1
<1>5. WeightedSum(score, Shares(w)) = x /\ Positive(score, w) = (y >= 0)
  BY DEF WeightedSum, Positive
<1> HIDE DEF f, h, p, r, c
<1>6. x \in Int /\ y \in Int
  BY <1>1, <1>3, SumType
<1>7. p * x <= r * y + c * Cardinality(Agents)
  BY <1>1, <1>2, <1>3, <1>4, SumsCompared
<1>8. (-p) * x <= (-r) * y + c * Cardinality(Agents)
  BY <1>1, <1>2, <1>3, <1>4, SumsCompared
<1> HIDE DEF x, y
<1>9. c * Cardinality(Agents) = t * Blur /\ Blur \in Int
  BY <1>1 DEF c, Blur
<1>10. p * x = t * (2 * x) /\ (-p) * x = -(t * (2 * x)) /\ (-r) * y = -(r * y)
  BY <1>1, <1>4, <1>6 DEF p
<1>11. /\ t * (2 * x) \in Int /\ t * Blur \in Int /\ r * y \in Int
       /\ y >= 0 => r * y >= 0
       /\ y < 0 => r * y < 0
  BY <1>1, <1>4, <1>6, <1>9 DEF r
<1>12. ASSUME 2 * x > Blur, y < 0 PROVE FALSE
  <2>1. t * (2 * x) > t * Blur
    BY <1>1, <1>6, <1>9, <1>12
  <2>2. QED
    BY <1>7, <1>9, <1>10, <1>11, <1>12, <2>1
<1>13. ASSUME 2 * x < -Blur, y >= 0 PROVE FALSE
  <2>1. t * (2 * x) < t * (-Blur) /\ t * (-Blur) = -(t * Blur)
    BY <1>1, <1>6, <1>9, <1>13
  <2>2. QED
    BY <1>8, <1>9, <1>10, <1>11, <1>13, <2>1
<1>14. /\ 2 * x > Blur => (y >= 0)
       /\ 2 * x < -Blur => ~(y >= 0)
  BY <1>6, <1>12, <1>13
<1> DEFINE up == (y >= 0)
<1>15. WeightedSum(score, Shares(w)) = x /\ Positive(score, w) = up
  BY <1>5
<1>16. (2 * x > Blur => up) /\ (2 * x < -Blur => ~up)
  BY <1>14
<1> HIDE DEF up
<1>17. QED
  BY <1>15, <1>16

Explained(row) ==
    row.label \notin Lines =>
        LET sum == WeightedSum(row.score, row.weight)
        IN  /\ 2 * sum > Blur => row.label = "Positive"
            /\ 2 * sum < -Blur => row.label = "Negative"

RowInv ==
    \A q \in Requests :
        /\ pending[q] # None => Explained(pending[q])
        /\ stored[q] # None => Explained(stored[q])

LEMMA PersistExplains ==
    ASSUME Inv, Votes, NEW q \in Requests, NEW line \in Lines \cup {None}, Persist(q, line)
    PROVE  Explained(pending'[q])
<1> DEFINE row == [label |-> Label(q, line), score |-> Scores(q),
                   weight |-> [a \in Agents |-> RowWeight(q, a)]]
<1>1. pc[q] = "persist" /\ pending'[q] = row
  BY DEF Persist, Inv
<1>2. PICK w : CastBy(q, w)
  BY <1>1 DEF Votes, CastInv
<1>3. /\ w \in [Agents -> Nat] /\ SumFunction(w) > 0
      /\ vote[q].used = Shares(w) /\ vote[q].positive = Positive(Scores(q), w)
  BY <1>2 DEF CastBy
<1>4. [a \in Agents |-> RowWeight(q, a)] = Shares(w)
  BY <1>3 DEF RowWeight, Shares
<1>5. Scores(q) \in [Agents -> Int] /\ \A a \in Agents : -N <= Scores(q)[a] /\ Scores(q)[a] <= N
  BY <1>1, ScoresBounded DEF Scores
<1>6. /\ 2 * WeightedSum(Scores(q), Shares(w)) > Blur => Positive(Scores(q), w)
      /\ 2 * WeightedSum(Scores(q), Shares(w)) < -Blur => ~Positive(Scores(q), w)
  BY <1>3, <1>5, SharesExplain
<1>7. /\ row.label = Label(q, line) /\ row.score = Scores(q) /\ row.weight = Shares(w)
  BY <1>4
<1> HIDE DEF row
<1>8. Label(q, line) \notin Lines =>
          Label(q, line) = IF vote[q].positive THEN "Positive" ELSE "Negative"
  BY DEF Label
<1>9. QED
  BY <1>1, <1>3, <1>6, <1>7, <1>8 DEF Explained

LEMMA StepRows == Inv /\ Votes /\ RowInv /\ [Next]_vars => RowInv'
<1> SUFFICES ASSUME Inv, Votes, RowInv, [Next]_vars PROVE RowInv'
  OBVIOUS
<1>1. ASSUME UNCHANGED <<pending, stored>> PROVE RowInv'
  BY <1>1 DEF RowInv, Explained
<1>2. ASSUME NEW q \in Requests,
             pending' = pending \/ pending' = [pending EXCEPT ![q] = None],
             stored' = stored \/ stored' = [stored EXCEPT ![q] = pending[q]]
      PROVE  RowInv'
  BY <1>2 DEF RowInv, Inv, Explained
<1>3. CASE UNCHANGED vars \/ \E w \in Vectors : Retune(w)
  BY <1>1, <1>3 DEF vars, Retune
<1>4. ASSUME NEW q \in Requests, Ask(q) \/ Step(q) PROVE RowInv'
  <2>1. CASE \/ Ask(q) \/ ExpertSays(q) \/ Aggregate(q)
             \/ \E a \in Analytical, s \in Opinions : Says(q, a, s)
             \/ \E a \in Agents : Fails(q, a)
    BY <1>1, <2>1 DEF Ask, ExpertSays, Aggregate, Says, Fails, Append
  <2>2. ASSUME NEW line \in Lines \cup {None}, Persist(q, line) PROVE RowInv'
    <3>1. Explained(pending'[q])
      BY <2>2, PersistExplains
    <3>2. stored' = stored /\ \A p \in Requests \ {q} : pending'[p] = pending[p]
      BY <2>2 DEF Persist, Inv
    <3>3. QED
      BY <3>1, <3>2 DEF RowInv, Explained
  <2>3. CASE \/ PredictFails(q) \/ Audit(q) \/ AuditFails(q) \/ Respond(q)
             \/ Commit(q) \/ CommitFails(q)
    BY <1>2, <2>3 DEF PredictFails, Audit, AuditFails, Respond, Commit, Committed, CommitFails
  <2>4. QED
    BY <1>4, <2>1, <2>2, <2>3 DEF Step
<1>5. QED
  BY <1>3, <1>4 DEF Next

\* predict, aggregate: the label of a stored prediction, unless it is a score line,
\* follows from the scores and the rounded weights of the agent results stored with it
\* wherever the vote is not closer than their rounding, for any agents and weights,
\* however requests, re-tuning and failures interleave.
THEOREM StoredIsReproducible == Spec => []Reproducible
<1>1. Init => RowInv
  BY DEF Init, RowInv
<1>2. RowInv => Reproducible
  BY DEF RowInv, Explained, Reproducible
<1>3. QED
  BY <1>1, <1>2, StepRows, VotesHold, PTL DEF Spec

-----------------------------------------------------------------------------
(* How a request ends: what CreatedIsStored and OnlyTheDatabaseFails promise *)
(* of every request that ends at all.                                       *)

\* Nothing is neither an answer nor a row.
NothingIsApart ==
    /\ None \notin {"created", "error"}
    /\ \A l, s, w : None # [label |-> l, score |-> s, weight |-> w]

Excused(q) == hurt[q] \/ q \in long

\* The answer has been given, and what it says is in the session or in the database.
EndInv ==
    /\ DOMAIN answer = Requests /\ DOMAIN hurt = Requests
    /\ \A q \in Requests :
           /\ pc[q] \notin {"commit", "done"} => answer[q] = None
           /\ pc[q] = "audit" => pending[q] # None
           /\ pc[q] \in {"respond", "commit"} => pending[q] # None \/ Excused(q)
           /\ pc[q] = "commit" => answer[q] = "created"
           /\ pc[q] = "done" =>
                  \/ answer[q] = "created" /\ (stored[q] # None \/ Excused(q))
                  \/ answer[q] = "error" /\ hurt[q]

\* At the end of a request the client was told of a prediction that is stored, the
\* excuses of CreatedIsStored apart, or of an error, and then the database had failed.
EndsWell ==
    \A q \in Requests : pc[q] = "done" =>
        \/ answer[q] = "created" /\ (stored[q] # None \/ hurt[q] \/ q \in long)
        \/ answer[q] = "error" /\ hurt[q]

\* Steps of the graph and of the vote.
LEMMA GraphEnds ==
    ASSUME Inv, EndInv, NEW q \in Requests, NEW k,
           k \in {"agents", "expert", "aggregate", "persist"},
           pc[q] \notin {"commit", "done"},
           pc' = [pc EXCEPT ![q] = k], UNCHANGED <<long, pending, stored, answer, hurt>>
    PROVE  EndInv'
BY DEF Inv, EndInv, Excused

LEMMA StepEnds ==
    ASSUME NothingIsApart, Inv, EndInv, NEW q \in Requests, Ask(q) \/ Step(q)
    PROVE  EndInv'
<1>1. ASSUME NEW a, NEW r, Append(q, a, r), pc[q] \in {"agents", "expert"}
      PROVE  EndInv'
  <2> DEFINE after == [b \in DOMAIN results[q] \cup {a} |-> IF b = a THEN r ELSE results[q][b]]
             k == IF DOMAIN after = Agents THEN "aggregate"
                  ELSE IF DOMAIN after = Analytical THEN "expert" ELSE "agents"
  <2>1. pc' = [pc EXCEPT ![q] = k] /\ UNCHANGED <<long, pending, stored, answer, hurt>>
    BY <1>1 DEF Append
  <2>2. k \in {"agents", "expert", "aggregate", "persist"}
    <3> HIDE DEF after
    <3> QED OBVIOUS
  <2> HIDE DEF after, k
  <2>3. QED
    BY <1>1, <2>1, <2>2, GraphEnds
<1>2. CASE Ask(q)
  BY <1>2, GraphEnds DEF Ask
<1>3. ASSUME NEW a \in Analytical, NEW s \in Opinions, Says(q, a, s) PROVE EndInv'
  BY <1>1, <1>3 DEF Says, Due
<1>4. ASSUME NEW a \in Agents, Fails(q, a) PROVE EndInv'
  BY <1>1, <1>4 DEF Fails, Due
<1>5. CASE ExpertSays(q)
  BY <1>1, <1>5 DEF ExpertSays, Due
<1>6. CASE Aggregate(q)
  BY <1>6, GraphEnds DEF Aggregate
<1>7. ASSUME NEW line, Persist(q, line) PROVE EndInv'
  <2>1. pending'[q] # None
    BY <1>7 DEF Persist, NothingIsApart, Inv
  <2>2. QED
    BY <1>7, <2>1 DEF Persist, EndInv, Excused, Inv
<1>8. CASE PredictFails(q)
  BY <1>8 DEF PredictFails, DatabaseFails, EndInv, Excused, Inv
<1>9. CASE Audit(q)
  BY <1>9 DEF Audit, EndInv, Excused, Inv
<1>10. CASE AuditFails(q)
  BY <1>10 DEF AuditFails, DatabaseFails, EndInv, Excused, Inv
<1>11. CASE Respond(q)
  BY <1>11 DEF Respond, EndInv, Excused, Inv
<1>12. CASE Commit(q)
  BY <1>12 DEF Commit, Committed, EndInv, Excused, Inv
<1>13. CASE CommitFails(q)
  BY <1>13 DEF CommitFails, DatabaseFails, EndInv, Excused, Inv
<1>14. QED
  BY <1>2, <1>3, <1>4, <1>5, <1>6, <1>7, <1>8, <1>9, <1>10, <1>11, <1>12, <1>13 DEF Step

\* No request ends without an answer, none ends in error but by the database, and a
\* prediction the client was told of is stored unless the database failed or the audit
\* row took it along: what the two liveness properties promise, of every request that
\* ends (predict, record_audit, get_session).
THEOREM RequestsEndWell == ASSUME NothingIsApart PROVE Spec => []EndsWell
<1>1. Init => EndInv
  BY DEF Init, EndInv
<1>2. Inv /\ EndInv /\ [Next]_vars => EndInv'
  <2> SUFFICES ASSUME Inv, EndInv, [Next]_vars PROVE EndInv'
    OBVIOUS
  <2>1. CASE UNCHANGED vars
    BY <2>1 DEF vars, EndInv, Excused
  <2>2. ASSUME NEW w \in Vectors, Retune(w) PROVE EndInv'
    BY <2>2 DEF Retune, EndInv, Excused
  <2>3. QED
    BY <2>1, <2>2, StepEnds DEF Next
<1>3. EndInv => EndsWell
  BY DEF EndInv, EndsWell, Excused
<1>4. QED
  BY <1>1, <1>2, <1>3, VotesHold, PTL DEF Spec
=============================================================================
