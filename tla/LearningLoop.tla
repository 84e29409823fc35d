---------------------------- MODULE LearningLoop ----------------------------
(***************************************************************************)
(* The autonomous learning loop of app/orchestration/service.py: sessions  *)
(* that attach real results to full-agent predictions and re-tune the      *)
(* agent weights from them, next to API requests that record an outcome by *)
(* hand and the rollback of the weights.                                   *)
(*                                                                         *)
(* Outcomes live in a transactional table (PostgreSQL, READ COMMITTED, one *)
(* row per prediction); the weight vector lives in the shared cache, which *)
(* no transaction covers.  A weight vector is kept by its lineage: the     *)
(* rollback it descends from and the outcomes it was tuned with.           *)
(***************************************************************************)
EXTENDS Naturals, FiniteSets

CONSTANTS
    Predictions,    \* full-agent "worldcup" predictions, one per match
    Decisive,       \* those whose match is not drawn: their outcome has a label
    Learners,       \* sessions running autonomous_learn (scheduler, cron, auto-tune)
    Recorders,      \* sessions running POST /predictions/{id}/outcome
    MaxRollbacks,   \* bound on rollback requests
    MaxFaults,      \* bound on sessions lost to a crash or a database error
    None

ASSUME LoopAssumption ==
    /\ Decisive \subseteq Predictions
    /\ Learners \cap Recorders = {}
    /\ None \notin Predictions
    /\ None \notin [epoch: Nat, evidence: SUBSET Predictions]
    /\ MaxRollbacks \in Nat
    /\ MaxFaults \in Nat

VARIABLES
    predictions,  \* rows of table predictions
    finished,     \* matches the results feed reports FINISHED
    outcomes,     \* committed rows of table outcomes
    weights,      \* cache entry "orchestration:weights", None when absent
    rollbacks,    \* rollback requests so far
    faults,       \* sessions lost so far
    pc,           \* where each session is
    results,      \* the finished_results() a learner works from
    todo,         \* prediction rows a learner has yet to examine
    cur,          \* the prediction whose outcome a session is recording
    inserts,      \* outcome rows a session inserted and has not committed
    updates,      \* outcome rows a session rewrote and has not committed
    evidence,     \* labelled outcomes a learner computed the accuracy from
    base,         \* the weight vector a learner read before adjusting it
    overlapped,   \* history: a rollback came between the read of a learned
                  \* vector and the publication of its successor
    torn          \* history: a session was lost between publish and commit

Sessions == Learners \cup Recorders

Row == [pred: Predictions, actual: {"feed", "human"}, writer: Sessions]

Lineage == [epoch: Nat, evidence: SUBSET Predictions]

db == <<predictions, finished, outcomes>>
loop == <<results, todo, cur, inserts, updates, evidence, base>>
vars == <<predictions, finished, outcomes, weights, rollbacks, faults, pc,
          results, todo, cur, inserts, updates, evidence, base, overlapped, torn>>

PredsOf(rows) == {r.pred : r \in rows}

\* What a query of session s returns: committed rows and the session's own.
Visible(s) ==
    {r \in outcomes : r.pred \notin PredsOf(updates[s])} \cup inserts[s] \cup updates[s]

Recorded(p) == p \in PredsOf(outcomes)

Writes(s, p) == p \in PredsOf(inserts[s] \cup updates[s])

\* A flush waits while another transaction holds the row, or its unique key.
WaitsFor(s, t) ==
    /\ s # t
    /\ pc[s] \in {"insert", "update"}
    /\ Writes(t, cur[s])

Blocked(s) == \E t \in Sessions : WaitsFor(s, t)

\* s is on a cycle of waiting sessions (each waits for the one holder).
Deadlocked(s) ==
    \E C \in SUBSET Sessions :
        /\ s \in C
        /\ \A t \in C : /\ \E u \in C : WaitsFor(t, u)
                        /\ \E u \in C : WaitsFor(u, t)

\* Mutated form of ActualOf: a result without a score is ingested as it is.
ActualOfUnscored(s) == IF s \in Learners THEN None ELSE "human"

\* The result a session records: what the feed says, or what the caller says.
ActualOf(s) == IF s \in Learners THEN "feed" ELSE "human"

\* After one record_outcome a learner goes on with its rows; a request is done.
AfterRecord(s) == IF s \in Learners THEN "rows" ELSE "commit"

Init ==
    /\ predictions = {}
    /\ finished = {}
    /\ outcomes = {}
    /\ weights = None
    /\ rollbacks = 0
    /\ faults = 0
    /\ pc = [s \in Sessions |-> "idle"]
    /\ results = [s \in Sessions |-> {}]
    /\ todo = [s \in Sessions |-> {}]
    /\ cur = [s \in Sessions |-> None]
    /\ inserts = [s \in Sessions |-> {}]
    /\ updates = [s \in Sessions |-> {}]
    /\ evidence = [s \in Sessions |-> {}]
    /\ base = [s \in Sessions |-> None]
    /\ overlapped = FALSE
    /\ torn = FALSE

-----------------------------------------------------------------------------
(* The world: predictions are requested, matches end.                      *)

Predict(p) ==
    /\ p \notin predictions
    /\ predictions' = predictions \cup {p}
    /\ UNCHANGED <<finished, outcomes, weights, rollbacks, faults, pc, loop, overlapped, torn>>

Finish(p) ==
    /\ p \notin finished
    /\ finished' = finished \cup {p}
    /\ UNCHANGED <<predictions, outcomes, weights, rollbacks, faults, pc, loop, overlapped, torn>>

-----------------------------------------------------------------------------
(* autonomous_learn: ingest_worldcup_outcomes, then recalculate_weights.   *)

StartLearn(s) ==
    /\ pc[s] = "idle"
    /\ pc' = [pc EXCEPT ![s] = "rows"]
    /\ results' = [results EXCEPT ![s] = finished]
    /\ todo' = [todo EXCEPT ![s] = IF finished = {} THEN {} ELSE predictions]
    /\ UNCHANGED <<db, weights, rollbacks, faults, cur, inserts, updates, evidence, base,
                   overlapped, torn>>

\* Mutated form of NeedsOutcome: a correctly paired result is not found.
NeedsOutcomeUnpaired(s, p) == p \notin PredsOf(Visible(s)) /\ p \notin results[s]

\* pred.outcome is None and the feed knows the result of the match.
NeedsOutcome(s, p) == p \notin PredsOf(Visible(s)) /\ p \in results[s]

ExamineRow(s, p) ==
    /\ pc[s] = "rows"
    /\ p \in todo[s]
    /\ todo' = [todo EXCEPT ![s] = @ \ {p}]
    /\ IF NeedsOutcome(s, p)
         THEN /\ pc' = [pc EXCEPT ![s] = "lookup"]
              /\ cur' = [cur EXCEPT ![s] = p]
         ELSE UNCHANGED <<pc, cur>>
    /\ UNCHANGED <<db, weights, rollbacks, faults, results, inserts, updates, evidence, base,
                   overlapped, torn>>

\* Mutated form of Observed: the feed is learnt from, recorded or not.
ObservedFed(s) == Decisive \cap (PredsOf(Visible(s)) \cup results[s])

\* Mutated form of Observed: only the outcomes of this very pass are learnt.
ObservedOwn(s) == Decisive \cap PredsOf(inserts[s])

\* The labelled observations of _agent_observations.
Observed(s) == Decisive \cap PredsOf(Visible(s))

\* No labelled outcome: agent_accuracy is empty and the weights stay alone.
Observe(s) ==
    /\ pc[s] = "rows"
    /\ todo[s] = {}
    /\ evidence' = [evidence EXCEPT ![s] = Observed(s)]
    /\ results' = [results EXCEPT ![s] = {}]
    /\ pc' = [pc EXCEPT ![s] = IF Observed(s) = {} THEN "commit" ELSE "read"]
    /\ UNCHANGED <<db, weights, rollbacks, faults, todo, cur, inserts, updates, base,
                   overlapped, torn>>

\* WeightManager.current: the cached vector, None for the configured defaults.
ReadBase(s) ==
    /\ pc[s] = "read"
    /\ base' = [base EXCEPT ![s] = weights]
    /\ pc' = [pc EXCEPT ![s] = "publish"]
    /\ UNCHANGED <<db, weights, rollbacks, faults, results, todo, cur, inserts, updates, evidence,
                   overlapped, torn>>

\* The vector adjusted from b: a first step away from the defaults belongs to
\* the time after the latest rollback, a further step to the time of b.
Nudged(b, labels) ==
    IF b = None THEN [epoch |-> rollbacks, evidence |-> labels]
                ELSE [b EXCEPT !.evidence = @ \cup labels]

\* adjust_from_accuracy ends in cache.set, before the session commits.
Publish(s) ==
    /\ pc[s] = "publish"
    /\ weights' = Nudged(base[s], evidence[s])
    /\ evidence' = [evidence EXCEPT ![s] = {}]
    /\ base' = [base EXCEPT ![s] = None]
    /\ pc' = [pc EXCEPT ![s] = "commit"]
    /\ UNCHANGED <<db, rollbacks, faults, results, todo, cur, inserts, updates, overlapped, torn>>

-----------------------------------------------------------------------------
(* record_outcome, called by the loop above and by the outcome route.      *)

StartRecord(s, p) ==
    /\ pc[s] = "idle"
    /\ p \in predictions
    /\ pc' = [pc EXCEPT ![s] = "lookup"]
    /\ cur' = [cur EXCEPT ![s] = p]
    /\ UNCHANGED <<db, weights, rollbacks, faults, results, todo, inserts, updates, evidence, base,
                   overlapped, torn>>

Existing(s) == {r \in Visible(s) : r.pred = cur[s]}

SaysAlready(s) == \A r \in Existing(s) : r.actual = ActualOf(s)

\* for_prediction.  A row that already says the same is flushed as no change.
LookupExisting(s) ==
    /\ pc[s] = "lookup"
    /\ pc' = [pc EXCEPT ![s] = IF Existing(s) = {} THEN "insert"
                               ELSE IF SaysAlready(s) THEN AfterRecord(s)
                               ELSE "update"]
    /\ IF Existing(s) # {} /\ SaysAlready(s)
         THEN cur' = [cur EXCEPT ![s] = None]
         ELSE UNCHANGED cur
    /\ UNCHANGED <<db, weights, rollbacks, faults, results, todo, inserts, updates, evidence, base,
                   overlapped, torn>>

\* Mutated form of KeyTaken: outcomes.prediction_id is not unique.
KeyTakenNever(p) == FALSE

\* The unique constraint on outcomes.prediction_id.
KeyTaken(p) == Recorded(p)

InsertOutcome(s) ==
    /\ pc[s] = "insert"
    /\ ~Blocked(s)
    /\ ~KeyTaken(cur[s])
    /\ inserts' = [inserts EXCEPT ![s] = @ \cup
            {[pred |-> cur[s], actual |-> ActualOf(s), writer |-> s]}]
    /\ cur' = [cur EXCEPT ![s] = None]
    /\ pc' = [pc EXCEPT ![s] = AfterRecord(s)]
    /\ UNCHANGED <<db, weights, rollbacks, faults, results, todo, updates, evidence, base,
                   overlapped, torn>>

UpdateOutcome(s) ==
    /\ pc[s] = "update"
    /\ ~Blocked(s)
    /\ updates' = [updates EXCEPT ![s] = @ \cup
            {[r EXCEPT !.actual = ActualOf(s)] : r \in {o \in outcomes : o.pred = cur[s]}}]
    /\ cur' = [cur EXCEPT ![s] = None]
    /\ pc' = [pc EXCEPT ![s] = AfterRecord(s)]
    /\ UNCHANGED <<db, weights, rollbacks, faults, results, todo, inserts, evidence, base,
                   overlapped, torn>>

-----------------------------------------------------------------------------
(* The end of a session.                                                   *)

Commit(s) ==
    /\ pc[s] = "commit"
    /\ outcomes' = Visible(s)
    /\ inserts' = [inserts EXCEPT ![s] = {}]
    /\ updates' = [updates EXCEPT ![s] = {}]
    /\ pc' = [pc EXCEPT ![s] = "idle"]
    /\ UNCHANGED <<predictions, finished, weights, rollbacks, faults, results, todo, cur, evidence,
                   base, overlapped, torn>>

\* session.rollback / close: the transaction's rows are gone, the cache is not.
Abandon(s) ==
    /\ inserts' = [inserts EXCEPT ![s] = {}]
    /\ updates' = [updates EXCEPT ![s] = {}]
    /\ results' = [results EXCEPT ![s] = {}]
    /\ todo' = [todo EXCEPT ![s] = {}]
    /\ cur' = [cur EXCEPT ![s] = None]
    /\ evidence' = [evidence EXCEPT ![s] = {}]
    /\ base' = [base EXCEPT ![s] = None]
    /\ pc' = [pc EXCEPT ![s] = "idle"]
    /\ UNCHANGED <<db, weights, rollbacks, overlapped>>

\* The insert meets a row committed meanwhile: IntegrityError ends the session.
IntegrityError(s) ==
    /\ pc[s] = "insert"
    /\ ~Blocked(s)
    /\ KeyTaken(cur[s])
    /\ Abandon(s)
    /\ UNCHANGED <<faults, torn>>

\* The database breaks a cycle of waiting transactions by failing one of them.
DeadlockVictim(s) ==
    /\ Deadlocked(s)
    /\ Abandon(s)
    /\ UNCHANGED <<faults, torn>>

\* The process dies, a query fails, or the commit itself fails.
Fail(s) ==
    /\ pc[s] # "idle"
    /\ faults < MaxFaults
    /\ faults' = faults + 1
    /\ torn' = (torn \/ (s \in Learners /\ pc[s] = "commit"))
    /\ Abandon(s)

-----------------------------------------------------------------------------
(* The cache entry without a session.                                      *)

\* Mutated form of AfterReset: reset forgets to delete the cached vector.
AfterResetKept == weights

AfterReset == None

RollbackWeights ==
    /\ rollbacks < MaxRollbacks
    /\ rollbacks' = rollbacks + 1
    /\ weights' = AfterReset
    /\ overlapped' = (overlapped \/ \E s \in Learners : pc[s] = "publish" /\ base[s] # None)
    /\ UNCHANGED <<db, faults, pc, loop, torn>>

\* The entry's 86 400 seconds are over.
ExpireWeights ==
    /\ weights # None
    /\ weights' = None
    /\ UNCHANGED <<db, rollbacks, faults, pc, loop, overlapped, torn>>

-----------------------------------------------------------------------------

Flush(s) == InsertOutcome(s) \/ UpdateOutcome(s) \/ IntegrityError(s)

Record(s) == LookupExisting(s) \/ Flush(s) \/ DeadlockVictim(s) \/ Commit(s)

Learn(s) ==
    \/ Observe(s) \/ ReadBase(s) \/ Publish(s)
    \/ \E p \in Predictions : ExamineRow(s, p)

Next ==
    \/ \E p \in Predictions : Predict(p) \/ Finish(p)
    \/ \E s \in Learners : StartLearn(s) \/ Learn(s)
    \/ \E s \in Recorders, p \in Predictions : StartRecord(s, p)
    \/ \E s \in Sessions : Record(s) \/ Fail(s)
    \/ RollbackWeights
    \/ ExpireWeights

Spec == Init /\ [][Next]_vars

\* The scheduler loop starts a pass again and again, and a started session
\* takes its next step once the lock it waits for is free.  Nobody has to
\* predict, record, roll back or fail.
Fairness ==
    /\ \A s \in Learners : WF_vars(StartLearn(s)) /\ WF_vars(Learn(s))
    /\ \A s \in Sessions : WF_vars(Record(s))

FairSpec == Spec /\ Fairness

-----------------------------------------------------------------------------
(* Properties.                                                             *)

TypeOK ==
    /\ predictions \subseteq Predictions
    /\ finished \subseteq Predictions
    /\ outcomes \subseteq Row
    /\ weights \in Lineage \cup {None}
    /\ rollbacks \in Nat
    /\ faults \in Nat
    /\ pc \in [Sessions ->
               {"idle", "rows", "lookup", "insert", "update", "read", "publish", "commit"}]
    /\ results \in [Sessions -> SUBSET Predictions]
    /\ todo \in [Sessions -> SUBSET Predictions]
    /\ cur \in [Sessions -> Predictions \cup {None}]
    /\ inserts \in [Sessions -> SUBSET Row]
    /\ updates \in [Sessions -> SUBSET Row]
    /\ evidence \in [Sessions -> SUBSET Predictions]
    /\ base \in [Sessions -> Lineage \cup {None}]
    /\ overlapped \in BOOLEAN
    /\ torn \in BOOLEAN

\* A prediction is counted once: however passes and requests interleave their
\* check-then-insert, no two committed outcomes belong to one prediction
\* (record_outcome, outcomes.prediction_id UNIQUE).
OneOutcomePerPrediction ==
    \A r1, r2 \in outcomes : r1.pred = r2.pred => r1 = r2

\* The cached weights rest on outcomes that are committed or still being
\* committed; only a session lost between its cache write and its commit
\* leaves weights tuned with outcomes the database never kept.
EvidenceDurable ==
    (weights # None /\ ~torn) =>
        weights.evidence \subseteq
            PredsOf(outcomes \cup UNION {inserts[s] \cup updates[s] : s \in Sessions})

\* A rollback with no learner between its read and its write is final: the
\* weights in the cache then never descend from before it (rollback_weights).
RollbackHoldsUnlessOverlapped ==
    weights # None => (weights.epoch = rollbacks \/ overlapped)

\* The database kills finitely many passes to break a deadlock: passes take
\* seconds and start hours apart, but nothing in the code forbids a livelock
\* (the rows of a pass have no ORDER BY), so this is a premise, not a promise.
CollisionsCease == <>[][\A s \in Learners : ~DeadlockVictim(s)]_vars

\* No human needed: the result of a finished, predicted match ends up in
\* outcomes although passes collide, abort each other or are lost.
FinishedIsIngested ==
    CollisionsCease =>
        \A p \in Predictions : (p \in finished /\ p \in predictions) ~> Recorded(p)

\* A labelled outcome is always part of the weights again, whatever lost
\* updates, rollbacks and expiries remove it in between.
OutcomeIsLearned ==
    CollisionsCease =>
        \A p \in Decisive : Recorded(p) ~> (weights # None /\ p \in weights.evidence)
=============================================================================
