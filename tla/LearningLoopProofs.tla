------------------------- MODULE LearningLoopProofs -------------------------
(***************************************************************************)
(* Proofs about LearningLoop, for every set of predictions and sessions    *)
(* and every bound.  The three safety invariants of the model follow from  *)
(* one inductive invariant, Inductive.                                     *)
(***************************************************************************)
EXTENDS LearningLoop, TLAPS

Pending(s) == inserts[s] \cup updates[s]

\* What holds of a session between its steps: an idle one has written nothing,
\* one about to write has not written that prediction yet, and a base is held
\* by a learner that is about to publish.
SessionInv ==
    \A s \in Sessions :
        /\ pc[s] = "idle" => Pending(s) = {}
        /\ pc[s] \in {"lookup", "insert", "update"} =>
               cur[s] \in Predictions /\ ~Writes(s, cur[s])
        /\ base[s] # None => s \in Learners /\ pc[s] = "publish"

\* Uncommitted rows: no two of one prediction, within a session or across two,
\* and an inserted one has no committed counterpart.
RowInv ==
    /\ \A s, t \in Sessions : s # t =>
           \A r \in Pending(s), q \in Pending(t) : r.pred # q.pred
    /\ \A s \in Sessions : \A r, q \in Pending(s) : r.pred = q.pred => r = q
    /\ \A s \in Sessions : \A r \in inserts[s] : ~Recorded(r.pred)

\* Predictions whose outcome is committed, or written by a learner that has
\* published and has yet to commit.
Backed(p) ==
    \/ Recorded(p)
    \/ \E t \in Learners : pc[t] = "commit" /\ Writes(t, p)

\* Whatever entered the weights, or is about to, is backed.
EvidenceInv ==
    ~torn =>
        /\ weights # None => \A p \in weights.evidence : Backed(p)
        /\ \A s \in Sessions : base[s] # None => \A p \in base[s].evidence : Backed(p)
        /\ \A s \in Sessions : \A p \in evidence[s] :
               /\ pc[s] \in {"read", "publish"}
               /\ Recorded(p) \/ Writes(s, p)

\* Nothing learned before the latest rollback is cached or held.
EpochInv ==
    ~overlapped =>
        /\ weights # None => weights.epoch = rollbacks
        /\ \A s \in Sessions : base[s] # None => base[s].epoch = rollbacks

Inductive ==
    TypeOK /\ SessionInv /\ RowInv /\ OneOutcomePerPrediction /\ EvidenceInv /\ EpochInv

-----------------------------------------------------------------------------
(* Types                                                                   *)

\* Visible returns outcome rows.
LEMMA VisibleType ==
    ASSUME TypeOK, NEW s \in Sessions
    PROVE  Visible(s) \subseteq Row
  BY DEF TypeOK, Visible

\* Adjusting a vector, or the defaults, gives a vector.
LEMMA NudgedType ==
    ASSUME TypeOK, NEW b \in Lineage \cup {None}, NEW labels \in SUBSET Predictions
    PROVE  Nudged(b, labels) \in Lineage
  BY DEF TypeOK, Nudged, Lineage

\* Init establishes the type invariant.
LEMMA InitType == Init => TypeOK
<1> SUFFICES ASSUME Init PROVE TypeOK
  OBVIOUS
<1> USE DEF Init
<1>1. predictions \subseteq Predictions /\ finished \subseteq Predictions /\ outcomes \subseteq Row
  OBVIOUS
<1>2. weights \in Lineage \cup {None} /\ rollbacks \in Nat /\ faults \in Nat
  OBVIOUS
<1>3. pc \in [Sessions ->
         {"idle", "rows", "lookup", "insert", "update", "read", "publish", "commit"}]
  OBVIOUS
<1>4. results \in [Sessions -> SUBSET Predictions] /\ todo \in [Sessions -> SUBSET Predictions]
  OBVIOUS
<1>5. cur \in [Sessions -> Predictions \cup {None}]
  OBVIOUS
<1>6. inserts \in [Sessions -> SUBSET Row] /\ updates \in [Sessions -> SUBSET Row]
  OBVIOUS
<1>7. evidence \in [Sessions -> SUBSET Predictions]
  OBVIOUS
<1>8. base \in [Sessions -> Lineage \cup {None}]
  OBVIOUS
<1>9. overlapped \in BOOLEAN /\ torn \in BOOLEAN
  OBVIOUS
<1>10. QED
  BY <1>1, <1>2, <1>3, <1>4, <1>5, <1>6, <1>7, <1>8, <1>9 DEF TypeOK

\* A step keeps the type invariant where a session about to write knows what.
LEMMA StepType ==
    ASSUME TypeOK, SessionInv, [Next]_vars
    PROVE  TypeOK'
<1> USE DEF TypeOK, db, loop
<1>1. CASE UNCHANGED vars
  BY <1>1 DEF vars
<1>2. ASSUME NEW p \in Predictions, Predict(p) \/ Finish(p) PROVE TypeOK'
  BY <1>2 DEF Predict, Finish
<1>3. ASSUME NEW s \in Learners, StartLearn(s) PROVE TypeOK'
  BY <1>3 DEF StartLearn, Sessions
<1>4. ASSUME NEW s \in Learners, NEW p \in Predictions, ExamineRow(s, p) PROVE TypeOK'
  BY <1>4 DEF ExamineRow, Sessions
<1>5. ASSUME NEW s \in Learners, Observe(s) PROVE TypeOK'
  BY <1>5, LoopAssumption DEF LoopAssumption, Observe, Observed, Sessions
<1>6. ASSUME NEW s \in Learners, ReadBase(s) PROVE TypeOK'
  BY <1>6 DEF ReadBase, Sessions
<1>7. ASSUME NEW s \in Learners, Publish(s) PROVE TypeOK'
  <2>1. Nudged(base[s], evidence[s]) \in Lineage
    BY NudgedType DEF Sessions
  <2>2. QED
    BY <1>7, <2>1 DEF Publish, Sessions
<1>8. ASSUME NEW s \in Recorders, NEW p \in Predictions, StartRecord(s, p) PROVE TypeOK'
  BY <1>8 DEF StartRecord, Sessions
<1>9. ASSUME NEW s \in Sessions, LookupExisting(s) PROVE TypeOK'
  BY <1>9 DEF LookupExisting, AfterRecord
<1>10. ASSUME NEW s \in Sessions, InsertOutcome(s) PROVE TypeOK'
  <2>1. [pred |-> cur[s], actual |-> ActualOf(s), writer |-> s] \in Row
    BY <1>10 DEF InsertOutcome, SessionInv, ActualOf, Row
  <2>2. QED
    BY <1>10, <2>1 DEF InsertOutcome, AfterRecord
<1>11. ASSUME NEW s \in Sessions, UpdateOutcome(s) PROVE TypeOK'
  <2>1. {[r EXCEPT !.actual = ActualOf(s)] : r \in {o \in outcomes : o.pred = cur[s]}}
            \subseteq Row
    BY DEF ActualOf, Row
  <2>2. QED
    BY <1>11, <2>1 DEF UpdateOutcome, AfterRecord
<1>12. ASSUME NEW s \in Sessions, Commit(s) PROVE TypeOK'
  BY <1>12, VisibleType DEF Commit
<1>13. ASSUME NEW s \in Sessions, Abandon(s), faults' \in Nat, torn' \in BOOLEAN PROVE TypeOK'
  BY <1>13 DEF Abandon
<1>14. ASSUME NEW s \in Sessions, IntegrityError(s) \/ DeadlockVictim(s) \/ Fail(s) PROVE TypeOK'
  <2>1. CASE IntegrityError(s) \/ DeadlockVictim(s)
    BY <1>13, <2>1 DEF IntegrityError, DeadlockVictim
  <2>2. CASE Fail(s)
    <3>1. faults' \in Nat
      BY <2>2 DEF Fail
    <3>2. torn' \in BOOLEAN
      BY <2>2, Zenon DEF Fail
    <3>3. QED
      BY <1>13, <2>2, <3>1, <3>2 DEF Fail
  <2>3. QED
    BY <1>14, <2>1, <2>2
<1>15. CASE RollbackWeights
  BY <1>15 DEF RollbackWeights, AfterReset
<1>16. CASE ExpireWeights
  BY <1>16 DEF ExpireWeights
<1>17. QED
  BY <1>1, <1>2, <1>3, <1>4, <1>5, <1>6, <1>7, <1>8, <1>9, <1>10, <1>11, <1>12, <1>14,
     <1>15, <1>16 DEF Next, Learn, Record, Flush

-----------------------------------------------------------------------------
(* Sessions                                                                *)

\* A session that neither writes nor moves keeps its part of SessionInv.
LEMMA StepSession ==
    ASSUME TypeOK, SessionInv, [Next]_vars
    PROVE  SessionInv'
<1> USE DEF TypeOK, SessionInv, Pending, Writes, PredsOf, db, loop
<1>1. CASE UNCHANGED vars
  BY <1>1 DEF vars
<1>2. ASSUME NEW p \in Predictions, Predict(p) \/ Finish(p) PROVE SessionInv'
  BY <1>2 DEF Predict, Finish
<1>3. ASSUME NEW s \in Learners, StartLearn(s) PROVE SessionInv'
  BY <1>3 DEF StartLearn, Sessions
<1>4. ASSUME NEW s \in Learners, NEW p \in Predictions, ExamineRow(s, p) PROVE SessionInv'
  BY <1>4 DEF ExamineRow, NeedsOutcome, Visible, Sessions
<1>5. ASSUME NEW s \in Learners, Observe(s) PROVE SessionInv'
  BY <1>5 DEF Observe, Sessions
<1>6. ASSUME NEW s \in Learners, ReadBase(s) PROVE SessionInv'
  BY <1>6 DEF ReadBase, Sessions
<1>7. ASSUME NEW s \in Learners, Publish(s) PROVE SessionInv'
  BY <1>7 DEF Publish, Sessions
<1>8. ASSUME NEW s \in Recorders, NEW p \in Predictions, StartRecord(s, p) PROVE SessionInv'
  BY <1>8 DEF StartRecord, Sessions
<1>9. ASSUME NEW s \in Sessions, LookupExisting(s) PROVE SessionInv'
  BY <1>9 DEF LookupExisting, AfterRecord
<1>10. ASSUME NEW s \in Sessions, InsertOutcome(s) PROVE SessionInv'
  BY <1>10 DEF InsertOutcome, AfterRecord
<1>11. ASSUME NEW s \in Sessions, UpdateOutcome(s) PROVE SessionInv'
  BY <1>11 DEF UpdateOutcome, AfterRecord
<1>12. ASSUME NEW s \in Sessions, Commit(s) PROVE SessionInv'
  BY <1>12 DEF Commit
<1>13. ASSUME NEW s \in Sessions, Abandon(s) PROVE SessionInv'
  BY <1>13 DEF Abandon
<1>14. ASSUME NEW s \in Sessions, IntegrityError(s) \/ DeadlockVictim(s) \/ Fail(s)
       PROVE SessionInv'
  BY <1>13, <1>14 DEF IntegrityError, DeadlockVictim, Fail
<1>15. CASE RollbackWeights
  BY <1>15 DEF RollbackWeights
<1>16. CASE ExpireWeights
  BY <1>16 DEF ExpireWeights
<1>17. QED
  BY <1>1, <1>2, <1>3, <1>4, <1>5, <1>6, <1>7, <1>8, <1>9, <1>10, <1>11, <1>12, <1>14,
     <1>15, <1>16 DEF Next, Learn, Record, Flush

-----------------------------------------------------------------------------
(* Rows                                                                    *)

\* Only an insert, an update, a commit and the end of a failed session touch
\* rows: every other step leaves the three row variables alone.
LEMMA RowSteps ==
    ASSUME [Next]_vars
    PROVE  \/ UNCHANGED <<outcomes, inserts, updates>>
           \/ \E s \in Sessions :
                  InsertOutcome(s) \/ UpdateOutcome(s) \/ Commit(s) \/ Abandon(s)
  BY DEF Next, Learn, Record, Flush, vars, db, loop, Predict, Finish, StartLearn, ExamineRow,
         Observe, ReadBase, Publish, StartRecord, LookupExisting, IntegrityError,
         DeadlockVictim, Fail, RollbackWeights, ExpireWeights

\* No two outcomes of one prediction: kept by the wait for the other session's
\* uncommitted row together with the unique constraint at the flush.
LEMMA StepRows ==
    ASSUME TypeOK, SessionInv, RowInv, OneOutcomePerPrediction, [Next]_vars
    PROVE  RowInv' /\ OneOutcomePerPrediction'
<1> USE DEF TypeOK, RowInv, OneOutcomePerPrediction, Pending, Recorded, PredsOf
<1>1. CASE UNCHANGED <<outcomes, inserts, updates>>
  BY <1>1
<1>2. ASSUME NEW s \in Sessions, InsertOutcome(s)
      PROVE  RowInv' /\ OneOutcomePerPrediction'
  <2>1. \A t \in Sessions : t # s => ~Writes(t, cur[s])
    BY <1>2 DEF InsertOutcome, Blocked, WaitsFor
  <2>2. ~Writes(s, cur[s]) /\ ~Recorded(cur[s])
    BY <1>2 DEF InsertOutcome, SessionInv, KeyTaken
  <2>3. QED
    BY <1>2, <2>1, <2>2 DEF InsertOutcome, Writes, db
<1>3. ASSUME NEW s \in Sessions, UpdateOutcome(s)
      PROVE  RowInv' /\ OneOutcomePerPrediction'
  <2> DEFINE new == {[r EXCEPT !.actual = ActualOf(s)] : r \in {o \in outcomes : o.pred = cur[s]}}
  <2>1. \A t \in Sessions : t # s => ~Writes(t, cur[s])
    BY <1>3 DEF UpdateOutcome, Blocked, WaitsFor
  <2>2. ~Writes(s, cur[s])
    BY <1>3 DEF UpdateOutcome, SessionInv
  <2>3. /\ \A r \in new : r.pred = cur[s]
        /\ \A r, q \in new : r = q
    BY DEF Row
  <2>4. updates' = [updates EXCEPT ![s] = @ \cup new] /\ UNCHANGED <<outcomes, inserts>>
    BY <1>3 DEF UpdateOutcome, db
  <2> HIDE DEF new
  <2>5. QED
    BY <2>1, <2>2, <2>3, <2>4 DEF Writes
<1>4. ASSUME NEW s \in Sessions, Commit(s)
      PROVE  RowInv' /\ OneOutcomePerPrediction'
  BY <1>4 DEF Commit, Visible
<1>5. ASSUME NEW s \in Sessions, Abandon(s)
      PROVE  RowInv' /\ OneOutcomePerPrediction'
  BY <1>5 DEF Abandon, db
<1>6. QED
  BY <1>1, <1>2, <1>3, <1>4, <1>5, RowSteps

-----------------------------------------------------------------------------
(* Evidence                                                                *)

\* What is backed stays backed, except by the session lost between its
\* publication and its commit: that session sets torn.
LEMMA BackedStays ==
    ASSUME TypeOK, SessionInv, [Next]_vars, ~torn', NEW p, Backed(p)
    PROVE  Backed(p)'
<1> USE DEF TypeOK, SessionInv, Backed, Recorded, Writes, PredsOf, Pending, Sessions, db, loop
<1>1. CASE UNCHANGED <<outcomes, inserts, updates, pc>>
  BY <1>1
<1>2. ASSUME NEW s \in Learners, StartLearn(s) \/ Learn(s) PROVE Backed(p)'
  BY <1>2 DEF StartLearn, Learn, ExamineRow, Observe, ReadBase, Publish
<1>3. ASSUME NEW s \in Recorders, NEW q \in Predictions, StartRecord(s, q) PROVE Backed(p)'
  BY <1>3 DEF StartRecord
<1>4. ASSUME NEW s \in Sessions, LookupExisting(s) \/ InsertOutcome(s) \/ UpdateOutcome(s)
      PROVE  Backed(p)'
  BY <1>4 DEF LookupExisting, InsertOutcome, UpdateOutcome
<1>5. ASSUME NEW s \in Sessions, Commit(s) PROVE Backed(p)'
  BY <1>5 DEF Commit, Visible
<1>6. ASSUME NEW s \in Sessions, IntegrityError(s) \/ DeadlockVictim(s) PROVE Backed(p)'
  BY <1>6 DEF IntegrityError, DeadlockVictim, Deadlocked, WaitsFor, Abandon
<1>7. ASSUME NEW s \in Sessions, Fail(s) PROVE Backed(p)'
  BY <1>7 DEF Fail, Abandon
<1>8. CASE \/ \E q \in Predictions : Predict(q) \/ Finish(q)
           \/ RollbackWeights \/ ExpireWeights \/ UNCHANGED vars
  BY <1>1, <1>8 DEF Predict, Finish, RollbackWeights, ExpireWeights, vars
<1>9. QED
  BY <1>2, <1>3, <1>4, <1>5, <1>6, <1>7, <1>8 DEF Next, Record, Flush

\* Every step but a learner's own leaves a learner's observations in place.
LEMMA StepEvidence ==
    ASSUME TypeOK, SessionInv, EvidenceInv, [Next]_vars
    PROVE  EvidenceInv'
<1> SUFFICES ASSUME ~torn' PROVE EvidenceInv'
  BY DEF EvidenceInv
<1>1. ~torn
  BY DEF Next, vars, db, loop, Learn, Record, Flush, Predict, Finish, StartLearn, ExamineRow,
         Observe, ReadBase, Publish, StartRecord, LookupExisting, InsertOutcome, UpdateOutcome,
         Commit, IntegrityError, DeadlockVictim, Fail, RollbackWeights, ExpireWeights
<1>2. \A p : Backed(p) => Backed(p)'
  BY BackedStays
<1> USE <1>1, <1>2 DEF TypeOK, EvidenceInv, db, loop, Sessions
<1>3. CASE UNCHANGED <<weights, base, evidence, pc, outcomes, inserts, updates>>
  BY <1>3 DEF Recorded, Writes
<1>4. ASSUME NEW s \in Learners, StartLearn(s) PROVE EvidenceInv'
  BY <1>4 DEF StartLearn, Recorded, Writes
<1>5. ASSUME NEW s \in Learners, NEW q \in Predictions, ExamineRow(s, q) PROVE EvidenceInv'
  BY <1>5 DEF ExamineRow, Recorded, Writes
<1>6. ASSUME NEW s \in Learners, Observe(s) PROVE EvidenceInv'
  BY <1>6 DEF Observe, Observed, Visible, Recorded, Writes, PredsOf
<1>7. ASSUME NEW s \in Learners, ReadBase(s) PROVE EvidenceInv'
  BY <1>7 DEF ReadBase, Recorded, Writes
<1>8. ASSUME NEW s \in Learners, Publish(s) PROVE EvidenceInv'
  <2>1. \A p \in evidence[s] : Backed(p)'
    BY <1>8 DEF Publish, Backed, Recorded, Writes
  <2>2. \A p \in weights'.evidence : Backed(p)'
    BY <1>8, <2>1 DEF Publish, Nudged, Lineage
  <2>3. QED
    BY <1>8, <2>2 DEF Publish, Recorded, Writes
<1>9. ASSUME NEW s \in Recorders, NEW q \in Predictions, StartRecord(s, q) PROVE EvidenceInv'
  BY <1>9 DEF StartRecord, Recorded, Writes
<1>10. ASSUME NEW s \in Sessions, LookupExisting(s) \/ InsertOutcome(s) \/ UpdateOutcome(s)
       PROVE  EvidenceInv'
  BY <1>10 DEF LookupExisting, InsertOutcome, UpdateOutcome, Recorded, Writes, PredsOf
<1>11. ASSUME NEW s \in Sessions, Commit(s) PROVE EvidenceInv'
  BY <1>11 DEF Commit, Visible, Recorded, Writes, PredsOf
<1>12. ASSUME NEW s \in Sessions, Abandon(s) PROVE EvidenceInv'
  BY <1>12 DEF Abandon, Recorded, Writes, PredsOf
<1>13. CASE RollbackWeights \/ ExpireWeights
  BY <1>13 DEF RollbackWeights, AfterReset, ExpireWeights, Recorded, Writes
<1>14. CASE UNCHANGED vars \/ \E q \in Predictions : Predict(q) \/ Finish(q)
  BY <1>3, <1>14 DEF vars, Predict, Finish
<1>15. QED
  BY <1>4, <1>5, <1>6, <1>7, <1>8, <1>9, <1>10, <1>11, <1>12, <1>13, <1>14
     DEF Next, Learn, Record, Flush, IntegrityError, DeadlockVictim, Fail

-----------------------------------------------------------------------------
(* Epochs                                                                  *)

\* A rollback while a learned vector is held sets overlapped; otherwise every
\* lineage, cached or held, belongs to the time after the latest rollback.
LEMMA StepEpoch ==
    ASSUME TypeOK, SessionInv, EpochInv, [Next]_vars
    PROVE  EpochInv'
<1> USE DEF TypeOK, EpochInv, db, loop, Sessions
<1>1. CASE UNCHANGED <<weights, base, rollbacks, overlapped>>
  BY <1>1
<1>2. ASSUME NEW s \in Learners, ReadBase(s) PROVE EpochInv'
  BY <1>2 DEF ReadBase
<1>3. ASSUME NEW s \in Learners, Publish(s) PROVE EpochInv'
  BY <1>3 DEF Publish, Nudged, Lineage
<1>4. ASSUME NEW s \in Sessions, Abandon(s) PROVE EpochInv'
  BY <1>4 DEF Abandon
<1>5. CASE RollbackWeights
  BY <1>5 DEF RollbackWeights, AfterReset, SessionInv
<1>6. CASE ExpireWeights
  BY <1>6 DEF ExpireWeights
<1>7. \/ UNCHANGED <<weights, base, rollbacks, overlapped>>
      \/ \E s \in Learners : ReadBase(s) \/ Publish(s)
      \/ \E s \in Sessions : Abandon(s)
      \/ RollbackWeights \/ ExpireWeights
  BY DEF Next, vars, Learn, Record, Flush, Predict, Finish, StartLearn, ExamineRow, Observe,
         StartRecord, LookupExisting, InsertOutcome, UpdateOutcome, Commit, IntegrityError,
         DeadlockVictim, Fail
<1>8. QED
  BY <1>1, <1>2, <1>3, <1>4, <1>5, <1>6, <1>7

-----------------------------------------------------------------------------
(* Theorems                                                                *)

\* The inductive invariant holds of every behaviour of the learning loop.
THEOREM InductiveHolds == Spec => []Inductive
<1>1. Init => Inductive
  <2> SUFFICES ASSUME Init PROVE Inductive
    OBVIOUS
  <2>1. TypeOK
    BY InitType
  <2>2. SessionInv /\ RowInv /\ OneOutcomePerPrediction
    BY DEF Init, SessionInv, RowInv, OneOutcomePerPrediction, Pending
  <2>3. EvidenceInv /\ EpochInv
    BY DEF Init, EvidenceInv, EpochInv
  <2>4. QED
    BY <2>1, <2>2, <2>3 DEF Inductive
<1>2. Inductive /\ [Next]_vars => Inductive'
  BY StepType, StepSession, StepRows, StepEvidence, StepEpoch DEF Inductive
<1>3. QED
  BY <1>1, <1>2, PTL DEF Spec

\* Every variable of the loop keeps its type.
THEOREM TypeCorrect == Spec => []TypeOK
  BY InductiveHolds, PTL DEF Inductive

\* However many passes and requests record the outcome of one prediction at
\* the same time, one row is committed (record_outcome).
THEOREM OutcomesAreUnique == Spec => []OneOutcomePerPrediction
  BY InductiveHolds, PTL DEF Inductive

\* Weights in the cache are tuned with outcomes the database keeps, unless a
\* session died between cache write and commit (_apply_accuracy_weighting).
THEOREM EvidenceIsDurable == Spec => []EvidenceDurable
<1>1. Inductive => EvidenceDurable
  BY DEF Inductive, EvidenceInv, EvidenceDurable, Backed, Recorded, Writes, PredsOf, Sessions
<1>2. QED
  BY <1>1, InductiveHolds, PTL

\* A rollback that meets no learner between its read and its write is final
\* (rollback_weights, WeightManager.reset).
THEOREM RollbackIsFinal == Spec => []RollbackHoldsUnlessOverlapped
<1>1. Inductive => RollbackHoldsUnlessOverlapped
  BY DEF Inductive, EpochInv, RollbackHoldsUnlessOverlapped
<1>2. QED
  BY <1>1, InductiveHolds, PTL
=============================================================================
