--------------------------- MODULE WorldCupProofs ---------------------------
(***************************************************************************)
(* Proofs about the World Cup: of the snapshots, that no match is          *)
(* evaluated with a prediction fitted to its own result and that what it   *)
(* is evaluated with does not change, for any matches, sessions, schedules *)
(* and interleavings; of the simulations, that real results are locked in, *)
(* that the bracket's field and seeding are sound, and that what is        *)
(* counted makes probabilities, for any feed, any number of groups and of  *)
(* thirds, a bracket of any depth and any number of simulations.           *)
(***************************************************************************)
EXTENDS Snapshots, Tournament, SumTheorems, SequenceTheorems

(***************************************************************************)
(*                              The snapshots.                             *)
(***************************************************************************)

Phases == {"idle", "persist", "calibrate", "publish"}

Draft == [utc : Nat, fit : SUBSET Matches, actual : BOOLEAN]

\* What the argument needs of the types.
FormInv ==
    /\ now \in Nat
    /\ kickoff \in [Matches -> Nat]
    /\ finished \subseteq Matches
    /\ rows \in [Matches -> Seq(Row)]
    /\ params \subseteq Matches
    /\ pc \in [Refreshers -> Phases]
    /\ DOMAIN draft = Refreshers
    /\ \A s \in Refreshers : pc[s] = "persist" => draft[s] \in [Matches -> Draft]
    /\ fit \in [Refreshers -> SUBSET Matches]

\* What a fit may rest on: matches that are over and have been seen to be.
Known == {m \in finished : HasActual(m)}

\* A match is over after its kickoff, and every fit is to matches that are known.
FitInv ==
    /\ \A m \in finished : now > kickoff[m]
    /\ params \subseteq Known
    /\ \A s \in Refreshers : fit[s] \subseteq Known

\* What a pass is about to persist for m.
DraftInv ==
    \A s \in Refreshers : pc[s] = "persist" =>
        \A m \in Matches :
            /\ draft[s][m].actual => m \in finished
            /\ draft[s][m].fit \subseteq Known
            /\ m \notin advanced => draft[s][m].utc <= kickoff[m]

\* A row that leaks is from after the kickoff and not the first one committed;
\* none has a kickoff later than the match's, unless that was moved forward.
RowInv(m, i) ==
    LET r == rows[m][i] IN
    /\ r.actual => m \in finished
    /\ m \in r.fit => /\ m \in finished /\ r.at > kickoff[m]
                      /\ \E j \in Snaps(m) : j < i
    /\ m \notin advanced /\ r.utc # None => r.utc <= kickoff[m]

RowsInv == \A m \in Matches : \A i \in DOMAIN rows[m] : RowInv(m, i)

Inv == FormInv /\ FitInv /\ DraftInv /\ RowsInv

-----------------------------------------------------------------------------
(* First and last elements of sets of positions.                           *)

LEMMA MinExists ==
    ASSUME NEW T \in SUBSET Nat, T # {}
    PROVE  Min(T) \in T /\ \A y \in T : Min(T) <= y
<1>1. \E x \in T : \A y \in T : x <= y
  BY LeastNat
<1>2. QED
  BY <1>1 DEF Min

LEMMA MaxExists ==
    ASSUME NEW n \in Nat, NEW T \in SUBSET (1..n), T # {}
    PROVE  Max(T) \in T /\ \A y \in T : Max(T) >= y
<1> DEFINE U == {n - x : x \in T}
<1>1. U \in SUBSET Nat /\ U # {}
  <2>1. \A x \in T : n - x \in Nat
    OBVIOUS
  <2>2. PICK x \in T : TRUE
    OBVIOUS
  <2>3. n - x \in U
    OBVIOUS
  <2>4. QED
    BY <2>1, <2>3
<1>2. PICK u \in U : \A v \in U : u <= v
  BY <1>1, MinExists
<1>3. n - u \in T /\ \A y \in T : n - u >= y
  <2>1. \A y \in T : n - y \in U
    OBVIOUS
  <2>2. QED
    BY <1>2, <2>1
<1>4. QED
  BY <1>3 DEF Max

\* The row that is evaluated, by its position.
Pick(m) == IF Before(m) = {} THEN Min(Snaps(m)) ELSE Max(Before(m))

LEMMA Picked ==
    ASSUME FormInv, NEW m \in Matches, Snaps(m) # {}
    PROVE  /\ Chosen(m) = rows[m][Pick(m)]
           /\ Min(Snaps(m)) \in Snaps(m)
           /\ \A j \in Snaps(m) : Min(Snaps(m)) <= j
           /\ Before(m) # {} => Pick(m) \in Before(m)
<1>1. rows[m] \in Seq(Row) /\ DOMAIN rows[m] = 1..Len(rows[m]) /\ Len(rows[m]) \in Nat
  BY DEF FormInv
<1>2. Snaps(m) \in SUBSET (1..Len(rows[m])) /\ Before(m) \in SUBSET (1..Len(rows[m]))
  BY <1>1 DEF Snaps, Before
<1>3. Snaps(m) \in SUBSET Nat
  BY <1>1, <1>2
<1>4. QED
  BY <1>1, <1>2, <1>3, MinExists, MaxExists DEF Chosen, Pick

-----------------------------------------------------------------------------
(* The invariant.                                                          *)

LEMMA InitInv == Init => Inv
<1> SUFFICES ASSUME Init PROVE Inv
  OBVIOUS
<1>1. FormInv
  BY SnapshotsAssumption DEF Init, FormInv, Phases
<1>2. FitInv /\ DraftInv
  BY DEF Init, FitInv, DraftInv
<1>3. RowsInv
  BY DEF Init, RowsInv
<1>4. QED
  BY <1>1, <1>2, <1>3 DEF Inv

\* Rows are added and become visible, and do not change otherwise.
Extended ==
    \A m \in Matches :
        /\ DOMAIN rows[m] \subseteq DOMAIN rows'[m]
        /\ \A i \in DOMAIN rows[m] :
               /\ rows'[m][i].at = rows[m][i].at /\ rows'[m][i].utc = rows[m][i].utc
               /\ rows'[m][i].fit = rows[m][i].fit /\ rows'[m][i].actual = rows[m][i].actual
               /\ rows[m][i].visible => rows'[m][i].visible

LEMMA KnownStays ==
    ASSUME FormInv, Extended, finished \subseteq finished'
    PROVE  /\ Known \subseteq Known'
           /\ \A m \in Matches : Snaps(m) \subseteq Snaps(m)'
<1>1. \A m \in Matches : Snaps(m) \subseteq Snaps(m)'
  BY DEF Extended, Snaps
<1>2. \A m \in Matches : HasActual(m) => HasActual(m)'
  BY <1>1 DEF Extended, Snaps, HasActual
<1>3. QED
  BY <1>1, <1>2 DEF Known, FormInv

LEMMA OldRows ==
    ASSUME Inv, Extended, finished \subseteq finished', UNCHANGED <<kickoff, advanced>>,
           NEW m \in Matches, NEW i \in DOMAIN rows[m]
    PROVE  RowInv(m, i)'
<1>1. RowInv(m, i) /\ Snaps(m) \subseteq Snaps(m)'
  BY KnownStays DEF Inv, RowsInv
<1>2. /\ rows'[m][i].at = rows[m][i].at /\ rows'[m][i].utc = rows[m][i].utc
      /\ rows'[m][i].fit = rows[m][i].fit /\ rows'[m][i].actual = rows[m][i].actual
  BY DEF Extended
<1>3. QED
  BY <1>1, <1>2 DEF RowInv

\* A step that leaves rows, results and schedule as they are.
LEMMA SameWorld ==
    ASSUME Inv, UNCHANGED <<now, kickoff, finished, rows, advanced>>, FormInv',
           params' \subseteq Known, \A s \in Refreshers : fit'[s] \subseteq Known, DraftInv'
    PROVE  Inv'
<1>1. Extended
  BY DEF Extended
<1>2. Known \subseteq Known'
  BY <1>1, KnownStays DEF Inv
<1>3. FitInv'
  BY <1>2 DEF Inv, FitInv
<1>4. RowsInv'
  BY <1>1, OldRows DEF RowsInv
<1>5. QED
  BY <1>3, <1>4 DEF Inv

LEMMA TickInv == ASSUME Inv, Tick PROVE Inv'
<1>1. Extended
  BY DEF Tick, Extended
<1>2. FormInv'
  BY DEF Tick, Inv, FormInv
<1>3. Known' = Known
  BY DEF Tick, Known, HasActual, Snaps
<1>4. FitInv' /\ DraftInv'
  BY <1>3 DEF Tick, Inv, FormInv, FitInv, DraftInv
<1>5. RowsInv'
  BY <1>1, OldRows DEF Tick, RowsInv
<1>6. QED
  BY <1>2, <1>4, <1>5 DEF Inv

LEMMA FinishMatchInv ==
    ASSUME Inv, NEW m \in Matches, FinishMatch(m)
    PROVE  Inv'
<1>1. Extended /\ finished \subseteq finished'
  BY DEF FinishMatch, Extended
<1>2. FormInv'
  BY DEF FinishMatch, counters, Inv, FormInv
<1>3. Known \subseteq Known'
  BY <1>1, KnownStays DEF Inv
<1>4. FitInv'
  BY <1>3 DEF FinishMatch, counters, Inv, FormInv, FitInv
<1>5. DraftInv'
  BY <1>1, <1>3 DEF FinishMatch, counters, Inv, DraftInv
<1>6. RowsInv'
  BY <1>1, OldRows DEF FinishMatch, RowsInv
<1>7. QED
  BY <1>2, <1>4, <1>5, <1>6 DEF Inv

\* A match that is rescheduled has not been played, and nothing was fitted to it.
LEMMA RescheduleInv ==
    ASSUME Inv, NEW m \in Matches, NEW k \in 0..MaxTime, Reschedule(m, k)
    PROVE  Inv'
<1>1. k \in Nat /\ m \notin finished
  BY SnapshotsAssumption DEF Reschedule, Inv, FormInv, FitInv
<1>2. FormInv'
  BY <1>1 DEF Reschedule, Inv, FormInv
<1>3. Known' = Known
  BY DEF Reschedule, Known, HasActual, Snaps
<1>4. FitInv'
  BY <1>1, <1>3 DEF Reschedule, Inv, FormInv, FitInv
<1>5. \A n \in Matches : n \notin advanced' => n \notin advanced /\ kickoff[n] <= kickoff'[n]
  BY <1>1 DEF Reschedule, Inv, FormInv
<1>6. \A n \in Matches \ {m} : kickoff'[n] = kickoff[n]
  BY DEF Reschedule, Inv, FormInv
<1>7. DraftInv'
  <2>1. \A s \in Refreshers : \A n \in Matches :
            pc[s] = "persist" => draft[s][n].utc \in Nat
    BY DEF Inv, FormInv, Draft
  <2>2. \A n \in Matches : kickoff[n] \in Nat /\ kickoff'[n] \in Nat
    BY <1>2 DEF Inv, FormInv
  <2>3. QED
    BY <1>3, <1>5, <2>1, <2>2 DEF Reschedule, Inv, DraftInv
<1>8. RowsInv'
  <2> SUFFICES ASSUME NEW n \in Matches, NEW i \in DOMAIN rows[n] PROVE RowInv(n, i)'
    BY DEF Reschedule, RowsInv
  <2>1. RowInv(n, i) /\ rows[n][i] \in Row
    BY DEF Inv, RowsInv, FormInv
  <2>2. rows' = rows /\ finished' = finished /\ Snaps(n)' = Snaps(n)
    BY DEF Reschedule, Snaps
  <2>3. kickoff[n] \in Nat /\ kickoff'[n] \in Nat
    BY <1>2 DEF Inv, FormInv
  <2>4. n \in rows[n][i].fit => n # m
    BY <1>1, <2>1 DEF RowInv
  <2>5. n \notin advanced' /\ rows[n][i].utc # None => rows[n][i].utc <= kickoff'[n]
    BY <1>5, <2>1, <2>3 DEF RowInv, Row
  <2>6. QED
    BY <1>6, <2>1, <2>2, <2>4, <2>5 DEF RowInv
<1>9. QED
  BY <1>2, <1>4, <1>7, <1>8 DEF Inv

LEMMA PredictMatchdaysInv ==
    ASSUME Inv, NEW s \in Refreshers, PredictMatchdays(s)
    PROVE  Inv'
<1> DEFINE D == [m \in Matches |-> [utc |-> kickoff[m], fit |-> params, actual |-> m \in finished]]
<1>1. /\ pc' = [pc EXCEPT ![s] = "persist"] /\ draft' = [draft EXCEPT ![s] = D]
      /\ UNCHANGED <<now, kickoff, finished, rows, params, fit, advanced>>
  BY DEF PredictMatchdays
<1>2. D \in [Matches -> Draft]
  BY DEF Inv, FormInv, Draft
<1>3. \A m \in Matches : /\ D[m].utc = kickoff[m] /\ D[m].fit = params
                         /\ D[m].actual => m \in finished
  OBVIOUS
<1> HIDE DEF D
<1>4. FormInv'
  BY <1>1, <1>2 DEF Inv, FormInv, Phases
<1>5. DraftInv'
  <2>1. Known' = Known
    BY <1>1 DEF Known, HasActual, Snaps
  <2>2. draft'[s] = D /\ \A r \in Refreshers \ {s} : draft'[r] = draft[r] /\ pc'[r] = pc[r]
    BY <1>1 DEF Inv, FormInv
  <2>3. \A m \in Matches : kickoff[m] \in Nat /\ params \subseteq Known
    BY DEF Inv, FormInv, FitInv
  <2>4. QED
    BY <1>1, <1>3, <2>1, <2>2, <2>3 DEF Inv, DraftInv
<1>6. QED
  BY <1>1, <1>4, <1>5, SameWorld DEF Inv, FitInv

\* One row is added to each of some matches.
LEMMA AddedRows ==
    ASSUME Inv, UNCHANGED <<now, kickoff, finished, advanced>>, NEW S \in SUBSET Matches,
           rows' \in [Matches -> Seq(Row)],
           \A m \in Matches \ S : rows'[m] = rows[m],
           NEW r, \A m \in S : rows'[m] = Append(rows[m], r[m]) /\ r[m].at = now,
           \A m \in S : /\ r[m].actual => m \in finished
                        /\ r[m].fit \subseteq Known
                        /\ m \notin advanced /\ r[m].utc # None => r[m].utc <= kickoff[m]
    PROVE  Known \subseteq Known' /\ RowsInv'
<1>1. \A m \in Matches : rows[m] \in Seq(Row) /\ Len(rows[m]) \in Nat
                         /\ DOMAIN rows[m] = 1..Len(rows[m])
  BY DEF Inv, FormInv
<1>2. \A m \in S : /\ DOMAIN rows'[m] = 1..(Len(rows[m]) + 1)
                   /\ \A i \in DOMAIN rows[m] : rows'[m][i] = rows[m][i]
                   /\ rows'[m][Len(rows[m]) + 1] = r[m]
  <2> TAKE m \in S
  <2>1. rows'[m] = Append(rows[m], r[m]) /\ rows[m] \in Seq(Row)
    BY <1>1
  <2>2. QED
    BY <2>1, <1>1
<1>3. Extended
  BY <1>1, <1>2 DEF Extended
<1>4. Known \subseteq Known' /\ \A m \in Matches : Snaps(m) \subseteq Snaps(m)'
  BY <1>3, KnownStays DEF Inv
<1>5. RowsInv'
  <2> SUFFICES ASSUME NEW m \in Matches, NEW i \in DOMAIN rows'[m] PROVE RowInv(m, i)'
    BY DEF RowsInv
  <2>1. CASE i \in DOMAIN rows[m]
    BY <1>3, <2>1, OldRows
  <2>2. CASE i \notin DOMAIN rows[m]
    <3>1. m \in S
      BY <2>2
    <3>2. i = Len(rows[m]) + 1 /\ rows'[m][i] = r[m]
      BY <1>1, <1>2, <2>2, <3>1
    <3>3. m \in r[m].fit => m \in finished /\ now > kickoff[m]
      BY <3>1 DEF Inv, FitInv, Known
    <3>4. m \in r[m].fit => \E j \in Snaps(m) : j < i
      <4>1. m \in r[m].fit => \E j \in Snaps(m) : TRUE
        BY <3>1 DEF Known, HasActual
      <4>2. \A j \in Snaps(m) : j < i
        BY <1>1, <3>2 DEF Snaps
      <4>3. QED
        BY <4>1, <4>2
    <3>5. QED
      BY <1>4, <3>1, <3>2, <3>3, <3>4 DEF RowInv
  <2>3. QED
    BY <2>1, <2>2
<1>6. QED
  BY <1>4, <1>5

\* The rows a pass persists, by match.
New(s) == [m \in Matches |-> Snapshot(draft[s][m])]

LEMMA NewRows ==
    ASSUME Inv, NEW s \in Refreshers, Persist(s)
    PROVE  /\ New(s) \in [Matches -> Row]
           /\ rows' \in [Matches -> Seq(Row)]
           /\ \A m \in Matches : /\ rows'[m] = Append(rows[m], New(s)[m])
                                 /\ New(s)[m].at = now /\ New(s)[m].visible
                                 /\ New(s)[m].kind = "refresh"
                                 /\ New(s)[m].utc = draft[s][m].utc
                                 /\ New(s)[m].fit = draft[s][m].fit
                                 /\ New(s)[m].actual = draft[s][m].actual
<1>1. \A m \in Matches : draft[s][m] \in Draft
  BY DEF Persist, Inv, FormInv
<1>2. now \in Nat
  BY DEF Inv, FormInv
<1>3. \A m \in Matches : Snapshot(draft[s][m]) \in Row
  BY <1>1, <1>2 DEF Snapshot, Row, Draft
<1>4. New(s) \in [Matches -> Row]
  BY <1>3 DEF New
<1>5. \A m \in Matches : rows'[m] = Append(rows[m], New(s)[m])
  BY DEF Persist, New
<1>6. rows' \in [Matches -> Seq(Row)]
  <2>1. \A m \in Matches : rows[m] \in Seq(Row) /\ New(s)[m] \in Row
    BY <1>4 DEF Inv, FormInv
  <2>2. \A m \in Matches : Append(rows[m], New(s)[m]) \in Seq(Row)
    BY <2>1
  <2>3. QED
    BY <2>2 DEF Persist, New
<1>7. QED
  BY <1>4, <1>5, <1>6 DEF New, Snapshot

LEMMA PersistInv ==
    ASSUME Inv, NEW s \in Refreshers, Persist(s)
    PROVE  Inv'
<1>1. UNCHANGED <<now, kickoff, finished, params, fit, advanced>>
  BY DEF Persist
<1>2. Known \subseteq Known' /\ RowsInv'
  <2>1. \A m \in Matches :
            /\ New(s)[m].actual => m \in finished
            /\ New(s)[m].fit \subseteq Known
            /\ m \notin advanced /\ New(s)[m].utc # None => New(s)[m].utc <= kickoff[m]
    BY NewRows DEF Persist, Inv, DraftInv
  <2> DEFINE r == New(s)
  <2>2. /\ rows' \in [Matches -> Seq(Row)]
        /\ \A m \in Matches : rows'[m] = Append(rows[m], r[m]) /\ r[m].at = now
        /\ Matches \in SUBSET Matches
    BY NewRows
  <2> HIDE DEF r
  <2>3. \A m \in Matches :
            /\ r[m].actual => m \in finished
            /\ r[m].fit \subseteq Known
            /\ m \notin advanced /\ r[m].utc # None => r[m].utc <= kickoff[m]
    BY <2>1 DEF r
  <2>4. QED
    BY <1>1, <2>2, <2>3, AddedRows
<1>3. FormInv'
  BY <1>1, NewRows DEF Persist, Inv, FormInv, Phases
<1>4. FitInv'
  BY <1>1, <1>2 DEF Inv, FitInv
<1>5. DraftInv'
  <2>1. \A r \in Refreshers : pc'[r] = "persist" => pc[r] = "persist" /\ draft'[r] = draft[r]
    BY DEF Persist, Inv, FormInv
  <2>2. QED
    BY <1>1, <1>2, <2>1 DEF Inv, DraftInv
<1>6. QED
  BY <1>2, <1>3, <1>4, <1>5 DEF Inv

\* Calibrate, SetParams, Abort: what was evaluated becomes the fit, or nothing does.
LEMMA FittingInv ==
    ASSUME Inv, NEW s \in Refreshers, Calibrate(s) \/ SetParams(s) \/ Abort(s)
    PROVE  Inv'
<1>1. UNCHANGED <<now, kickoff, finished, rows, advanced>>
  BY DEF Calibrate, SetParams, Abort
<1>2. Evaluated \subseteq Known
  BY DEF Evaluated, Known, HasActual, Inv, RowsInv, RowInv, Snaps
<1>3. Known \subseteq Matches
  BY DEF Known, Inv, FormInv
<1>4. /\ params' \subseteq Known
      /\ \A r \in Refreshers : fit'[r] \subseteq Known
      /\ fit' \in [Refreshers -> SUBSET Matches]
  BY <1>2, <1>3 DEF Calibrate, SetParams, Abort, Inv, FormInv, FitInv
<1>5. /\ pc' \in [Refreshers -> Phases] /\ DOMAIN draft' = Refreshers
      /\ \A r \in Refreshers : pc'[r] = "persist" => pc[r] = "persist" /\ draft'[r] = draft[r]
  BY DEF Calibrate, SetParams, Abort, Inv, FormInv, Phases
<1>6. FormInv'
  BY <1>1, <1>3, <1>4, <1>5 DEF Inv, FormInv
<1>7. Known' = Known
  BY <1>1 DEF Known, HasActual, Snaps
<1>8. DraftInv'
  BY <1>1, <1>5, <1>7 DEF Inv, DraftInv
<1>9. QED
  BY <1>1, <1>4, <1>6, <1>8, SameWorld

\* The row of a full prediction.
FullRow == [kind |-> "full", at |-> now, utc |-> None, fit |-> params, actual |-> FALSE,
            visible |-> FALSE]

LEMMA PredictFullInv ==
    ASSUME Inv, NEW m \in Matches, PredictFull(m)
    PROVE  Inv'
<1>1. /\ rows' = [rows EXCEPT ![m] = Append(rows[m], FullRow)]
      /\ UNCHANGED <<now, kickoff, finished, params, pc, draft, fit, advanced>>
  BY DEF PredictFull, FullRow
<1>2. FullRow \in Row
  BY DEF FullRow, Row, Inv, FormInv
<1>3. rows' \in [Matches -> Seq(Row)]
  <2>1. Append(rows[m], FullRow) \in Seq(Row)
    BY <1>2 DEF Inv, FormInv
  <2>2. QED
    BY <1>1, <2>1 DEF Inv, FormInv
<1>4. Known \subseteq Known' /\ RowsInv'
  <2> DEFINE r == [n \in {m} |-> FullRow]
  <2>1. /\ r[m] = FullRow /\ FullRow.at = now /\ ~FullRow.actual
        /\ FullRow.fit = params /\ FullRow.utc = None
    BY DEF FullRow
  <2>2. params \subseteq Known
    BY DEF Inv, FitInv
  <2>3. rows'[m] = Append(rows[m], r[m]) /\ \A n \in Matches \ {m} : rows'[n] = rows[n]
    BY <1>1, <2>1 DEF Inv, FormInv
  <2> HIDE DEF r
  <2> DEFINE S == {m}
  <2>4. /\ S \in SUBSET Matches
        /\ \A n \in Matches \ S : rows'[n] = rows[n]
        /\ \A n \in S : rows'[n] = Append(rows[n], r[n]) /\ r[n].at = now
        /\ \A n \in S : /\ r[n].actual => n \in finished
                        /\ r[n].fit \subseteq Known
                        /\ n \notin advanced /\ r[n].utc # None => r[n].utc <= kickoff[n]
    BY <2>1, <2>2, <2>3
  <2> HIDE DEF S
  <2>5. QED
    BY <1>1, <1>3, <2>4, AddedRows
<1>5. FormInv'
  BY <1>1, <1>3 DEF Inv, FormInv
<1>6. FitInv' /\ DraftInv'
  BY <1>1, <1>4 DEF Inv, FitInv, DraftInv
<1>7. QED
  BY <1>4, <1>5, <1>6 DEF Inv

LEMMA CommitFullInv ==
    ASSUME Inv, NEW m \in Matches, CommitFull(m)
    PROVE  Inv'
<1>1. PICK i \in DOMAIN rows[m] :
          /\ rows' = [rows EXCEPT ![m][i].visible = TRUE]
          /\ UNCHANGED <<now, kickoff, finished, params, pc, draft, fit, advanced>>
  BY DEF CommitFull
<1>2. rows[m] \in Seq(Row) /\ rows[m][i] \in Row
  BY DEF Inv, FormInv
<1>3. /\ rows'[m] = [rows[m] EXCEPT ![i] = [rows[m][i] EXCEPT !.visible = TRUE]]
      /\ \A n \in Matches \ {m} : rows'[n] = rows[n]
      /\ DOMAIN rows' = Matches
  BY <1>1 DEF Inv, FormInv
<1>4. [rows[m][i] EXCEPT !.visible = TRUE] \in Row
  BY <1>2 DEF Row
<1>5. rows' \in [Matches -> Seq(Row)]
  <2>1. rows'[m] \in Seq(Row)
    BY <1>2, <1>3, <1>4, ExceptSeq
  <2>2. \A n \in Matches : rows'[n] \in Seq(Row)
    BY <1>3, <2>1 DEF Inv, FormInv
  <2>3. QED
    BY <1>1, <2>2 DEF Inv, FormInv
<1>6. Extended
  <2>1. \A j \in DOMAIN rows[m] :
            /\ rows'[m][j].at = rows[m][j].at /\ rows'[m][j].utc = rows[m][j].utc
            /\ rows'[m][j].fit = rows[m][j].fit /\ rows'[m][j].actual = rows[m][j].actual
            /\ rows[m][j].visible => rows'[m][j].visible
    <3> DEFINE was == rows[m][i]
               is == [was EXCEPT !.visible = TRUE]
    <3>1. /\ is.at = was.at /\ is.utc = was.utc
          /\ is.fit = was.fit /\ is.actual = was.actual /\ is.visible
      <4>1. was \in Row
        BY <1>2
      <4> HIDE DEF was
      <4>2. QED
        BY <4>1 DEF Row
    <3>2. \A j \in DOMAIN rows[m] : rows'[m][j] = IF j = i THEN is ELSE rows[m][j]
      BY <1>3
    <3>3. QED
      BY <3>1, <3>2
  <2>2. DOMAIN rows'[m] = DOMAIN rows[m]
    BY <1>3
  <2>3. \A n \in Matches \ {m} : rows'[n] = rows[n]
    BY <1>3
  <2>4. QED
    BY <2>1, <2>2, <2>3 DEF Extended
<1>7. RowsInv'
  <2>1. \A n \in Matches : DOMAIN rows'[n] = DOMAIN rows[n]
    BY <1>3
  <2>2. QED
    BY <1>1, <1>6, <2>1, OldRows DEF RowsInv
<1>8. Known \subseteq Known'
  BY <1>1, <1>6, KnownStays DEF Inv
<1>9. FormInv'
  BY <1>1, <1>5 DEF Inv, FormInv
<1>10. FitInv' /\ DraftInv'
  BY <1>1, <1>8 DEF Inv, FitInv, DraftInv
<1>11. QED
  BY <1>7, <1>9, <1>10 DEF Inv

LEMMA StepInv == Inv /\ [Next]_vars => Inv'
<1> SUFFICES ASSUME Inv, [Next]_vars PROVE Inv'
  OBVIOUS
<1>1. CASE UNCHANGED vars
  <2>1. UNCHANGED <<now, kickoff, finished, rows, params, pc, draft, fit, advanced>>
    BY <1>1 DEF vars
  <2>2. FormInv'
    BY <2>1 DEF Inv, FormInv
  <2>3. DraftInv'
    BY <2>1 DEF Inv, DraftInv, Known, HasActual, Snaps
  <2>4. QED
    BY <2>1, <2>2, <2>3, SameWorld DEF Inv, FitInv
<1>2. ASSUME NEW s \in Refreshers, Pass(s) PROVE Inv'
  BY <1>2, PredictMatchdaysInv, PersistInv, FittingInv DEF Pass
<1>3. QED
  BY <1>1, <1>2, TickInv, FinishMatchInv, PredictFullInv, CommitFullInv, RescheduleInv DEF Next

LEMMA Invariant == Spec => []Inv
BY InitInv, StepInv, PTL DEF Spec

-----------------------------------------------------------------------------
(* The properties.                                                         *)

\* calibrate_score_model, _worldcup_finished_records: a finished match is never
\* evaluated with a prediction of a model fitted to its own result, unless its
\* kickoff was moved forward, for any matches, sessions, aborted passes, full
\* predictions and rescheduling.
THEOREM ResultsNeverLeak == Spec => []NoLeakUnlessAdvanced
<1>1. Inv => NoLeakUnlessAdvanced
  <2> SUFFICES ASSUME Inv, NEW m \in Evaluated \ advanced, m \in Chosen(m).fit
               PROVE  FALSE
    BY DEF NoLeakUnlessAdvanced
  <2>1. m \in Matches /\ Snaps(m) # {}
    BY DEF Evaluated, HasActual
  <2>2. /\ Chosen(m) = rows[m][Pick(m)]
        /\ Min(Snaps(m)) \in Snaps(m)
        /\ \A j \in Snaps(m) : Min(Snaps(m)) <= j
        /\ Before(m) # {} => Pick(m) \in Before(m)
    BY <2>1, Picked DEF Inv
  <2>3. \A i \in Snaps(m) : i \in Nat /\ rows[m][i] \in Row /\ RowInv(m, i)
    BY <2>1 DEF Snaps, Inv, FormInv, RowsInv
  <2>4. CASE Before(m) = {}
    <3>1. \E j \in Snaps(m) : j < Min(Snaps(m))
      BY <2>2, <2>3, <2>4 DEF Pick, RowInv
    <3>2. QED
      BY <2>2, <2>3, <3>1
  <2>5. CASE Before(m) # {}
    <3>1. /\ Pick(m) \in Snaps(m) /\ KickoffOf(m) # None
          /\ rows[m][Pick(m)].at < KickoffOf(m)
      BY <2>2, <2>5 DEF Before
    <3>2. KickoffOf(m) <= kickoff[m]
      BY <2>2, <2>3, <3>1 DEF KickoffOf, RowInv
    <3>3. rows[m][Pick(m)].at > kickoff[m]
      BY <2>2, <2>3, <3>1 DEF RowInv
    <3>4. rows[m][Pick(m)].at \in Nat /\ KickoffOf(m) \in Nat /\ kickoff[m] \in Nat
      BY <2>1, <2>2, <2>3, <3>1 DEF KickoffOf, Row, Inv, FormInv
    <3>5. QED
      BY <3>1, <3>2, <3>3, <3>4
  <2>6. QED
    BY <2>4, <2>5
<1>2. QED
  BY Invariant, <1>1, PTL

\* Rows that are added after the kickoff, or not committed, change no choice.
LEMMA ChoiceStays ==
    ASSUME Inv, FormInv', NEW m \in Matches, Snaps(m) # {}, NEW r \in Row,
           rows'[m] = Append(rows[m], r),
           r.visible /\ KickoffOf(m) # None => ~(r.at < KickoffOf(m))
    PROVE  Chosen(m)' = Chosen(m)
<1> DEFINE n == Len(rows[m])
<1>1. /\ n \in Nat /\ DOMAIN rows[m] = 1..n /\ DOMAIN rows'[m] = 1..(n + 1)
      /\ \A i \in 1..n : rows'[m][i] = rows[m][i]
      /\ rows'[m][n + 1] = r
  <2>1. rows[m] \in Seq(Row)
    BY DEF Inv, FormInv
  <2>2. QED
    BY <2>1
<1> HIDE DEF n
<1>2. /\ Snaps(m) \subseteq Snaps(m)' /\ Snaps(m) \subseteq 1..n
      /\ \A i \in Snaps(m)' \ Snaps(m) : i = n + 1 /\ r.visible
  BY <1>1 DEF Snaps
<1>3. /\ Min(Snaps(m)) \in Snaps(m) /\ \A j \in Snaps(m) : Min(Snaps(m)) <= j
      /\ Min(Snaps(m)') \in Snaps(m)' /\ \A j \in Snaps(m)' : Min(Snaps(m)') <= j
  <2>1. Snaps(m) \in SUBSET Nat /\ Snaps(m)' \in SUBSET Nat /\ Snaps(m)' # {}
    BY <1>1, <1>2
  <2>2. QED
    BY <2>1, MinExists
<1>4. Min(Snaps(m)') = Min(Snaps(m))
  <2>1. Min(Snaps(m)) <= n /\ Min(Snaps(m)) \in Nat
    BY <1>1, <1>2, <1>3
  <2>2. Min(Snaps(m)') <= Min(Snaps(m)) /\ Min(Snaps(m)') \in Nat
    BY <1>1, <1>2, <1>3
  <2>3. Min(Snaps(m)') \in Snaps(m)
    BY <1>1, <1>2, <1>3, <2>1, <2>2
  <2>4. QED
    BY <1>3, <2>1, <2>2, <2>3
<1>5. KickoffOf(m)' = KickoffOf(m)
  BY <1>1, <1>2, <1>3, <1>4 DEF KickoffOf
<1>6. Before(m)' = Before(m)
  <2>1. \A i \in Snaps(m)' \ Snaps(m) :
            ~(KickoffOf(m) # None /\ rows'[m][i].at < KickoffOf(m))
    BY <1>1, <1>2
  <2>2. \A i \in Snaps(m) : rows'[m][i] = rows[m][i]
    BY <1>1, <1>2
  <2>3. QED
    BY <1>2, <1>5, <2>1, <2>2 DEF Before
<1>7. Pick(m)' = Pick(m) /\ Pick(m) \in 1..n
  <2>1. Before(m) \subseteq Snaps(m)
    BY DEF Before
  <2>2. Pick(m) \in Snaps(m)
    BY <1>3, <2>1, Picked DEF Pick, Inv
  <2>3. QED
    BY <1>2, <1>4, <1>6, <2>2 DEF Pick
<1>8. QED
  <2>1. Chosen(m) = rows[m][Pick(m)] /\ Chosen(m)' = rows'[m][Pick(m)']
    BY DEF Chosen, Pick
  <2>2. QED
    BY <1>1, <1>7, <2>1

\* _worldcup_finished_records: a match that is evaluated keeps the row it is
\* evaluated with through every step but the late commit of a full prediction,
\* unless its kickoff was moved forward.
THEOREM PastIsNotRewritten == Spec => EvaluationIsFinal
<1> DEFINE Kept == \A m \in Evaluated \ advanced : m \in Evaluated' /\ Chosen(m)' = Chosen(m)
<1>1. Inv /\ Inv' /\ [Next]_vars => [(\A m \in Matches : ~CommitFull(m)) => Kept]_vars
  <2> SUFFICES ASSUME Inv, Inv', Next, \A m \in Matches : ~CommitFull(m),
                      NEW m \in Evaluated \ advanced
               PROVE  m \in Evaluated' /\ Chosen(m)' = Chosen(m)
    OBVIOUS
  <2>1. m \in Matches /\ HasActual(m) /\ Usable(m) /\ Snaps(m) # {}
    BY DEF Evaluated, HasActual
  <2>2. Chosen(m)' = Chosen(m) /\ HasActual(m)' => m \in Evaluated'
    BY <2>1 DEF Evaluated, Usable
  <2>3. CASE rows'[m] = rows[m]
    <3>1. Snaps(m)' = Snaps(m)
      BY <2>3 DEF Snaps
    <3>2. KickoffOf(m)' = KickoffOf(m)
      BY <2>3, <3>1 DEF KickoffOf
    <3>3. Before(m)' = Before(m)
      BY <2>3, <3>1, <3>2 DEF Before
    <3>4. Chosen(m)' = Chosen(m)
      BY <2>3, <3>1, <3>3 DEF Chosen
    <3>5. QED
      BY <2>1, <2>2, <2>3, <3>1, <3>4 DEF HasActual
  <2>4. ASSUME NEW r \in Row, rows'[m] = Append(rows[m], r),
               r.visible => r.at = now
        PROVE  m \in Evaluated' /\ Chosen(m)' = Chosen(m)
    <3>1. Min(Snaps(m)) \in Snaps(m)
      BY <2>1, Picked DEF Inv
    <3>2. Min(Snaps(m)) \in DOMAIN rows[m] /\ rows[m] \in Seq(Row)
      BY <2>1, <3>1 DEF Snaps, Inv, FormInv
    <3>3. KickoffOf(m) # None => KickoffOf(m) <= kickoff[m] /\ KickoffOf(m) \in Nat
      <4> DEFINE i == Min(Snaps(m))
      <4>1. RowInv(m, i) /\ rows[m][i] \in Row /\ m \notin advanced
        BY <2>1, <3>2 DEF Inv, RowsInv
      <4>2. KickoffOf(m) = rows[m][i].utc
        BY DEF KickoffOf
      <4> HIDE DEF i
      <4>3. QED
        BY <4>1, <4>2 DEF RowInv, Row
    <3>4. now > kickoff[m] /\ now \in Nat /\ kickoff[m] \in Nat
      BY <2>1 DEF HasActual, Snaps, Inv, FormInv, FitInv, RowsInv, RowInv
    <3>5. r.visible /\ KickoffOf(m) # None => ~(r.at < KickoffOf(m))
      BY <2>4, <3>3, <3>4
    <3>6. Chosen(m)' = Chosen(m)
      BY <2>1, <2>4, <3>5, ChoiceStays DEF Inv
    <3>7. HasActual(m)'
      BY <2>1, <2>4, <3>2 DEF HasActual, Snaps
    <3>8. QED
      BY <2>2, <3>6, <3>7
  <2>5. ASSUME NEW s \in Refreshers, Persist(s)
        PROVE  m \in Evaluated' /\ Chosen(m)' = Chosen(m)
    <3>1. New(s)[m] \in Row /\ rows'[m] = Append(rows[m], New(s)[m]) /\ New(s)[m].at = now
      BY <2>1, <2>5, NewRows
    <3>2. QED
      BY <2>4, <3>1
  <2>6. ASSUME NEW n \in Matches, PredictFull(n)
        PROVE  m \in Evaluated' /\ Chosen(m)' = Chosen(m)
    <3>1. CASE n = m
      <4>1. FullRow \in Row /\ ~FullRow.visible
        BY DEF FullRow, Row, Inv, FormInv
      <4>2. rows'[m] = Append(rows[m], FullRow)
        BY <2>1, <2>6, <3>1 DEF PredictFull, FullRow, Inv, FormInv
      <4>3. QED
        BY <2>4, <4>1, <4>2
    <3>2. CASE n # m
      BY <2>1, <2>3, <2>6, <3>2 DEF PredictFull, Inv, FormInv
    <3>3. QED
      BY <3>1, <3>2
  <2>7. rows' = rows \/ (\E s \in Refreshers : Persist(s)) \/ (\E n \in Matches : PredictFull(n))
    BY DEF Next, Tick, FinishMatch, Reschedule, Pass, PredictMatchdays, Calibrate, SetParams, Abort
  <2>8. QED
    BY <2>3, <2>5, <2>6, <2>7
<1>2. QED
  BY Invariant, <1>1, PTL DEF Spec, EvaluationIsFinal

(***************************************************************************)
(*                             The simulations.                            *)
(***************************************************************************)

-----------------------------------------------------------------------------
(* The sizes of a bracket and the order of its seeds.                      *)

\* The sizes of a bracket, and the orders of its seeds, are what their
\* definitions say.
LEMMA Sizes ==
    /\ TwoTo \in [0..Depth -> Nat]
    /\ TwoTo = [k \in 0..Depth |-> IF k = 0 THEN 1 ELSE 2 * TwoTo[k - 1]]
<1> DEFINE F == [x \in Nat |-> 2 * x]
           Is(r) == r = [k \in 0..Depth |-> IF k = 0 THEN 1 ELSE 2 * r[k - 1]]
<1>1. F \in [Nat -> Nat] /\ Depth \in Nat /\ 1 \in Nat
  BY TournamentAssumption
<1>2. PICK r \in [0..Depth -> Nat] : \A k \in 0..Depth : r[k] = IF k = 0 THEN 1 ELSE F[r[k - 1]]
  <2> DEFINE V == Nat
             v == 1
  <2>1. F \in [V -> V] /\ v \in V
    BY <1>1
  <2> HIDE DEF F, V, v
  <2>2. \E r \in [0..Depth -> V] : Iterates(Depth, v, F, r)
    BY <1>1, <2>1, Iteration
  <2>3. QED
    BY <2>2 DEF V, v, Iterates
<1>3. Is(r)
  <2>1. ASSUME NEW k \in 0..Depth, k # 0 PROVE F[r[k - 1]] = 2 * r[k - 1]
    BY <1>1, <2>1
  <2>2. QED
    BY <1>2, <2>1
<1>4. TwoTo = CHOOSE q : Is(q)
  BY DEF TwoTo
<1>5. Is(TwoTo)
  <2> HIDE DEF Is
  <2> QED BY <1>3, <1>4
<1>6. ASSUME NEW k \in 0..Depth, k # Depth, TwoTo[k] \in Nat PROVE TwoTo[k + 1] \in Nat
  BY <1>1, <1>5, <1>6
<1> DEFINE P == {k \in 0..Depth : TwoTo[k] \in Nat}
<1>7. \A k \in 0..Depth : k \in P
  <2>1. 0 \in P
    BY <1>1, <1>5
  <2>2. \A k \in 0..Depth : k # Depth /\ k \in P => k + 1 \in P
    BY <1>1, <1>6
  <2> HIDE DEF P
  <2> QED BY <1>1, <2>1, <2>2, StepInduction
<1>8. QED
  BY <1>5, <1>7

LEMMA SizeSteps ==
    /\ TwoTo[0] = 1
    /\ \A k \in 0..Depth : k # Depth => TwoTo[k + 1] = 2 * TwoTo[k]
    /\ \A k \in 0..Depth : TwoTo[k] \in Nat \ {0}
<1>1. Depth \in Nat
  BY TournamentAssumption
<1>2. TwoTo[0] = 1 /\ \A k \in 0..Depth : k # Depth => TwoTo[k + 1] = 2 * TwoTo[k]
  BY <1>1, Sizes
<1> DEFINE P == {k \in 0..Depth : TwoTo[k] \in Nat \ {0}}
<1>3. 0 \in P
  BY <1>1, <1>2
<1>4. ASSUME NEW k \in 0..Depth, k # Depth, k \in P PROVE k + 1 \in P
  BY <1>1, <1>2, <1>4
<1>5. \A k \in 0..Depth : k \in P
  <2> HIDE DEF P
  <2> QED BY <1>1, <1>3, <1>4, StepInduction
<1>6. QED
  BY <1>2, <1>5

\* Of two sizes the smaller is at most half the other.
LEMMA SizesApart ==
    ASSUME NEW j \in 0..Depth, NEW k \in 0..Depth
    PROVE  /\ TwoTo[j] < TwoTo[k] <=> j < k
           /\ j < k => 2 * TwoTo[j] <= TwoTo[k]
           /\ TwoTo[j] = TwoTo[k] <=> j = k
<1>1. Depth \in Nat
  BY TournamentAssumption
<1> DEFINE P == {m \in 0..Depth : \A n \in 0..Depth : n < m => 2 * TwoTo[n] <= TwoTo[m]}
<1>2. 0 \in P
  BY <1>1
<1>3. ASSUME NEW m \in 0..Depth, m # Depth, m \in P PROVE m + 1 \in P
  <2>1. ASSUME NEW n \in 0..Depth, n < m + 1 PROVE 2 * TwoTo[n] <= TwoTo[m + 1]
    <3>1. TwoTo[m + 1] = 2 * TwoTo[m] /\ TwoTo[m] \in Nat /\ TwoTo[n] \in Nat
      BY <1>3, SizeSteps
    <3>2. CASE n = m
      BY <3>1, <3>2
    <3>3. CASE n < m
      <4>1. 2 * TwoTo[n] <= TwoTo[m]
        BY <1>3, <3>3
      <4>2. QED
        BY <3>1, <4>1
    <3>4. QED
      BY <1>1, <2>1, <3>2, <3>3
  <2>2. m + 1 \in 0..Depth
    BY <1>1, <1>3
  <2>3. QED
    BY <2>1, <2>2
<1>4. \A m \in 0..Depth : m \in P
  <2> HIDE DEF P
  <2> QED BY <1>1, <1>2, <1>3, StepInduction
<1>5. (j < k => 2 * TwoTo[j] <= TwoTo[k]) /\ (k < j => 2 * TwoTo[k] <= TwoTo[j])
  BY <1>4
<1>6. TwoTo[j] \in Nat \ {0} /\ TwoTo[k] \in Nat \ {0}
  BY SizeSteps
<1>7. QED
  BY <1>1, <1>5, <1>6

LEMMA Orders ==
    SeedOrder = [k \in 0..Depth |-> IF k = 0 THEN <<1>> ELSE Doubled(SeedOrder[k - 1])]
<1> DEFINE F == [x \in Seq(Int) |-> Doubled(x)]
           Is(r) == r = [k \in 0..Depth |-> IF k = 0 THEN <<1>> ELSE Doubled(r[k - 1])]
<1>1. F \in [Seq(Int) -> Seq(Int)] /\ Depth \in Nat /\ <<1>> \in Seq(Int)
  <2>1. ASSUME NEW x \in Seq(Int) PROVE Doubled(x) \in Seq(Int)
    <3>1. Len(x) \in Nat /\ \A i \in 1..Len(x) : x[i] \in Int
      OBVIOUS
    <3>2. ASSUME NEW i \in 1..2 * Len(x) PROVE Doubled(x)[i] \in Int
      BY <3>1 DEF Doubled
    <3>3. Doubled(x) = [i \in 1..2 * Len(x) |-> Doubled(x)[i]] /\ 2 * Len(x) \in Nat
      BY <3>1 DEF Doubled
    <3>4. QED
      BY <3>2, <3>3
  <2>2. QED
    BY <2>1, TournamentAssumption
<1>2. PICK r \in [0..Depth -> Seq(Int)] :
           \A k \in 0..Depth : r[k] = IF k = 0 THEN <<1>> ELSE F[r[k - 1]]
  <2> DEFINE V == Seq(Int)
             v == <<1>>
  <2>1. F \in [V -> V] /\ v \in V
    BY <1>1
  <2> HIDE DEF F, V, v
  <2>2. \E r \in [0..Depth -> V] : Iterates(Depth, v, F, r)
    BY <1>1, <2>1, Iteration
  <2>3. QED
    BY <2>2 DEF V, v, Iterates
<1>3. Is(r)
  <2>1. ASSUME NEW k \in 0..Depth, k # 0 PROVE F[r[k - 1]] = Doubled(r[k - 1])
    BY <1>1, <2>1
  <2>2. QED
    BY <1>2, <2>1
<1>4. SeedOrder = CHOOSE q : Is(q)
  BY DEF SeedOrder
<1>5. Is(SeedOrder)
  <2> HIDE DEF Is
  <2> QED BY <1>3, <1>4
<1>6. QED
  BY <1>5

\* A place in a round is the first or the second of a pair.
LEMMA Pairs ==
    ASSUME NEW n \in Nat, NEW i \in 1..2 * n
    PROVE  \/ i % 2 = 1 /\ (i + 1) \div 2 \in 1..n /\ i = 2 * ((i + 1) \div 2) - 1
           \/ i % 2 # 1 /\ i \div 2 \in 1..n /\ i = 2 * (i \div 2)
OBVIOUS

\* o has each of 1..n once.
Permutes(o, n) ==
    /\ o \in [1..n -> 1..n]
    /\ \A i, j \in 1..n : o[i] = o[j] => i = j

LEMMA DoubledFacts ==
    ASSUME NEW n \in Nat \ {0}, NEW o, Permutes(o, n)
    PROVE  /\ Permutes(Doubled(o), 2 * n)
           /\ \A i \in 1..n : /\ Doubled(o)[2 * i - 1] = o[i]
                              /\ Doubled(o)[2 * i] = 2 * n + 1 - o[i]
<1> DEFINE d == Doubled(o)
<1>1. o \in [1..n -> 1..n] /\ \A i, j \in 1..n : o[i] = o[j] => i = j
  BY DEF Permutes
<1>2. Len(o) = n
  BY <1>1
<1>3. /\ DOMAIN d = 1..2 * n
      /\ \A i \in 1..2 * n : d[i] = IF i % 2 = 1 THEN o[(i + 1) \div 2] ELSE 2 * n + 1 - o[i \div 2]
      /\ d = [i \in 1..2 * n |-> d[i]]
  BY <1>2 DEF Doubled
<1> HIDE DEF d
<1>4. ASSUME NEW i \in 1..n PROVE d[2 * i - 1] = o[i] /\ d[2 * i] = 2 * n + 1 - o[i]
  <2>1. /\ 2 * i - 1 \in 1..2 * n /\ (2 * i - 1) % 2 = 1 /\ ((2 * i - 1) + 1) \div 2 = i
        /\ 2 * i \in 1..2 * n /\ (2 * i) % 2 # 1 /\ (2 * i) \div 2 = i
    OBVIOUS
  <2>2. d[2 * i - 1] = o[((2 * i - 1) + 1) \div 2]
    BY <1>3, <2>1
  <2>3. d[2 * i] = 2 * n + 1 - o[(2 * i) \div 2]
    BY <1>3, <2>1
  <2>4. QED
    BY <2>1, <2>2, <2>3
<1>5. ASSUME NEW i \in 1..2 * n
      PROVE  \E j \in 1..n : \/ i = 2 * j - 1 /\ d[i] = o[j]
                             \/ i = 2 * j /\ d[i] = 2 * n + 1 - o[j]
  <2>1. \E j \in 1..n : i = 2 * j - 1 \/ i = 2 * j
    BY Pairs
  <2>2. QED
    BY <1>4, <2>1
<1>6. \A i \in 1..2 * n : d[i] \in 1..2 * n
  <2>1. ASSUME NEW i \in 1..2 * n PROVE d[i] \in 1..2 * n
    <3>1. PICK j \in 1..n : d[i] = o[j] \/ d[i] = 2 * n + 1 - o[j]
      BY <1>5
    <3>2. ASSUME NEW x \in 1..n PROVE x \in 1..2 * n /\ 2 * n + 1 - x \in 1..2 * n
      OBVIOUS
    <3>3. o[j] \in 1..n
      BY <1>1
    <3>4. o[j] \in 1..2 * n /\ 2 * n + 1 - o[j] \in 1..2 * n
      BY <3>2, <3>3
    <3>5. QED
      BY <3>1, <3>4
  <2>2. QED
    BY <2>1
<1>7. ASSUME NEW i \in 1..2 * n, NEW j \in 1..2 * n, d[i] = d[j] PROVE i = j
  <2>1. PICK k \in 1..n : \/ i = 2 * k - 1 /\ d[i] = o[k]
                          \/ i = 2 * k /\ d[i] = 2 * n + 1 - o[k]
    BY <1>5
  <2>2. PICK l \in 1..n : \/ j = 2 * l - 1 /\ d[j] = o[l]
                          \/ j = 2 * l /\ d[j] = 2 * n + 1 - o[l]
    BY <1>5
  <2>3. o[k] \in 1..n /\ o[l] \in 1..n /\ (o[k] = o[l] => k = l)
    BY <1>1
  <2>4. \A x, y \in 1..n : /\ x # 2 * n + 1 - y
                           /\ 2 * n + 1 - x = 2 * n + 1 - y => x = y
    OBVIOUS
  <2>5. k = l /\ (i = 2 * k - 1 <=> j = 2 * l - 1)
    <3> DEFINE x == o[k]
               y == o[l]
    <3>1. x \in 1..n /\ y \in 1..n /\ (x = y => k = l)
      BY <2>3
    <3>2. /\ (i = 2 * k - 1 /\ d[i] = x) \/ (i = 2 * k /\ d[i] = 2 * n + 1 - x)
          /\ (j = 2 * l - 1 /\ d[j] = y) \/ (j = 2 * l /\ d[j] = 2 * n + 1 - y)
      BY <2>1, <2>2
    <3> HIDE DEF x, y
    <3>3. x # 2 * n + 1 - y /\ y # 2 * n + 1 - x /\ (2 * n + 1 - x = 2 * n + 1 - y => x = y)
      BY <2>4, <3>1
    <3>4. 2 * k - 1 # 2 * k /\ 2 * l - 1 # 2 * l
      OBVIOUS
    <3>5. QED
      BY <1>7, <3>1, <3>2, <3>3, <3>4
  <2>6. QED
    BY <2>1, <2>2, <2>5
<1>8. QED
  <2>1. d \in [1..2 * n -> 1..2 * n]
    BY <1>3, <1>6
  <2>2. QED
    BY <1>4, <1>7, <2>1 DEF d, Permutes

\* The order of 2^k seeds has each of them once.
IsOrder(k) == Permutes(SeedOrder[k], TwoTo[k])

LEMMA OrderFacts ==
    /\ \A k \in 0..Depth : IsOrder(k)
    /\ \A k \in 0..Depth : k # Depth =>
           \A i \in 1..TwoTo[k] : /\ SeedOrder[k + 1][2 * i - 1] = SeedOrder[k][i]
                                 /\ SeedOrder[k + 1][2 * i] = TwoTo[k + 1] + 1 - SeedOrder[k][i]
<1> DEFINE P == {k \in 0..Depth : IsOrder(k)}
<1>1. Depth \in Nat
  BY TournamentAssumption
<1>2. 0 \in P
  <2>1. SeedOrder[0] = <<1>> /\ TwoTo[0] = 1
    BY <1>1, Orders, SizeSteps
  <2>2. <<1>> \in [1..1 -> 1..1] /\ \A i, j \in 1..1 : i = j
    OBVIOUS
  <2>3. IsOrder(0)
    BY <2>1, <2>2 DEF IsOrder, Permutes
  <2>4. QED
    BY <1>1, <2>3
<1>3. ASSUME NEW k \in 0..Depth, k # Depth, IsOrder(k)
      PROVE  /\ IsOrder(k + 1)
             /\ \A i \in 1..TwoTo[k] : /\ SeedOrder[k + 1][2 * i - 1] = SeedOrder[k][i]
                                     /\ SeedOrder[k + 1][2 * i] = TwoTo[k + 1] + 1 - SeedOrder[k][i]
  <2>1. TwoTo[k] \in Nat \ {0} /\ TwoTo[k + 1] = 2 * TwoTo[k]
    BY <1>3, SizeSteps
  <2>2. SeedOrder[k + 1] = Doubled(SeedOrder[k])
    BY <1>1, <1>3, Orders
  <2> DEFINE n == TwoTo[k]
             o == SeedOrder[k]
  <2>3. n \in Nat \ {0} /\ Permutes(o, n)
    BY <1>3, <2>1 DEF IsOrder
  <2> HIDE DEF n, o
  <2>4. /\ Permutes(Doubled(o), 2 * n)
        /\ \A i \in 1..n : /\ Doubled(o)[2 * i - 1] = o[i]
                           /\ Doubled(o)[2 * i] = 2 * n + 1 - o[i]
    BY <2>3, DoubledFacts
  <2>5. QED
    BY <2>1, <2>2, <2>4 DEF n, o, IsOrder
<1>4. ASSUME NEW k \in 0..Depth, k # Depth, k \in P PROVE k + 1 \in P
  BY <1>1, <1>3, <1>4
<1>5. \A k \in 0..Depth : k \in P
  <2> HIDE DEF P
  <2> QED BY <1>1, <1>2, <1>4, StepInduction
<1>6. QED
  BY <1>3, <1>5
-----------------------------------------------------------------------------
(* What is the case throughout a simulation.                               *)

\* The tables a group can end with, each in the orders it may be ranked in.
Endings(g) == UNION {Rankings(Table(g, sampled)) : sampled \in [Open(g) -> Samples]}

\* What the argument needs of the types, and what a group that was played is.
StandingsInv ==
    /\ feed \in Feeds /\ task \in Tasks /\ Available(task) /\ sim \in Nat
    /\ standings \in Seq(UNION {Endings(g) : g \in Groups})
    /\ Len(standings) <= IF task = None THEN NumGroups ELSE 1
    /\ \A k \in DOMAIN standings : standings[k] \in Endings(GroupOf(k))

\* The seeds are those of what was played.
WellSeeded ==
    \E w \in Rankings(Place(1)), r \in Rankings(Place(2)), t \in Rankings(Place(3)) :
        seeded = Names(w) \o Names(r) \o SubSeq(Names(t), 1, BestThirds)

FieldInv ==
    seeded # <<>> => task = None /\ Len(standings) = NumGroups /\ WellSeeded

\* The i-th of 2^k teams that are left is at best the seed that was first drawn
\* to its part of the bracket.
BracketOf(k) ==
    /\ bracket \in [1..TwoTo[k] -> Field]
    /\ \A i, j \in 1..TwoTo[k] : bracket[i] = bracket[j] => i = j
    /\ \A i \in 1..TwoTo[k] : \E s \in SeedOrder[k][i]..Size : bracket[i] = seeded[s]

BracketInv == bracket # <<>> => seeded # <<>> /\ \E k \in 0..Depth : BracketOf(k)

\* How many were counted for round k.
Count(k) == SumFunction([t \in DOMAIN reached |-> reached[t][k]])

\* How many of them in this simulation.
SoFar(k) == IF bracket # <<>> /\ Len(bracket) <= k THEN k ELSE 0

\* Team t is in the bracket, and was counted for round m but not for round k.
Between(t, k, m) == bracket # <<>> /\ t \in Range(bracket) /\ k < Len(bracket) /\ Len(bracket) <= m

ReachedInv ==
    /\ reached \in [Field -> [Rounds -> Nat]]
    /\ task = None => \A k \in Rounds : Count(k) = sim * k + SoFar(k)
    /\ \A t \in Field, k, m \in Rounds : k < m =>
           reached[t][k] + (IF Between(t, k, m) THEN 1 ELSE 0) <= reached[t][m]

\* How often team t was among the first two.
Through(t) == tally[t].first + tally[t].second

Tallies == [first : Nat, second : Nat, third : Nat, points : Int]

TallyInv ==
    task # None =>
        /\ tally \in [TeamsOf(task) -> Tallies]
        /\ \A t \in TeamsOf(task) : /\ Through(t) <= sim
                                    /\ sim = 0 => tally[t].points = 0
                                    /\ Secured(task, t) => Through(t) = sim
        /\ \A t, u, v \in TeamsOf(task) : t # u /\ u # v /\ t # v =>
               Through(t) + Through(u) + Through(v) <= 2 * sim

-----------------------------------------------------------------------------
(* Rankings and tables.                                                    *)

\* A set has two members just in case its cardinality is above one.
LEMMA TwoMembers ==
    ASSUME NEW S, IsFiniteSet(S)
    PROVE  /\ Cardinality(S) \in Nat
           /\ Cardinality(S) > 1 => \E x, y \in S : x # y
           /\ \A x, y \in S : x # y => Cardinality(S) > 1
<1>1. Cardinality(S) \in Nat
  BY FS_CardinalityType
<1>2. ASSUME Cardinality(S) > 1 PROVE \E x, y \in S : x # y
  <2>1. S # {}
    BY <1>2, FS_EmptySet
  <2>2. PICK x \in S : TRUE
    BY <2>1
  <2>3. S # {x}
    BY <1>2, FS_Singleton
  <2>4. QED
    BY <2>2, <2>3
<1>3. ASSUME NEW x \in S, NEW y \in S, x # y PROVE Cardinality(S) > 1
  <2>1. IsFiniteSet({x}) /\ Cardinality({x}) = 1
    BY FS_Singleton
  <2>2. {x} \in SUBSET S /\ {x} # S
    BY <1>3
  <2>3. 1 <= Cardinality(S) /\ Cardinality(S) # 1
    BY <2>1, <2>2, FS_Subset
  <2>4. QED
    BY <1>1, <2>3
<1>4. QED
  BY <1>1, <1>2, <1>3

\* A ranking has every line once, none above an earlier one.
Sorted(s, n, S) ==
    /\ s \in [1..n -> S]
    /\ \A i, j \in 1..n : s[i] = s[j] => i = j
    /\ \A l \in S : \E i \in 1..n : s[i] = l
    /\ \A i, j \in 1..n : i < j => ~Above(s[j], s[i])

LEMMA RankingFacts ==
    ASSUME NEW S, IsFiniteSet(S), NEW s \in Rankings(S)
    PROVE  Cardinality(S) \in Nat /\ Sorted(s, Cardinality(S), S)
<1> DEFINE n == Cardinality(S)
<1>1. n \in Nat /\ IsFiniteSet(1..n) /\ Cardinality(1..n) = n
  BY FS_CardinalityType, FS_Interval
<1>2. /\ s \in [1..n -> S]
      /\ \A i, j \in 1..n : i # j => s[i] # s[j]
      /\ \A i, j \in 1..n : i < j => ~Above(s[j], s[i])
  BY DEF Rankings, SetToSeqs
<1> HIDE DEF n
<1>3. s \in Injection(1..n, S)
  BY <1>2 DEF Injection, IsInjective
<1>4. s \in Surjection(1..n, S)
  BY <1>1, <1>3, FS_Injection DEF n
<1>5. QED
  BY <1>1, <1>2, <1>4 DEF Surjection, Sorted, n

LEMMA GroupFacts ==
    ASSUME NEW g \in Groups, StandingsInv, task = None \/ task = g
    PROVE  /\ IsFiniteSet(Fixtures(g)) /\ IsFiniteSet(TeamsOf(g))
           /\ Cardinality(TeamsOf(g)) \in Nat /\ Cardinality(TeamsOf(g)) > 2
           /\ \A i \in Fixtures(g) : feed[i].score \in (Nat \X Nat) \cup {None}
           /\ \A h \in Groups : g # h => TeamsOf(g) \cap TeamsOf(h) = {}
<1>1. /\ IsFiniteSet(DOMAIN feed)
      /\ \A i \in DOMAIN feed : feed[i].score \in (Nat \X Nat) \cup {None}
      /\ Fixtures(g) # {} => Cardinality(TeamsOf(g)) > 2
      /\ \A h \in Groups : g # h => TeamsOf(g) \cap TeamsOf(h) = {}
  BY TournamentAssumption DEF StandingsInv, Fixtures, TeamsOf
<1>2. Fixtures(g) # {}
  BY TournamentAssumption DEF StandingsInv, Available
<1>3. Fixtures(g) \subseteq DOMAIN feed
  BY DEF Fixtures, FixturesIn
<1>4. IsFiniteSet(Fixtures(g))
  BY <1>1, <1>3, FS_Subset
<1>5. IsFiniteSet(TeamsOf(g))
  <2> DEFINE Sides == {{feed[i].home, feed[i].away} : i \in Fixtures(g)}
             f == [i \in Fixtures(g) |-> {feed[i].home, feed[i].away}]
  <2>1. f \in Surjection(Fixtures(g), Sides)
    BY DEF Surjection
  <2> HIDE DEF f
  <2>2. IsFiniteSet(Sides)
    <3> HIDE DEF Sides
    <3> QED BY <1>4, <2>1, FS_Surjection
  <2>3. ASSUME NEW a, NEW b PROVE IsFiniteSet({a, b})
    <3>1. IsFiniteSet({a})
      BY FS_Singleton
    <3>2. IsFiniteSet({a} \cup {b})
      BY <3>1, FS_AddElement
    <3>3. {a} \cup {b} = {a, b}
      OBVIOUS
    <3>4. QED
      BY <3>2, <3>3
  <2>4. \A T \in Sides : IsFiniteSet(T)
    BY <2>3
  <2>5. IsFiniteSet(UNION Sides)
    <3> HIDE DEF Sides
    <3> QED BY <2>2, <2>4, FS_UNION
  <2>6. TeamsOf(g) = UNION Sides
    BY DEF TeamsOf, TeamsIn, Fixtures
  <2>7. QED
    BY <2>5, <2>6
<1>6. Cardinality(TeamsOf(g)) \in Nat
  BY <1>5, FS_CardinalityType
<1>7. QED
  BY <1>1, <1>2, <1>3, <1>4, <1>5, <1>6

\* A table has one line per team.
LEMMA TableFacts ==
    ASSUME NEW g \in Groups, StandingsInv, task = None \/ task = g, NEW sampled
    PROVE  IsFiniteSet(Table(g, sampled)) /\ Cardinality(Table(g, sampled)) = Cardinality(TeamsOf(g))
<1> DEFINE T == TeamsOf(g)
           L == Table(g, sampled)
           f == [t \in T |-> Line(t, Fixtures(g), sampled)]
<1>1. \A t \in T : f[t].team = t
  BY DEF Line
<1>2. f \in [T -> L] /\ \A l \in L : \E t \in T : f[t] = l
  BY DEF Table
<1>3. IsFiniteSet(T)
  BY GroupFacts
<1> HIDE DEF T, L, f
<1>4. f \in Injection(T, L) /\ f \in Surjection(T, L)
  BY <1>1, <1>2 DEF Injection, IsInjective, Surjection
<1>5. IsFiniteSet(L) /\ Cardinality(L) = Cardinality(T)
  BY <1>3, <1>4, FS_Surjection
<1>6. QED
  BY <1>5 DEF T, L

\* The lines a group ends with are its teams, in an order of the table.
LEMMA EndingFacts ==
    ASSUME NEW g \in Groups, StandingsInv, task = None \/ task = g, NEW s \in Endings(g)
    PROVE  /\ \E n \in Nat, sampled \in [Open(g) -> Samples] :
                  n = Cardinality(TeamsOf(g)) /\ n > 2 /\ Sorted(s, n, Table(g, sampled))
<1>1. PICK sampled \in [Open(g) -> Samples] : s \in Rankings(Table(g, sampled))
  BY DEF Endings
<1> DEFINE S == Table(g, sampled)
<1>2. IsFiniteSet(S) /\ Cardinality(S) = Cardinality(TeamsOf(g))
  BY TableFacts
<1> HIDE DEF S
<1>3. Cardinality(S) \in Nat /\ Sorted(s, Cardinality(S), S)
  BY <1>1, <1>2, RankingFacts DEF S
<1>4. Cardinality(TeamsOf(g)) > 2
  BY GroupFacts
<1>5. QED
  BY <1>1, <1>2, <1>3, <1>4 DEF S

-----------------------------------------------------------------------------
(* Points.                                                                 *)

\* What is sampled leaves a team between the points it has and those it can get.
LEMMA Margins ==
    ASSUME NEW g \in Groups, StandingsInv, task = None \/ task = g,
           NEW sampled \in [Open(g) -> Samples], NEW t
    PROVE  /\ Points(t, Fixtures(g), sampled) \in Int
           /\ Has(g, t) \in Int /\ CanGet(g, t) \in Int
           /\ Has(g, t) <= Points(t, Fixtures(g), sampled)
           /\ Points(t, Fixtures(g), sampled) <= CanGet(g, t)
<1> DEFINE own == Own(t, Fixtures(g))
           open == Own(t, Unplayed(g))
           played == Own(t, Fixtures(g) \ Unplayed(g))
           f == [i \in own |-> PointsFor(Score(i, sampled, t))]
           h == [i \in played |-> PointsFor(Score(i, <<>>, t))]
           r == [i \in open |-> f[i]]
<1>1. IsFiniteSet(own) /\ IsFiniteSet(open) /\ IsFiniteSet(played)
  <2>1. own \subseteq Fixtures(g) /\ open \subseteq Fixtures(g) /\ played \subseteq Fixtures(g)
    BY DEF Own, Unplayed
  <2>2. QED
    BY <2>1, GroupFacts, FS_Subset
<1>2. played \in SUBSET own /\ open = own \ played
  BY DEF Own, Unplayed
<1>3. \A s : PointsFor(s) \in {0, 1, 3}
  BY DEF PointsFor
<1>4. /\ f \in [own -> Int] /\ h \in [played -> Int] /\ r \in [open -> Int]
      /\ \A i \in open : 0 <= r[i] /\ r[i] <= 3
  <2>1. \A i \in open : r[i] \in {0, 1, 3}
    BY <1>2, <1>3
  <2>2. QED
    BY <1>2, <1>3, <2>1
<1>5. ASSUME NEW i \in played PROVE h[i] = f[i]
  <2>1. i \in own /\ i \notin DOMAIN sampled /\ i \notin DOMAIN <<>>
    BY <1>2 DEF Own, Unplayed, Open
  <2>2. QED
    BY <2>1 DEF Score
<1>6. Points(t, Fixtures(g), sampled) = SumFunction(f) /\ Has(g, t) = SumFunction(h)
  BY DEF Points, Has
<1>7. CanGet(g, t) = Has(g, t) + 3 * Cardinality(open)
  BY DEF CanGet
<1>8. h = [i \in played |-> f[i]] /\ r = [i \in own \ played |-> f[i]]
  BY <1>2, <1>5
<1> HIDE DEF own, open, played, f, h, r
<1>9. SumFunction(f) = SumFunction(Restrict(f, played)) + SumFunction(Restrict(f, own \ played))
  BY <1>1, <1>2, <1>4, SumSplit
<1>10. SumFunction(f) = SumFunction(h) + SumFunction(r)
  BY <1>8, <1>9 DEF Restrict
<1>11. SumFunction(f) \in Int /\ SumFunction(h) \in Int /\ SumFunction(r) \in Int
  BY <1>1, <1>4, SumType
<1>12. 0 * Cardinality(open) <= SumFunction(r) /\ SumFunction(r) <= 3 * Cardinality(open)
  <2>1. 0 \in Int /\ 3 \in Int
    OBVIOUS
  <2>2. QED
    BY <1>1, <1>4, <2>1, SumBounded
<1>13. Cardinality(open) \in Nat
  BY <1>1, FS_CardinalityType
<1>14. QED
  BY <1>6, <1>7, <1>10, <1>11, <1>12, <1>13

\* A team that has made it is among the first two, however the group ends.
LEMMA SecuredPlaces ==
    ASSUME NEW g \in Groups, StandingsInv, task = None \/ task = g,
           NEW s \in Endings(g), NEW t \in TeamsOf(g), Secured(g, t)
    PROVE  t \in {s[1].team, s[2].team}
<1>1. PICK n \in Nat, sampled \in [Open(g) -> Samples] :
          n = Cardinality(TeamsOf(g)) /\ n > 2 /\ Sorted(s, n, Table(g, sampled))
  BY EndingFacts
<1> DEFINE L(u) == Line(u, Fixtures(g), sampled)
<1>2. \A u : L(u).team = u /\ L(u).points = Points(u, Fixtures(g), sampled)
  BY DEF Line
<1>3. Table(g, sampled) = {L(u) : u \in TeamsOf(g)}
  BY DEF Table
<1> HIDE DEF L
<1>4. PICK i \in 1..n : s[i] = L(t)
  BY <1>1, <1>3 DEF Sorted
<1>5. CASE i > 2
  <2>1. PICK u \in TeamsOf(g), v \in TeamsOf(g) : s[1] = L(u) /\ s[2] = L(v)
    <3>1. s[1] \in Table(g, sampled) /\ s[2] \in Table(g, sampled)
      BY <1>1 DEF Sorted
    <3>2. QED
      BY <1>3, <3>1
  <2>2. u # v /\ u # t /\ v # t
    BY <1>1, <1>4, <1>5, <2>1 DEF Sorted
  <2>3. ~Above(s[i], s[1]) /\ ~Above(s[i], s[2])
    BY <1>1, <1>5 DEF Sorted
  <2>4. ASSUME NEW w \in {u, v} PROVE CanGet(g, w) >= Has(g, t)
    <3>1. ~(L(t).points > L(w).points)
      BY <1>4, <2>1, <2>3 DEF Above
    <3>2. ~(Points(t, Fixtures(g), sampled) > Points(w, Fixtures(g), sampled))
      BY <1>2, <3>1
    <3>3. /\ Points(t, Fixtures(g), sampled) \in Int /\ Has(g, t) \in Int
          /\ Has(g, t) <= Points(t, Fixtures(g), sampled)
      BY Margins
    <3>4. /\ Points(w, Fixtures(g), sampled) \in Int /\ CanGet(g, w) \in Int
          /\ Points(w, Fixtures(g), sampled) <= CanGet(g, w)
      BY Margins
    <3>5. QED
      BY <3>2, <3>3, <3>4
  <2> DEFINE X == {w \in TeamsOf(g) \ {t} : CanGet(g, w) >= Has(g, t)}
  <2>5. IsFiniteSet(X)
    BY GroupFacts, FS_Subset
  <2>6. u \in X /\ v \in X
    BY <2>2, <2>4
  <2>7. Cardinality(X) \in Nat /\ Cardinality(X) <= 1
    BY <2>5, TwoMembers DEF Secured
  <2> HIDE DEF X
  <2>8. Cardinality(X) > 1
    BY <2>2, <2>5, <2>6, TwoMembers
  <2>9. QED
    BY <2>7, <2>8
<1>6. CASE i \in {1, 2}
  <2>1. s[i].team = t
    BY <1>2, <1>4
  <2>2. QED
    BY <1>6, <2>1
<1>7. QED
  BY <1>4, <1>5, <1>6

-----------------------------------------------------------------------------
(* The field.                                                              *)

\* All groups are played in this simulation of the tournament.
AllPlayed == StandingsInv /\ task = None /\ Len(standings) = NumGroups

\* No team has two places.
LEMMA PlacesApart ==
    ASSUME AllPlayed
    PROVE  /\ DOMAIN standings = Groups
           /\ \A g \in Groups, k \in 1..3 : standings[g][k].team \in TeamsOf(g)
           /\ \A g, h \in Groups, j, k \in 1..3 :
                  standings[g][j].team = standings[h][k].team => g = h /\ j = k
<1>1. DOMAIN standings = Groups
  BY DEF AllPlayed, StandingsInv, Groups
<1>2. ASSUME NEW g \in Groups
      PROVE  /\ \A k \in 1..3 : standings[g][k].team \in TeamsOf(g)
             /\ \A j, k \in 1..3 : standings[g][j].team = standings[g][k].team => j = k
  <2> DEFINE s == standings[g]
  <2>1. StandingsInv /\ task = None
    BY DEF AllPlayed
  <2>2. s \in Endings(g)
    BY <1>1, <2>1 DEF StandingsInv, GroupOf
  <2> HIDE DEF s
  <2>3. PICK n \in Nat, sampled \in [Open(g) -> Samples] :
            n = Cardinality(TeamsOf(g)) /\ n > 2 /\ Sorted(s, n, Table(g, sampled))
    BY <2>1, <2>2, EndingFacts
  <2>4. \A l \in Table(g, sampled) : l.team \in TeamsOf(g) /\ l = Line(l.team, Fixtures(g), sampled)
    BY DEF Table, Line
  <2>5. \A k \in 1..3 : k \in 1..n /\ s[k] \in Table(g, sampled)
    BY <2>3 DEF Sorted
  <2>6. ASSUME NEW j \in 1..3, NEW k \in 1..3, s[j].team = s[k].team PROVE j = k
    <3>1. s[j] = s[k]
      BY <2>4, <2>5, <2>6
    <3>2. QED
      BY <2>3, <2>5, <3>1 DEF Sorted
  <2>7. QED
    BY <2>4, <2>5, <2>6 DEF s
<1>3. \A g, h \in Groups : g # h => TeamsOf(g) \cap TeamsOf(h) = {}
  BY GroupFacts DEF AllPlayed
<1>4. QED
  BY <1>1, <1>2, <1>3

LEMMA PlaceFacts ==
    ASSUME AllPlayed, NEW k \in 1..3
    PROVE  IsFiniteSet(Place(k)) /\ Cardinality(Place(k)) = NumGroups
<1> DEFINE S == Place(k)
           f == [g \in Groups |-> standings[g][k]]
<1>1. f \in [Groups -> S] /\ \A l \in S : \E g \in Groups : f[g] = l
  BY PlacesApart DEF Place
<1>2. \A g, h \in Groups : f[g] = f[h] => g = h
  BY PlacesApart
<1> HIDE DEF S, f
<1>3. f \in Injection(Groups, S) /\ f \in Surjection(Groups, S)
  BY <1>1, <1>2 DEF Injection, IsInjective, Surjection
<1>4. IsFiniteSet(Groups) /\ Cardinality(Groups) = NumGroups
  BY TournamentAssumption, FS_Interval DEF Groups
<1>5. QED
  BY <1>3, <1>4, FS_Surjection DEF S

\* Seed i is the p-th of the winners, of the runners-up or of the thirds.
Seat(i, k, p) ==
    \/ k = 1 /\ i = p
    \/ k = 2 /\ i = NumGroups + p
    \/ k = 3 /\ p <= BestThirds /\ i = 2 * NumGroups + p

LEMMA Seats ==
    /\ NumGroups \in Nat /\ Size \in Nat
    /\ \A i \in 1..Size : \E k \in 1..3, p \in 1..NumGroups : Seat(i, k, p)
    /\ \A k \in 1..3, p \in 1..NumGroups :
           (k = 3 => p <= BestThirds) => \E i \in 1..Size : Seat(i, k, p)
    /\ \A i, j, k, p : Seat(i, k, p) /\ Seat(j, k, p) => i = j
<1> DEFINE N == NumGroups
           B == BestThirds
<1>1. N \in Nat \ {0} /\ B \in 0..N /\ Size = 2 * N + B
  BY TournamentAssumption DEF Size
<1>2. ASSUME NEW i \in 1..Size PROVE \E k \in 1..3, p \in 1..N : Seat(i, k, p)
  <2>1. CASE i <= N
    <3>1. i \in 1..N /\ 1 \in 1..3 /\ Seat(i, 1, i)
      BY <1>1, <2>1 DEF Seat
    <3>2. QED
      BY <3>1
  <2>2. CASE N < i /\ i <= 2 * N
    <3>1. i - N \in 1..N /\ 2 \in 1..3 /\ Seat(i, 2, i - N)
      BY <1>1, <2>2 DEF Seat
    <3>2. QED
      BY <3>1
  <2>3. CASE 2 * N < i
    <3>1. i - 2 * N \in 1..N /\ 3 \in 1..3 /\ Seat(i, 3, i - 2 * N)
      BY <1>1, <2>3 DEF Seat
    <3>2. QED
      BY <3>1
  <2>4. QED
    BY <1>1, <2>1, <2>2, <2>3
<1>3. ASSUME NEW k \in 1..3, NEW p \in 1..N, k = 3 => p <= B
      PROVE  \E i \in 1..Size : Seat(i, k, p)
  <2>1. CASE k = 1
    BY <1>1, <2>1 DEF Seat
  <2>2. CASE k = 2
    <3>1. N + p \in 1..Size /\ Seat(N + p, k, p)
      BY <1>1, <2>2 DEF Seat
    <3>2. QED
      BY <3>1
  <2>3. CASE k = 3
    <3>1. 2 * N + p \in 1..Size /\ Seat(2 * N + p, k, p)
      BY <1>1, <1>3, <2>3 DEF Seat
    <3>2. QED
      BY <3>1
  <2>4. QED
    BY <2>1, <2>2, <2>3
<1>4. \A i, j, k, p : Seat(i, k, p) /\ Seat(j, k, p) => i = j
  BY DEF Seat
<1>5. QED
  BY <1>1, <1>2, <1>3, <1>4

\* The field is made of the rankings of the places.
SeededBy(rankings) ==
    /\ \A k \in 1..3 : Sorted(rankings[k], NumGroups, Place(k))
    /\ seeded = [i \in 1..Size |-> seeded[i]]
    /\ \A i \in 1..Size, k \in 1..3, p \in 1..NumGroups :
           Seat(i, k, p) => seeded[i] = rankings[k][p].team

LEMMA SeededShape ==
    ASSUME AllPlayed, WellSeeded
    PROVE  \E rankings : SeededBy(rankings)
<1>1. PICK w \in Rankings(Place(1)), r \in Rankings(Place(2)), t \in Rankings(Place(3)) :
          seeded = Names(w) \o Names(r) \o SubSeq(Names(t), 1, BestThirds)
  BY DEF WellSeeded
<1> DEFINE N == NumGroups
           B == BestThirds
           o == <<w, r, t>>
           A == {x[i].team : x \in {w, r, t}, i \in 1..N}
<1>2. N \in Nat \ {0} /\ B \in 0..N /\ Size = 2 * N + B
  BY TournamentAssumption DEF Size
<1>3. Sorted(w, N, Place(1)) /\ Sorted(r, N, Place(2)) /\ Sorted(t, N, Place(3))
  BY PlaceFacts, RankingFacts
<1>4. \A x \in {w, r, t} : /\ Names(x) = [i \in 1..N |-> x[i].team]
                           /\ Names(x) \in Seq(A)
                           /\ Len(Names(x)) = N
  <2>1. ASSUME NEW x \in {w, r, t}
        PROVE  Names(x) = [i \in 1..N |-> x[i].team] /\ Names(x) \in Seq(A) /\ Len(Names(x)) = N
    <3>1. DOMAIN x = 1..N
      BY <1>3 DEF Sorted
    <3>2. Names(x) = [i \in 1..N |-> x[i].team]
      BY <3>1 DEF Names
    <3>3. \A i \in 1..N : x[i].team \in A
      OBVIOUS
    <3> HIDE DEF A
    <3>4. QED
      BY <1>2, <3>2, <3>3
  <2>2. QED
    BY <2>1
<1> HIDE DEF N, B, A
<1> DEFINE b == SubSeq(Names(t), 1, B)
           wr == Names(w) \o Names(r)
<1>5. b \in Seq(A) /\ Len(b) = B /\ \A i \in 1..B : b[i] = t[i].team
  <2>1. \A i \in 1..B : Names(t)[i] \in A /\ Names(t)[i] = t[i].team
    BY <1>2, <1>4
  <2>2. /\ b \in Seq(A)
        /\ Len(b) = IF 1 <= B THEN B - 1 + 1 ELSE 0
        /\ \A i \in 1..(B - 1 + 1) : b[i] = Names(t)[1 + i - 1]
    BY <1>2, <2>1, SubSeqProperties
  <2>3. ASSUME NEW i \in 1..B PROVE b[i] = t[i].team
    <3>1. i \in 1..(B - 1 + 1) /\ 1 + i - 1 = i
      BY <1>2
    <3>2. QED
      BY <2>1, <2>2, <3>1
  <2>4. Len(b) = B
    BY <1>2, <2>2
  <2> HIDE DEF b
  <2>5. QED
    BY <2>2, <2>3, <2>4
<1>6. /\ wr \in Seq(A) /\ Len(wr) = 2 * N
      /\ \A i \in 1..N : wr[i] = w[i].team /\ wr[N + i] = r[i].team
  <2>1. /\ wr \in Seq(A) /\ Len(wr) = N + N
        /\ \A i \in 1..(N + N) : wr[i] = IF i <= N THEN Names(w)[i] ELSE Names(r)[i - N]
    <3> DEFINE x == Names(w)
               y == Names(r)
    <3>1. x \in Seq(A) /\ y \in Seq(A) /\ Len(x) = N /\ Len(y) = N
      BY <1>4
    <3> HIDE DEF x, y
    <3>2. /\ x \o y \in Seq(A) /\ Len(x \o y) = Len(x) + Len(y)
          /\ \A i \in 1..(Len(x) + Len(y)) :
                 (x \o y)[i] = IF i <= Len(x) THEN x[i] ELSE y[i - Len(x)]
      BY <3>1, ConcatProperties
    <3>3. QED
      BY <3>1, <3>2 DEF x, y
  <2> HIDE DEF wr
  <2>2. ASSUME NEW i \in 1..N PROVE wr[i] = w[i].team /\ wr[N + i] = r[i].team
    <3>1. i \in 1..(N + N) /\ i <= N /\ N + i \in 1..(N + N) /\ ~(N + i <= N) /\ (N + i) - N = i
      BY <1>2
    <3>2. wr[i] = Names(w)[i] /\ wr[N + i] = Names(r)[(N + i) - N]
      BY <2>1, <3>1
    <3>3. QED
      BY <1>4, <3>1, <3>2
  <2>3. QED
    BY <1>2, <2>1, <2>2
<1>7. /\ Len(seeded) = Size /\ seeded \in Seq(A)
      /\ \A i \in 1..2 * N : seeded[i] = wr[i]
      /\ \A i \in 1..B : seeded[2 * N + i] = b[i]
  <2>1. seeded = wr \o b
    BY <1>1 DEF B
  <2> HIDE DEF wr, b
  <2>2. /\ seeded \in Seq(A) /\ Len(seeded) = 2 * N + B
        /\ \A i \in 1..(2 * N + B) : seeded[i] = IF i <= 2 * N THEN wr[i] ELSE b[i - 2 * N]
    <3> DEFINE n == 2 * N
    <3>1. n \in Nat /\ B \in Nat /\ Len(wr) = n /\ Len(b) = B /\ wr \in Seq(A) /\ b \in Seq(A)
      BY <1>2, <1>5, <1>6
    <3> HIDE DEF n
    <3>2. /\ wr \o b \in Seq(A) /\ Len(wr \o b) = Len(wr) + Len(b)
          /\ \A i \in 1..(Len(wr) + Len(b)) :
                 (wr \o b)[i] = IF i <= Len(wr) THEN wr[i] ELSE b[i - Len(wr)]
      BY <3>1, ConcatProperties
    <3>3. QED
      BY <2>1, <3>1, <3>2 DEF n
  <2>3. ASSUME NEW i \in 1..B PROVE seeded[2 * N + i] = b[i]
    <3>1. 2 * N + i \in 1..(2 * N + B) /\ ~(2 * N + i <= 2 * N) /\ (2 * N + i) - 2 * N = i
      BY <1>2
    <3>2. seeded[2 * N + i] = b[(2 * N + i) - 2 * N]
      BY <2>2, <3>1
    <3>3. QED
      BY <3>1, <3>2
  <2>4. QED
    BY <1>2, <2>2, <2>3
<1> HIDE DEF wr, b
<1>8. ASSUME NEW i \in 1..Size, NEW k \in 1..3, NEW p \in 1..N, Seat(i, k, p)
      PROVE  seeded[i] = o[k][p].team
  <2>1. CASE k = 1
    <3>1. i = p /\ p \in 1..2 * N
      BY <1>2, <1>8, <2>1 DEF Seat
    <3>2. QED
      BY <1>6, <1>7, <2>1, <3>1
  <2>2. CASE k = 2
    <3>1. i = N + p /\ N + p \in 1..2 * N
      BY <1>2, <1>8, <2>2 DEF Seat, N
    <3>2. QED
      BY <1>6, <1>7, <2>2, <3>1
  <2>3. CASE k = 3
    <3>1. i = 2 * N + p /\ p \in 1..B
      BY <1>2, <1>8, <2>3 DEF Seat, N, B
    <3>2. QED
      BY <1>5, <1>7, <2>3, <3>1
  <2>4. QED
    BY <2>1, <2>2, <2>3
<1>9. \A k \in 1..3 : Sorted(o[k], N, Place(k))
  BY <1>3
<1>10. seeded = [i \in 1..Size |-> seeded[i]]
  BY <1>7
<1> HIDE DEF o
<1>11. SeededBy(o)
  BY <1>8, <1>9, <1>10 DEF SeededBy, N
<1>12. QED
  BY <1>11

\* The seeds are teams of the field, each once.
GoodSeeds ==
    /\ seeded \in [1..Size -> Field]
    /\ \A i, j \in 1..Size : seeded[i] = seeded[j] => i = j
    /\ FieldIsBest

LEMMA SeededFacts == AllPlayed /\ WellSeeded => GoodSeeds
<1> SUFFICES ASSUME AllPlayed, WellSeeded PROVE GoodSeeds
  OBVIOUS
<1>1. PICK o : SeededBy(o)
  BY SeededShape
<1> DEFINE N == NumGroups
<1>2. \A k \in 1..3 : Sorted(o[k], N, Place(k))
  BY <1>1 DEF SeededBy
<1>3. ASSUME NEW k \in 1..3, NEW p \in 1..N
      PROVE  /\ o[k][p] \in Place(k)
             /\ \E g \in Groups : o[k][p] = standings[g][k]
  <2>1. o[k][p] \in Place(k)
    <3>1. Sorted(o[k], N, Place(k))
      BY <1>2
    <3>2. o[k] \in [1..N -> Place(k)]
      BY <3>1 DEF Sorted
    <3>3. QED
      BY <3>2
  <2>2. DOMAIN standings = Groups
    BY PlacesApart
  <2>3. QED
    BY <2>1, <2>2 DEF Place
<1>4. ASSUME NEW k \in 1..3, NEW p \in 1..N, NEW l \in 1..3, NEW q \in 1..N,
             o[k][p].team = o[l][q].team
      PROVE  k = l /\ p = q
  <2>1. PICK g \in Groups : o[k][p] = standings[g][k]
    BY <1>3
  <2>2. PICK h \in Groups : o[l][q] = standings[h][l]
    BY <1>3
  <2>3. g = h /\ k = l
    BY <1>4, <2>1, <2>2, PlacesApart
  <2>4. o[k][p] = o[k][q]
    BY <2>1, <2>2, <2>3
  <2>5. QED
    BY <1>2, <2>3, <2>4 DEF Sorted
<1>5. /\ DOMAIN seeded = 1..Size /\ seeded = [i \in 1..Size |-> seeded[i]]
      /\ \A i \in 1..Size, k \in 1..3, p \in 1..N : Seat(i, k, p) => seeded[i] = o[k][p].team
  BY <1>1 DEF SeededBy
<1>6. \A i \in 1..Size : \E k \in 1..3, p \in 1..N : Seat(i, k, p) /\ seeded[i] = o[k][p].team
  BY <1>5, Seats
<1>7. ASSUME NEW i \in 1..Size, NEW j \in 1..Size, seeded[i] = seeded[j] PROVE i = j
  <2>1. PICK k \in 1..3, p \in 1..N : Seat(i, k, p) /\ seeded[i] = o[k][p].team
    BY <1>6
  <2>2. PICK l \in 1..3, q \in 1..N : Seat(j, l, q) /\ seeded[j] = o[l][q].team
    BY <1>6
  <2>3. k = l /\ p = q
    <3>1. o[k][p].team = o[l][q].team
      BY <1>7, <2>1, <2>2
    <3>2. QED
      BY <1>4, <3>1
  <2>4. QED
    BY <2>1, <2>2, <2>3, Seats
<1>8. \A i \in 1..Size : seeded[i] \in Field
  <2>1. ASSUME NEW i \in 1..Size PROVE seeded[i] \in Field
    <3>1. PICK k \in 1..3, p \in 1..N : seeded[i] = o[k][p].team
      BY <1>6
    <3>2. PICK g \in Groups : o[k][p] = standings[g][k]
      BY <1>3
    <3>3. seeded[i] \in TeamsOf(g)
      BY <3>1, <3>2, PlacesApart
    <3>4. QED
      BY <3>3 DEF Field
  <2>2. QED
    BY <2>1
<1>9. ASSUME NEW k \in 1..3, NEW p \in 1..N, k = 3 => p <= BestThirds
      PROVE  o[k][p].team \in Range(seeded)
  <2>1. PICK i \in 1..Size : Seat(i, k, p)
    BY <1>9, Seats
  <2>2. seeded[i] = o[k][p].team
    BY <1>5, <2>1
  <2>3. QED
    BY <1>5, <2>2 DEF Range
<1>10. ASSUME NEW k \in 1..3, NEW l \in Place(k)
       PROVE  \E p \in 1..N : o[k][p] = l
  BY <1>2 DEF Sorted
<1>11. \A k \in {1, 2} : \A l \in Place(k) : l.team \in Range(seeded)
  <2>1. ASSUME NEW k \in {1, 2}, NEW l \in Place(k) PROVE l.team \in Range(seeded)
    <3>1. k \in 1..3 /\ k # 3
      OBVIOUS
    <3>2. PICK p \in 1..N : o[k][p] = l
      BY <1>10, <3>1
    <3>3. QED
      BY <1>9, <3>1, <3>2
  <2>2. QED
    BY <2>1
<1>12. \A t \in Range(seeded) : \E k \in 1..3 : \E l \in Place(k) : t = l.team
  <2>1. ASSUME NEW t \in Range(seeded) PROVE \E k \in 1..3 : \E l \in Place(k) : t = l.team
    <3>1. PICK i \in 1..Size : t = seeded[i]
      BY <1>5 DEF Range
    <3>2. QED
      BY <1>3, <1>6, <3>1
  <2>2. QED
    BY <2>1
<1>13. ASSUME NEW l \in Place(3), l.team \in Range(seeded), NEW m \in Place(3), m.team \notin Range(seeded)
       PROVE  ~Above(m, l)
  <2>1. 3 \in 1..3 /\ BestThirds \in 0..N /\ N \in Nat
    BY TournamentAssumption
  <2>2. PICK p \in 1..N : o[3][p] = l
    BY <1>10, <2>1
  <2>3. PICK q \in 1..N : o[3][q] = m
    BY <1>10, <2>1
  <2>4. ~(q <= BestThirds)
    BY <1>9, <1>13, <2>1, <2>3
  <2>5. PICK i \in 1..Size : l.team = seeded[i]
    BY <1>5, <1>13 DEF Range
  <2>6. PICK k \in 1..3, r \in 1..N : Seat(i, k, r) /\ seeded[i] = o[k][r].team
    BY <1>6
  <2>7. k = 3 /\ r = p
    <3>1. o[k][r].team = o[3][p].team
      BY <2>2, <2>5, <2>6
    <3>2. QED
      BY <1>4, <2>1, <3>1
  <2>8. p <= BestThirds
    BY <2>6, <2>7 DEF Seat
  <2>9. p < q
    BY <2>1, <2>4, <2>8
  <2>10. Sorted(o[3], N, Place(3))
    BY <1>2, <2>1
  <2>11. QED
    BY <2>2, <2>3, <2>9, <2>10 DEF Sorted
<1>14. IsInjective(seeded)
  BY <1>5, <1>7 DEF IsInjective
<1>15. {l.team : l \in Place(1) \cup Place(2)} \subseteq Range(seeded)
  BY <1>11
<1>16. Range(seeded) \subseteq {l.team : l \in Place(1) \cup Place(2) \cup Place(3)}
  <2>1. \A k \in 1..3 : k = 1 \/ k = 2 \/ k = 3
    OBVIOUS
  <2>2. \A t \in Range(seeded) : \E l \in Place(1) \cup Place(2) \cup Place(3) : t = l.team
    BY <1>12, <2>1
  <2>3. QED
    BY <2>2
<1>17. FieldIsBest
  BY <1>13, <1>14, <1>15, <1>16 DEF FieldIsBest
<1>18. seeded \in [1..Size -> Field]
  BY <1>5, <1>8
<1>19. QED
  BY <1>7, <1>17, <1>18 DEF GoodSeeds

-----------------------------------------------------------------------------
(* The steps.                                                              *)

\* What is read of the feed is the same while the feed is.
LEMMA SameFeed ==
    ASSUME feed' = feed
    PROVE  /\ \A g : /\ Fixtures(g)' = Fixtures(g) /\ TeamsOf(g)' = TeamsOf(g)
                     /\ Unplayed(g)' = Unplayed(g) /\ Open(g)' = Open(g)
           /\ Field' = Field
           /\ \A g : Endings(g)' = Endings(g)
           /\ \A g, t : Secured(g, t)' = Secured(g, t)
<1>1. \A g : /\ Fixtures(g)' = Fixtures(g) /\ TeamsOf(g)' = TeamsOf(g)
             /\ Unplayed(g)' = Unplayed(g) /\ Open(g)' = Open(g)
  BY DEF Fixtures, TeamsOf, Unplayed, Open
<1>2. \A t, S, sampled : Points(t, S, sampled)' = Points(t, S, sampled)
  BY DEF Points, Own, Score
<1>3. \A t, S, sampled : Line(t, S, sampled)' = Line(t, S, sampled)
  BY DEF Line, Points, Goals, Against, Own, Score
<1>4. \A g, sampled : Table(g, sampled)' = Table(g, sampled)
  BY <1>1, <1>3 DEF Table
<1>5. \A g : Endings(g)' = Endings(g)
  BY <1>1, <1>4 DEF Endings
<1>6. Field' = Field
  BY <1>1 DEF Field
<1>7. \A g, t : Has(g, t)' = Has(g, t) /\ CanGet(g, t)' = CanGet(g, t)
  BY <1>1, <1>2 DEF Has, CanGet, Own
<1>8. \A g, t : Secured(g, t)' = Secured(g, t)
  BY <1>1, <1>7 DEF Secured
<1>9. QED
  BY <1>1, <1>5, <1>6, <1>8

LEMMA StandingsSteps ==
    /\ TournamentInit => StandingsInv
    /\ StandingsInv /\ [TournamentNext]_tournamentVars => StandingsInv'
<1>1. ASSUME TournamentInit PROVE StandingsInv
  <2>1. standings = <<>> /\ sim \in Nat /\ NumGroups \in Nat
    BY <1>1, TournamentAssumption DEF TournamentInit
  <2>2. Len(standings) <= IF task = None THEN NumGroups ELSE 1
    BY <2>1
  <2>3. standings \in Seq(UNION {Endings(g) : g \in Groups})
    BY <2>1
  <2>4. \A k \in DOMAIN standings : standings[k] \in Endings(GroupOf(k))
    BY <2>1
  <2>5. QED
    BY <1>1, <2>1, <2>2, <2>3, <2>4 DEF TournamentInit, StandingsInv
<1>2. ASSUME StandingsInv, [TournamentNext]_tournamentVars PROVE StandingsInv'
  <2>1. feed' = feed /\ task' = task
    BY <1>2 DEF TournamentNext, tournamentVars, PlayGroup, TallyGroup, SeedBracket, PlayRound, NextSim
  <2>2. \A g : Endings(g)' = Endings(g)
    BY <2>1, SameFeed
  <2>3. \A k : GroupOf(k)' = GroupOf(k)
    BY <2>1 DEF GroupOf
  <2>4. (feed \in Feeds /\ task \in Tasks /\ Available(task))'
    <3>1. \A g : Fixtures(g)' = Fixtures(g)
      BY <2>1, SameFeed
    <3>2. Available(task)' = Available(task)
      BY <2>1, <3>1 DEF Available
    <3>3. QED
      BY <1>2, <2>1, <3>2 DEF StandingsInv, Tasks
  <2> DEFINE All == UNION {Endings(g) : g \in Groups}
             most == IF task = None THEN NumGroups ELSE 1
  <2>5. SUFFICES /\ sim' \in Nat
                 /\ standings' \in Seq(All)
                 /\ Len(standings') <= most
                 /\ \A k \in DOMAIN standings' : standings'[k] \in Endings(GroupOf(k))
    BY <2>1, <2>2, <2>3, <2>4 DEF StandingsInv
  <2>6. most \in Nat
    BY TournamentAssumption
  <2>7. CASE PlayGroup
    <3>1. /\ sim' = sim /\ Len(standings) < most
          /\ \E order \in Endings(ToPlay) : standings' = Append(standings, order)
      BY <2>7 DEF PlayGroup, Endings
    <3>2. PICK order \in Endings(ToPlay) : standings' = Append(standings, order)
      BY <3>1
    <3> DEFINE n == Len(standings)
    <3>3. n \in Nat /\ DOMAIN standings = 1..n /\ standings \in Seq(All)
      BY <1>2 DEF StandingsInv
    <3>4. ToPlay \in Groups /\ ToPlay = GroupOf(n + 1)
      <4>1. n < most /\ NumGroups \in Nat
        BY <3>1, TournamentAssumption DEF n
      <4>2. CASE task = None
        <5>1. n + 1 \in Groups
          BY <3>3, <4>1, <4>2 DEF Groups
        <5>2. QED
          BY <4>2, <5>1 DEF ToPlay, GroupOf, n
      <4>3. CASE task # None
        BY <1>2, <4>3 DEF StandingsInv, ToPlay, GroupOf, Tasks
      <4>4. QED
        BY <4>2, <4>3
    <3>5. order \in All
      BY <3>4
    <3> HIDE DEF n, All
    <3>6. /\ standings' \in Seq(All) /\ Len(standings') = n + 1
          /\ \A i \in 1..n : standings'[i] = standings[i]
          /\ standings'[n + 1] = order
      BY <3>2, <3>3, <3>5, AppendProperties DEF n
    <3>7. DOMAIN standings' = 1..(n + 1)
      BY <3>6
    <3>8. ASSUME NEW k \in 1..(n + 1) PROVE standings'[k] \in Endings(GroupOf(k))
      <4>1. k \in 1..n \/ k = n + 1
        BY <3>3
      <4>2. QED
        BY <1>2, <3>3, <3>4, <3>6, <4>1 DEF StandingsInv
    <3>9. Len(standings') <= most
      BY <2>6, <3>1, <3>3, <3>6 DEF n
    <3>10. sim' \in Nat
      BY <1>2, <3>1 DEF StandingsInv
    <3>11. QED
      BY <3>6, <3>7, <3>8, <3>9, <3>10
  <2>8. CASE TallyGroup \/ NextSim
    <3>1. standings' = <<>> /\ sim' = sim + 1
      BY <2>8 DEF TallyGroup, NextSim
    <3>2. standings' \in Seq(All) /\ Len(standings') = 0 /\ DOMAIN standings' = {}
      BY <3>1
    <3>3. QED
      BY <1>2, <2>6, <3>1, <3>2 DEF StandingsInv
  <2>9. CASE SeedBracket \/ PlayRound \/ UNCHANGED tournamentVars
    <3>1. standings' = standings /\ sim' = sim
      BY <2>9 DEF SeedBracket, PlayRound, tournamentVars
    <3>2. QED
      BY <1>2, <3>1 DEF StandingsInv
  <2>10. QED
    BY <1>2, <2>7, <2>8, <2>9 DEF TournamentNext
<1>3. QED
  BY <1>1, <1>2

LEMMA FieldSteps ==
    /\ TournamentInit => FieldInv
    /\ StandingsInv /\ FieldInv /\ [TournamentNext]_tournamentVars => FieldInv'
<1>1. TournamentInit => FieldInv
  BY DEF TournamentInit, FieldInv
<1>2. ASSUME StandingsInv, FieldInv, [TournamentNext]_tournamentVars, seeded' # <<>>
      PROVE  task' = None /\ Len(standings') = NumGroups /\ WellSeeded'
  <2>1. NumGroups \in Nat /\ Len(standings) \in Nat
    BY <1>2, TournamentAssumption DEF StandingsInv
  <2>2. CASE SeedBracket
    <3>1. /\ task' = None /\ standings' = standings /\ Len(standings) = NumGroups
          /\ \E w \in Rankings(Place(1)), r \in Rankings(Place(2)), t \in Rankings(Place(3)) :
                 seeded' = Names(w) \o Names(r) \o SubSeq(Names(t), 1, BestThirds)
      BY <2>2 DEF SeedBracket
    <3>2. \A k : Place(k)' = Place(k)
      BY <3>1 DEF Place
    <3>3. WellSeeded'
      BY <3>1, <3>2 DEF WellSeeded
    <3>4. QED
      BY <3>1, <3>3
  <2>3. CASE UNCHANGED <<task, standings, seeded>>
    <3>1. \A k : Place(k)' = Place(k)
      BY <2>3 DEF Place
    <3>2. task = None /\ Len(standings) = NumGroups /\ WellSeeded
      BY <1>2, <2>3 DEF FieldInv
    <3>3. WellSeeded'
      BY <2>3, <3>1, <3>2 DEF WellSeeded
    <3>4. QED
      BY <2>3, <3>2, <3>3
  <2>4. CASE PlayGroup \/ TallyGroup
    <3>1. seeded # <<>>
      BY <1>2, <2>4 DEF PlayGroup, TallyGroup
    <3>2. task = None /\ Len(standings) = NumGroups
      BY <1>2, <3>1 DEF FieldInv
    <3>3. QED
      BY <2>1, <2>4, <3>2 DEF PlayGroup, TallyGroup
  <2>5. CASE NextSim
    BY <1>2, <2>5 DEF NextSim
  <2>6. CASE PlayRound \/ UNCHANGED tournamentVars
    BY <2>3, <2>6 DEF PlayRound, tournamentVars
  <2>7. QED
    BY <1>2, <2>2, <2>4, <2>5, <2>6 DEF TournamentNext
<1>3. QED
  BY <1>1, <1>2 DEF FieldInv

\* While a bracket is not decided it has 2^(k+1) teams, and half as many go on.
LEMMA Halves ==
    ASSUME BracketInv, bracket # <<>>
    PROVE  /\ seeded # <<>> /\ Len(bracket) \in Nat \ {0}
           /\ \E k \in 0..Depth : BracketOf(k) /\ Len(bracket) = TwoTo[k]
           /\ Len(bracket) > 1 =>
                  \E k \in 0..Depth : /\ k # Depth /\ k + 1 \in 0..Depth /\ BracketOf(k + 1)
                                      /\ TwoTo[k] \in Nat \ {0} /\ Len(bracket) = 2 * TwoTo[k]
                                      /\ TwoTo[k + 1] = 2 * TwoTo[k]
                                      /\ Len(bracket) \div 2 = TwoTo[k]
<1>1. PICK k \in 0..Depth : seeded # <<>> /\ BracketOf(k)
  BY DEF BracketInv
<1>2. Depth \in Nat /\ TwoTo[k] \in Nat \ {0}
  BY TournamentAssumption, SizeSteps
<1>3. Len(bracket) = TwoTo[k]
  BY <1>1, <1>2 DEF BracketOf
<1>4. ASSUME Len(bracket) > 1
      PROVE  \E j \in 0..Depth : /\ j # Depth /\ j + 1 \in 0..Depth /\ BracketOf(j + 1)
                                 /\ TwoTo[j] \in Nat \ {0} /\ Len(bracket) = 2 * TwoTo[j]
                                 /\ TwoTo[j + 1] = 2 * TwoTo[j]
                                 /\ Len(bracket) \div 2 = TwoTo[j]
  <2>1. k # 0
    BY <1>2, <1>3, <1>4, SizeSteps
  <2> DEFINE j == k - 1
  <2>2. j \in 0..Depth /\ j # Depth /\ j + 1 = k
    BY <1>2, <2>1
  <2> HIDE DEF j
  <2>3. TwoTo[j] \in Nat \ {0} /\ TwoTo[j + 1] = 2 * TwoTo[j]
    BY <2>2, SizeSteps
  <2>4. (2 * TwoTo[j]) \div 2 = TwoTo[j]
    BY <2>3
  <2>5. QED
    BY <1>1, <1>3, <2>2, <2>3, <2>4
<1>5. QED
  BY <1>1, <1>2, <1>3, <1>4

\* One of each pair goes on.
GoesOn(next, k) ==
    /\ next \in [1..TwoTo[k] -> Range(bracket)]
    /\ \A i \in 1..TwoTo[k] : next[i] = bracket[2 * i - 1] \/ next[i] = bracket[2 * i]

LEMMA Winners ==
    ASSUME NEW k \in 0..Depth, k # Depth, BracketOf(k + 1), NEW next, GoesOn(next, k)
    PROVE  /\ next \in [1..TwoTo[k] -> Field]
           /\ \A i, j \in 1..TwoTo[k] : next[i] = next[j] => i = j
           /\ \A i \in 1..TwoTo[k] : \E s \in SeedOrder[k][i]..Size : next[i] = seeded[s]
<1> DEFINE n == TwoTo[k]
<1>1. /\ n \in Nat /\ next \in [1..n -> Range(bracket)]
      /\ \A i \in 1..n : next[i] = bracket[2 * i - 1] \/ next[i] = bracket[2 * i]
  BY SizeSteps DEF GoesOn
<1>2. /\ Depth \in Nat /\ Size \in Nat /\ k + 1 \in 0..Depth
      /\ TwoTo[k + 1] = 2 * n /\ TwoTo[k] = n
  <2>1. TwoTo[k + 1] = 2 * n
    BY SizeSteps
  <2>2. Depth \in Nat /\ Size \in Nat
    BY TournamentAssumption, Seats
  <2>3. QED
    BY <2>1, <2>2
<1> HIDE DEF n
<1>3. /\ bracket \in [1..2 * n -> Field]
      /\ \A i, j \in 1..2 * n : bracket[i] = bracket[j] => i = j
      /\ \A i \in 1..2 * n : \E s \in SeedOrder[k + 1][i]..Size : bracket[i] = seeded[s]
  BY <1>2 DEF BracketOf
<1>4. ASSUME NEW i \in 1..n
      PROVE  \E x \in 1..2 * n : (x = 2 * i - 1 \/ x = 2 * i) /\ next[i] = bracket[x]
  <2>1. 2 * i - 1 \in 1..2 * n /\ 2 * i \in 1..2 * n
    BY <1>1
  <2>2. next[i] = bracket[2 * i - 1] \/ next[i] = bracket[2 * i]
    BY <1>1
  <2>3. QED
    BY <2>1, <2>2
<1>5. ASSUME NEW i \in 1..n PROVE \E s \in SeedOrder[k][i]..Size : next[i] = seeded[s]
  <2>1. SeedOrder[k][i] \in 1..n
    BY <1>2, OrderFacts DEF IsOrder, Permutes
  <2>2. /\ SeedOrder[k + 1][2 * i - 1] = SeedOrder[k][i]
        /\ SeedOrder[k + 1][2 * i] = 2 * n + 1 - SeedOrder[k][i]
    BY <1>2, OrderFacts
  <2>3. PICK x \in 1..2 * n : (x = 2 * i - 1 \/ x = 2 * i) /\ next[i] = bracket[x]
    BY <1>4
  <2>4. SeedOrder[k + 1][x] \in Int /\ SeedOrder[k][i] <= SeedOrder[k + 1][x]
    <3> DEFINE o == SeedOrder[k][i]
    <3>1. o \in 1..n /\ (SeedOrder[k + 1][x] = o \/ SeedOrder[k + 1][x] = 2 * n + 1 - o)
      BY <2>1, <2>2, <2>3
    <3> HIDE DEF o
    <3>2. 2 * n + 1 - o \in Int /\ o <= 2 * n + 1 - o /\ o <= o /\ o \in Int
      BY <1>1, <3>1
    <3>3. QED
      BY <3>1, <3>2 DEF o
  <2>5. PICK s \in SeedOrder[k + 1][x]..Size : bracket[x] = seeded[s]
    BY <1>3, <2>3
  <2>6. s \in SeedOrder[k][i]..Size
    BY <1>2, <2>1, <2>4
  <2>7. QED
    BY <2>3, <2>5, <2>6
<1>6. \A i \in 1..n : next[i] \in Field /\ next[i] \in Range(bracket)
  BY <1>3, <1>4 DEF Range
<1>7. ASSUME NEW i \in 1..n, NEW j \in 1..n, next[i] = next[j] PROVE i = j
  <2>1. PICK x \in 1..2 * n : (x = 2 * i - 1 \/ x = 2 * i) /\ next[i] = bracket[x]
    BY <1>4
  <2>2. PICK y \in 1..2 * n : (y = 2 * j - 1 \/ y = 2 * j) /\ next[j] = bracket[y]
    BY <1>4
  <2>3. x = y
    BY <1>3, <1>7, <2>1, <2>2
  <2>4. QED
    BY <2>1, <2>2, <2>3
<1>8. next \in [1..n -> Field]
  BY <1>1, <1>6
<1>9. QED
  BY <1>5, <1>7, <1>8 DEF n

LEMMA BracketSteps ==
    /\ TournamentInit => BracketInv
    /\ /\ StandingsInv /\ BracketInv /\ [TournamentNext]_tournamentVars
       /\ StandingsInv' /\ FieldInv'
       => BracketInv'
<1>1. TournamentInit => BracketInv
  BY DEF TournamentInit, BracketInv
<1>2. ASSUME StandingsInv, BracketInv, [TournamentNext]_tournamentVars, StandingsInv', FieldInv',
             bracket' # <<>>
      PROVE  seeded' # <<>> /\ \E k \in 0..Depth : BracketOf(k)'
  <2>1. Depth \in Nat /\ Size = TwoTo[Depth] /\ Size \in Nat \ {0}
    BY TournamentAssumption, SizeSteps
  <2>2. Field' = Field
    BY <1>2, SameFeed
    DEF TournamentNext, tournamentVars, PlayGroup, TallyGroup, SeedBracket, PlayRound, NextSim
  <2>3. CASE SeedBracket
    <3>1. /\ task' = None /\ standings' = standings /\ Len(standings) = NumGroups
          /\ bracket' = [i \in 1..Size |-> seeded'[SeedOrder[Depth][i]]]
          /\ \E w \in Rankings(Place(1)), r \in Rankings(Place(2)), t \in Rankings(Place(3)) :
                 seeded' = Names(w) \o Names(r) \o SubSeq(Names(t), 1, BestThirds)
      BY <2>3 DEF SeedBracket
    <3>2. \A k : Place(k)' = Place(k)
      BY <3>1 DEF Place
    <3>3. AllPlayed' /\ WellSeeded'
      BY <1>2, <3>1, <3>2 DEF AllPlayed, WellSeeded
    <3>4. (AllPlayed /\ WellSeeded => GoodSeeds)'
      BY SeededFacts, PTL
    <3>5. /\ seeded' \in [1..Size -> Field]
          /\ \A i, j \in 1..Size : seeded'[i] = seeded'[j] => i = j
      BY <2>2, <3>3, <3>4 DEF GoodSeeds
    <3> DEFINE o == SeedOrder[Depth]
    <3>6. o \in [1..Size -> 1..Size] /\ \A i, j \in 1..Size : o[i] = o[j] => i = j
      BY <2>1, OrderFacts DEF IsOrder, Permutes
    <3> HIDE DEF o
    <3>7. \A i \in 1..Size : o[i] \in 1..Size /\ bracket'[i] = seeded'[o[i]]
      BY <3>1, <3>6 DEF o
    <3>8. bracket' \in [1..Size -> Field]
      BY <3>1, <3>5, <3>6 DEF o
    <3>9. \A i, j \in 1..Size : bracket'[i] = bracket'[j] => i = j
      BY <3>5, <3>6, <3>7
    <3>10. \A i \in 1..Size : \E s \in o[i]..Size : bracket'[i] = seeded'[s]
      <4>1. ASSUME NEW i \in 1..Size PROVE o[i] \in o[i]..Size
        BY <2>1, <3>7
      <4>2. QED
        BY <3>7, <4>1
    <3>11. BracketOf(Depth)'
      BY <2>1, <2>2, <3>8, <3>9, <3>10 DEF BracketOf, o
    <3>12. seeded' # <<>>
      BY <2>1, <3>5
    <3>13. QED
      BY <2>1, <3>11, <3>12
  <2>4. CASE PlayRound
    <3>1. seeded' = seeded /\ Len(bracket) > 1
      BY <2>4 DEF PlayRound
    <3>2. bracket # <<>>
      BY <3>1
    <3>3. PICK k \in 0..Depth : /\ k # Depth /\ BracketOf(k + 1) /\ TwoTo[k + 1] = 2 * TwoTo[k]
                                /\ TwoTo[k] \in Nat \ {0} /\ Len(bracket) \div 2 = TwoTo[k]
      BY <1>2, <3>1, <3>2, Halves
    <3> DEFINE n == TwoTo[k]
    <3>4. PICK side \in [1..n -> {0, 1}] : bracket' = [i \in 1..n |-> bracket[2 * i - side[i]]]
      BY <2>4, <3>3 DEF PlayRound
    <3>5. ASSUME NEW i \in 1..n
          PROVE  /\ bracket'[i] = bracket[2 * i - 1] \/ bracket'[i] = bracket[2 * i]
                 /\ bracket'[i] \in Range(bracket)
      <4>1. side[i] \in {0, 1} /\ bracket'[i] = bracket[2 * i - side[i]] /\ 2 * i - 0 = 2 * i
        BY <3>3, <3>4
      <4>2. 2 * i - 1 \in 1..2 * n /\ 2 * i \in 1..2 * n /\ 1..2 * n = DOMAIN bracket
        BY <3>3 DEF BracketOf
      <4>3. QED
        BY <4>1, <4>2 DEF Range
    <3>6. GoesOn(bracket', k)
      BY <3>3, <3>4, <3>5 DEF GoesOn
    <3> HIDE DEF n
    <3>7. /\ bracket' \in [1..TwoTo[k] -> Field]
          /\ \A i, j \in 1..TwoTo[k] : bracket'[i] = bracket'[j] => i = j
          /\ \A i \in 1..TwoTo[k] : \E s \in SeedOrder[k][i]..Size : bracket'[i] = seeded[s]
      BY <3>3, <3>6, Winners
    <3>8. BracketOf(k)'
      BY <2>2, <3>1, <3>7 DEF BracketOf
    <3>9. seeded # <<>>
      BY <1>2, <3>2, Halves
    <3>10. QED
      BY <3>1, <3>8, <3>9
  <2>5. CASE NextSim
    BY <1>2, <2>5 DEF NextSim
  <2>6. CASE UNCHANGED <<seeded, bracket>>
    <3>1. \A k : BracketOf(k)' = BracketOf(k)
      BY <2>2, <2>6 DEF BracketOf
    <3>2. QED
      BY <1>2, <2>6, <3>1 DEF BracketInv
  <2>7. PlayGroup \/ TallyGroup \/ UNCHANGED tournamentVars => UNCHANGED <<seeded, bracket>>
    BY DEF PlayGroup, TallyGroup, tournamentVars
  <2>8. QED
    BY <1>2, <2>3, <2>4, <2>5, <2>6, <2>7 DEF TournamentNext
<1>3. QED
  BY <1>1, <1>2 DEF BracketInv

LEMMA Apart ==
    StandingsInv /\ FieldInv /\ BracketInv => BestMeetLate
<1> SUFFICES ASSUME StandingsInv, FieldInv, BracketInv, Len(bracket) > 1,
                    NEW i \in 1..(Len(bracket) \div 2)
             PROVE  bracket[2 * i] \notin Range(SubSeq(seeded, 1, Len(bracket) \div 2))
  BY DEF BestMeetLate
<1>1. bracket # <<>>
  OBVIOUS
<1>2. PICK k \in 0..Depth : /\ k # Depth /\ k + 1 \in 0..Depth /\ BracketOf(k + 1)
                            /\ TwoTo[k] \in Nat \ {0} /\ TwoTo[k + 1] = 2 * TwoTo[k]
                            /\ Len(bracket) \div 2 = TwoTo[k]
  BY <1>1, Halves
<1> DEFINE n == TwoTo[k]
<1>3. n \in Nat \ {0} /\ i \in 1..n /\ Depth \in Nat /\ Size \in Nat /\ Size = TwoTo[Depth]
  BY <1>2, TournamentAssumption, Seats
<1>4. 2 * n <= Size
  BY <1>2, <1>3, SizesApart
<1>5. GoodSeeds
  <2>1. seeded # <<>>
    BY <1>1, Halves
  <2>2. QED
    BY <2>1, SeededFacts DEF FieldInv, AllPlayed
<1>6. SeedOrder[k][i] \in 1..n /\ SeedOrder[k + 1][2 * i] = 2 * n + 1 - SeedOrder[k][i]
  <2>1. IsOrder(k) /\ i \in 1..TwoTo[k]
    BY <1>3, OrderFacts
  <2>2. SeedOrder[k + 1][2 * i] = TwoTo[k + 1] + 1 - SeedOrder[k][i]
    BY <1>2, <2>1, OrderFacts
  <2>3. SeedOrder[k][i] \in 1..TwoTo[k]
    BY <2>1 DEF IsOrder, Permutes
  <2>4. QED
    BY <1>2, <2>2, <2>3
<1> HIDE DEF n
<1>7. 2 * i \in 1..2 * n
  BY <1>3
<1>8. PICK s \in SeedOrder[k + 1][2 * i]..Size : bracket[2 * i] = seeded[s]
  BY <1>2, <1>7 DEF BracketOf, n
<1>9. s \in 1..Size /\ n < s
  <2> DEFINE o == SeedOrder[k][i]
  <2>1. o \in 1..n /\ s \in (2 * n + 1 - o)..Size
    BY <1>6, <1>8
  <2> HIDE DEF o
  <2>2. QED
    BY <1>3, <2>1
<1> DEFINE first == SubSeq(seeded, 1, n)
<1>10. Len(first) = n /\ first \in Seq(Field) /\ \A j \in 1..n : first[j] = seeded[j]
  <2>1. \A j \in 1..n : seeded[j] \in Field
    <3>1. \A j \in 1..n : j \in 1..Size
      BY <1>3, <1>4
    <3>2. QED
      BY <1>5, <3>1 DEF GoodSeeds
  <2>2. 1 \in Int /\ n \in Int /\ 1 <= n
    BY <1>3
  <2>3. /\ first \in Seq(Field)
        /\ Len(first) = IF 1 <= n THEN n - 1 + 1 ELSE 0
        /\ \A j \in 1..(n - 1 + 1) : first[j] = seeded[1 + j - 1]
    BY <2>1, <2>2, SubSeqProperties
  <2> HIDE DEF first
  <2>4. ASSUME NEW j \in 1..n PROVE first[j] = seeded[j]
    <3>1. j \in 1..(n - 1 + 1) /\ 1 + j - 1 = j
      BY <1>3
    <3>2. QED
      BY <2>3, <3>1
  <2>5. QED
    BY <1>3, <2>2, <2>3, <2>4
<1>11. ASSUME bracket[2 * i] \in Range(first) PROVE FALSE
  <2>1. DOMAIN first = 1..n
    BY <1>10
  <2>2. PICK j \in 1..n : seeded[s] = first[j]
    BY <1>8, <1>11, <2>1 DEF Range
  <2>3. seeded[s] = seeded[j] /\ j \in 1..Size
    BY <1>3, <1>4, <1>10, <2>2
  <2>4. s = j
    BY <1>5, <1>9, <2>3 DEF GoodSeeds
  <2>5. QED
    BY <1>3, <1>9, <2>4
<1>12. QED
  BY <1>2, <1>11 DEF n

LEMMA RoundFacts ==
    /\ \A k \in Rounds : k \in Nat \ {0} /\ k < Size
    /\ \A k, m \in Rounds : k < m => 2 * k <= m
    /\ \A j \in 0..Depth : j # Depth => TwoTo[j] \in Rounds
<1>1. Depth \in Nat /\ Size = TwoTo[Depth]
  BY TournamentAssumption
<1>2. \A k \in Rounds : \E j \in 0..Depth : j # Depth /\ k = TwoTo[j]
  BY <1>1 DEF Rounds
<1>3. ASSUME NEW k \in Rounds PROVE k \in Nat \ {0} /\ k < Size
  <2>1. PICK j \in 0..Depth : j # Depth /\ k = TwoTo[j]
    BY <1>2
  <2>2. j < Depth /\ Depth \in 0..Depth
    BY <1>1, <2>1
  <2>3. QED
    BY <1>1, <2>1, <2>2, SizesApart, SizeSteps
<1>4. ASSUME NEW k \in Rounds, NEW m \in Rounds, k < m PROVE 2 * k <= m
  <2>1. PICK i \in 0..Depth : k = TwoTo[i]
    BY <1>2
  <2>2. PICK j \in 0..Depth : m = TwoTo[j]
    BY <1>2
  <2>3. QED
    BY <1>4, <2>1, <2>2, SizesApart
<1>5. \A j \in 0..Depth : j # Depth => TwoTo[j] \in Rounds
  <2>1. \A j \in 0..Depth : j # Depth => j \in 0..(Depth - 1)
    BY <1>1
  <2>2. QED
    BY <2>1 DEF Rounds
<1>6. QED
  BY <1>3, <1>4, <1>5

LEMMA FieldFinite ==
    ASSUME StandingsInv, task = None
    PROVE  IsFiniteSet(Field)
<1> DEFINE f == [g \in Groups |-> TeamsOf(g)]
           S == {TeamsOf(g) : g \in Groups}
<1>1. f \in Surjection(Groups, S) /\ \A T \in S : IsFiniteSet(T)
  BY GroupFacts DEF Surjection
<1>2. IsFiniteSet(Groups)
  BY TournamentAssumption, FS_Interval DEF Groups
<1>3. Field = UNION S
  BY DEF Field
<1> HIDE DEF f, S
<1>4. IsFiniteSet(S)
  BY <1>1, <1>2, FS_Surjection
<1>5. QED
  BY <1>1, <1>3, <1>4, FS_UNION

\* Counting n teams once more adds n to what was counted.
CountsOn(F, n, next, e, f) ==
    /\ next \in [1..n -> F] /\ \A i, j \in 1..n : next[i] = next[j] => i = j
    /\ f \in [F -> Int] /\ e \in [F -> Int]
    /\ \A t \in F : e[t] = IF t \in Range(next) THEN f[t] + 1 ELSE f[t]

LEMMA OnceMore ==
    ASSUME NEW F, IsFiniteSet(F), NEW n \in Nat, NEW next, NEW e, NEW f, CountsOn(F, n, next, e, f)
    PROVE  SumFunction(e) = SumFunction(f) + n
<1> DEFINE A == Range(next)
           h == [t \in F |-> IF t \in A THEN 1 ELSE 0]
<1>1. A \in SUBSET F
  BY DEF Range, CountsOn
<1>2. next \in Injection(1..n, A) /\ next \in Surjection(1..n, A)
  BY DEF Range, Injection, IsInjective, Surjection, CountsOn
<1> HIDE DEF A
<1>3. /\ h \in [F -> Int] /\ \A t \in F : h[t] = IF t \in A THEN 1 ELSE 0
      /\ \A t \in F : e[t] = f[t] + h[t]
  <2>1. \A t \in F : e[t] = f[t] + h[t]
    BY DEF A, CountsOn
  <2>2. QED
    BY <2>1
<1> HIDE DEF h
<1>4. IsFiniteSet(1..n) /\ Cardinality(1..n) = n
  BY FS_Interval
<1>5. Cardinality(A) = n
  BY <1>2, <1>4, FS_Surjection
<1>6. SumFunction(h) = Cardinality(A)
  BY <1>1, <1>3, SumCounts
<1>7. SumFunction(e) = SumFunction(f) + SumFunction(h)
  <2>1. Adds(F, e, f, h)
    BY <1>3 DEF Adds, CountsOn
  <2>2. QED
    BY <2>1, SumAdded
<1>8. QED
  BY <1>5, <1>6, <1>7

\* What the counts are after any step but a round of the bracket.
LEMMA RoundsHalved ==
    StandingsInv /\ ReachedInv => RoundsHalve
<1> SUFFICES ASSUME StandingsInv, ReachedInv, task = None, bracket = <<>>
             PROVE  /\ \A k \in Rounds :
                           SumFunction([t \in DOMAIN reached |-> reached[t][k]]) = sim * k
                    /\ \A t \in Field, k, m \in Rounds : k < m => reached[t][k] <= reached[t][m]
  BY DEF RoundsHalve, ReachedInv
<1>1. \A k : SoFar(k) = 0
  BY DEF SoFar
<1>2. ASSUME NEW k \in Rounds
      PROVE  SumFunction([t \in DOMAIN reached |-> reached[t][k]]) = sim * k
  <2>1. SumFunction([t \in DOMAIN reached |-> reached[t][k]]) = sim * k + SoFar(k)
    BY DEF ReachedInv, Count
  <2>2. sim \in Nat /\ k \in Nat
    BY RoundFacts DEF StandingsInv
  <2>3. sim * k + SoFar(k) = sim * k
    BY <1>1, <2>2
  <2>4. QED
    BY <2>1, <2>3
<1>3. ASSUME NEW t \in Field, NEW k \in Rounds, NEW m \in Rounds, k < m
      PROVE  reached[t][k] <= reached[t][m]
  <2>1. reached[t][k] \in Nat /\ reached[t][k] + 0 <= reached[t][m]
    BY <1>3 DEF ReachedInv, Between
  <2>2. QED
    BY <2>1
<1>4. QED
  BY <1>2, <1>3

\* A round adds its teams to the counts of that round.
LEMMA RoundCounted ==
    ASSUME StandingsInv, FieldInv, BracketInv, ReachedInv, PlayRound
    PROVE  \E k \in 0..Depth :
               LET n == TwoTo[k]
               IN  /\ task = None /\ n \in Rounds /\ Len(bracket) = 2 * n /\ Len(bracket') = n
                   /\ Range(bracket') \subseteq Range(bracket)
                   /\ reached' \in [Field -> [Rounds -> Nat]]
                   /\ \A t \in Field, m \in Rounds :
                          reached'[t][m] = reached[t][m]
                                           + IF m = n /\ t \in Range(bracket') THEN 1 ELSE 0
                   /\ Count(n)' = Count(n) + n
                   /\ \A m \in Rounds : m # n => Count(m)' = Count(m)
<1>1. Len(bracket) > 1 /\ bracket # <<>>
  BY DEF PlayRound
<1>2. PICK k \in 0..Depth : /\ k # Depth /\ BracketOf(k + 1) /\ Len(bracket) = 2 * TwoTo[k]
                            /\ TwoTo[k + 1] = 2 * TwoTo[k]
                            /\ TwoTo[k] \in Nat \ {0} /\ Len(bracket) \div 2 = TwoTo[k]
  BY <1>1, Halves
<1> DEFINE n == TwoTo[k]
           F == Field
<1>3. task = None /\ IsFiniteSet(F) /\ n \in Rounds /\ n \in Nat
  BY <1>1, <1>2, Halves, FieldFinite, RoundFacts DEF FieldInv
<1>4. PICK side \in [1..n -> {0, 1}] :
          /\ bracket' = [i \in 1..n |-> bracket[2 * i - side[i]]]
          /\ reached' = [t \in DOMAIN reached |->
                 IF t \in Range(bracket') THEN [reached[t] EXCEPT ![Len(bracket')] = @ + 1]
                 ELSE reached[t]]
  <2>1. \E side \in [1..(Len(bracket) \div 2) -> {0, 1}] :
            LET next == [i \in DOMAIN side |-> bracket[2 * i - side[i]]]
            IN  /\ bracket' = next
                /\ reached' = [t \in DOMAIN reached |->
                       IF t \in Range(next) THEN [reached[t] EXCEPT ![Len(next)] = @ + 1]
                       ELSE reached[t]]
    BY DEF PlayRound, Advanced
  <2>2. PICK side \in [1..n -> {0, 1}] :
            LET next == [i \in DOMAIN side |-> bracket[2 * i - side[i]]]
            IN  /\ bracket' = next
                /\ reached' = [t \in DOMAIN reached |->
                       IF t \in Range(next) THEN [reached[t] EXCEPT ![Len(next)] = @ + 1]
                       ELSE reached[t]]
    <3>1. Len(bracket) \div 2 = n
      BY <1>2
    <3> HIDE DEF n
    <3>2. QED
      BY <2>1, <3>1, Zenon
  <2>3. DOMAIN side = 1..n
    OBVIOUS
  <2>4. QED
    BY <2>2, <2>3, Zenon
<1>5. ASSUME NEW i \in 1..n
      PROVE  /\ bracket'[i] = bracket[2 * i - 1] \/ bracket'[i] = bracket[2 * i]
             /\ bracket'[i] \in Range(bracket)
  <2>1. side[i] \in {0, 1} /\ bracket'[i] = bracket[2 * i - side[i]] /\ 2 * i - 0 = 2 * i
    BY <1>3, <1>4
  <2>2. 2 * i - 1 \in 1..2 * n /\ 2 * i \in 1..2 * n /\ 1..2 * n = DOMAIN bracket
    BY <1>2 DEF BracketOf
  <2>3. QED
    BY <2>1, <2>2 DEF Range
<1>6. GoesOn(bracket', k)
  BY <1>2, <1>4, <1>5 DEF GoesOn
<1>7. /\ bracket' \in [1..n -> F]
      /\ \A i, j \in 1..n : bracket'[i] = bracket'[j] => i = j
  BY <1>2, <1>6, Winners
<1>8. reached \in [F -> [Rounds -> Nat]]
  BY DEF ReachedInv
<1> HIDE DEF n, F
<1>9. Len(bracket') = n
  BY <1>3, <1>7
<1>10. Range(bracket') \subseteq Range(bracket)
  BY <1>5, <1>7 DEF Range
<1>11. /\ reached' \in [F -> [Rounds -> Nat]]
       /\ \A t \in F, m \in Rounds :
              reached'[t][m] = reached[t][m] + IF m = n /\ t \in Range(bracket') THEN 1 ELSE 0
  <2>1. ASSUME NEW t \in F
        PROVE  /\ reached'[t] \in [Rounds -> Nat]
               /\ \A m \in Rounds :
                      reached'[t][m] = reached[t][m] + IF m = n /\ t \in Range(bracket') THEN 1 ELSE 0
    <3>1. reached[t] \in [Rounds -> Nat]
      BY <1>8
    <3>2. CASE t \in Range(bracket')
      <4>1. reached'[t] = [reached[t] EXCEPT ![n] = @ + 1]
        BY <1>4, <1>8, <1>9, <3>2
      <4>2. ASSUME NEW m \in Rounds
            PROVE  /\ reached[t][m] \in Nat
                   /\ reached'[t][m] = reached[t][m] + IF m = n THEN 1 ELSE 0
        <5>1. reached[t][m] \in Nat
          BY <3>1
        <5>2. CASE m = n
          BY <1>3, <3>1, <4>1, <5>2
        <5>3. CASE m # n
          BY <3>1, <4>1, <5>1, <5>3
        <5>4. QED
          BY <5>1, <5>2, <5>3
      <4>3. reached'[t] = [m \in Rounds |-> reached'[t][m]]
        BY <3>1, <4>1
      <4>4. QED
        BY <3>2, <4>2, <4>3
    <3>3. CASE t \notin Range(bracket')
      <4>1. reached'[t] = reached[t]
        BY <1>4, <1>8, <3>3
      <4>2. \A m \in Rounds : reached[t][m] \in Nat
        BY <3>1
      <4>3. QED
        BY <3>1, <3>3, <4>1, <4>2
    <3>4. QED
      BY <3>2, <3>3
  <2>2. reached' = [t \in F |-> reached'[t]]
    BY <1>4, <1>8
  <2>3. QED
    BY <2>1, <2>2
<1>12. DOMAIN reached = F /\ DOMAIN reached' = F
  BY <1>8, <1>11
<1>13. Count(n)' = Count(n) + n
  <2> DEFINE f == [t \in F |-> reached[t][n]]
             e == [t \in F |-> reached'[t][n]]
             next == bracket'
  <2>1. f \in [F -> Int] /\ e \in [F -> Int]
    BY <1>3, <1>8, <1>11
  <2>2. \A t \in F : e[t] = IF t \in Range(next) THEN f[t] + 1 ELSE f[t]
    BY <1>3, <1>8, <1>11
  <2>3. Count(n) = SumFunction(f) /\ Count(n)' = SumFunction(e)
    BY <1>12 DEF Count
  <2>4. next \in [1..n -> F] /\ \A i, j \in 1..n : next[i] = next[j] => i = j
    BY <1>7
  <2> HIDE DEF f, e, next
  <2>5. CountsOn(F, n, next, e, f)
    BY <2>1, <2>2, <2>4 DEF CountsOn
  <2>6. SumFunction(e) = SumFunction(f) + n
    BY <1>3, <2>5, OnceMore
  <2>7. QED
    BY <2>3, <2>6
<1>14. ASSUME NEW m \in Rounds, m # n PROVE Count(m)' = Count(m)
  <2>1. ASSUME NEW t \in F PROVE reached'[t][m] = reached[t][m]
    <3>1. reached[t][m] \in Nat
      BY <1>8
    <3>2. QED
      BY <1>11, <1>14, <3>1
  <2>2. [t \in F |-> reached'[t][m]] = [t \in F |-> reached[t][m]]
    BY <2>1
  <2>3. QED
    BY <1>12, <2>2 DEF Count
<1>15. QED
  BY <1>2, <1>3, <1>9, <1>10, <1>11, <1>13, <1>14 DEF n, F

LEMMA ReachedInit ==
    TournamentInit => ReachedInv
<1> SUFFICES ASSUME TournamentInit PROVE ReachedInv
  OBVIOUS
<1>1. StandingsInv
  BY StandingsSteps
<1>2. bracket = <<>> /\ sim = 0 /\ reached = [t \in Field |-> [k \in Rounds |-> 0]]
  BY DEF TournamentInit
<1>3. /\ reached \in [Field -> [Rounds -> Nat]]
      /\ \A t \in Field, k \in Rounds : reached[t][k] = 0
  BY <1>2
<1>4. ASSUME task = None, NEW k \in Rounds PROVE Count(k) = sim * k + SoFar(k)
  <2> DEFINE f == [t \in Field |-> reached[t][k]]
  <2>1. Count(k) = SumFunction(f)
    BY <1>3 DEF Count
  <2>2. f \in [Field -> Int] /\ \A t \in Field : f[t] = 0
    BY <1>3
  <2>3. IsFiniteSet(Field) /\ 0 \in Int
    BY <1>1, <1>4, FieldFinite
  <2> HIDE DEF f
  <2>4. SumFunction(f) = 0 * Cardinality(Field) /\ Cardinality(Field) \in Nat
    BY <2>2, <2>3, SumConstant, FS_CardinalityType
  <2>5. SoFar(k) = 0 /\ k \in Nat
    BY <1>2, RoundFacts DEF SoFar
  <2>6. QED
    BY <1>2, <2>1, <2>4, <2>5
<1>5. \A t, k, m : ~Between(t, k, m)
  BY <1>2 DEF Between
<1>6. \A t \in Field, k, m \in Rounds :
          reached[t][k] + (IF Between(t, k, m) THEN 1 ELSE 0) <= reached[t][m]
  BY <1>3, <1>5
<1>7. QED
  BY <1>3, <1>4, <1>6 DEF ReachedInv

\* A round that is played moves the line between what is counted and what is not.
LEMMA ReachedRound ==
    ASSUME StandingsInv, FieldInv, BracketInv, ReachedInv, PlayRound, NEW n, task = None, n \in Rounds,
           Len(bracket) = 2 * n, Len(bracket') = n, Range(bracket') \subseteq Range(bracket),
           reached' \in [Field -> [Rounds -> Nat]],
           \A t \in Field, m \in Rounds :
               reached'[t][m] = reached[t][m] + IF m = n /\ t \in Range(bracket') THEN 1 ELSE 0,
           Count(n)' = Count(n) + n, \A m \in Rounds : m # n => Count(m)' = Count(m)
    PROVE  ReachedInv'
<1>1. /\ feed' = feed /\ task' = task /\ sim' = sim /\ bracket # <<>> /\ Field' = Field
      /\ sim \in Nat
  BY SameFeed DEF PlayRound, StandingsInv
<1>2. \A k \in Rounds : k \in Nat \ {0} /\ (k < n => 2 * k <= n) /\ (n < k => 2 * n <= k)
  BY RoundFacts
<1>3. bracket' # <<>>
  BY <1>2
<1>4. ASSUME NEW k \in Rounds PROVE Count(k)' = sim' * k + SoFar(k)'
  <2>1. Count(k) = sim * k + SoFar(k)
    BY DEF ReachedInv
  <2>2. n \in Nat \ {0} /\ k \in Nat \ {0} /\ sim * k \in Nat
    BY <1>1, <1>2
  <2>3. CASE k = n
    <3>1. ~(2 * n <= n) /\ n <= n
      BY <2>2
    <3>2. SoFar(k) = 0 /\ SoFar(k)' = k
      BY <1>1, <1>3, <2>3, <3>1 DEF SoFar
    <3>3. QED
      BY <1>1, <2>1, <2>2, <2>3, <3>2
  <2>4. CASE k # n
    <3>1. 2 * n <= k <=> n <= k
      BY <1>2, <2>2, <2>4
    <3>2. SoFar(k)' = SoFar(k)
      BY <1>1, <1>3, <3>1 DEF SoFar
    <3>3. QED
      BY <1>1, <2>1, <2>4, <3>2
  <2>5. QED
    BY <2>3, <2>4
<1>5. ASSUME NEW t \in Field, NEW k \in Rounds, NEW m \in Rounds, k < m
      PROVE  reached'[t][k] + (IF Between(t, k, m)' THEN 1 ELSE 0) <= reached'[t][m]
  <2> DEFINE goesOn == t \in Range(bracket')
             a == reached[t][k]
             b == reached[t][m]
  <2>1. a \in Nat /\ b \in Nat /\ a + (IF Between(t, k, m) THEN 1 ELSE 0) <= b
    BY <1>5 DEF ReachedInv
  <2>2. /\ reached'[t][k] = a + IF k = n /\ goesOn THEN 1 ELSE 0
        /\ reached'[t][m] = b + IF m = n /\ goesOn THEN 1 ELSE 0
    OBVIOUS
  <2>3. n \in Nat \ {0} /\ k \in Nat \ {0} /\ m \in Nat \ {0}
    BY <1>2
  <2>4. Between(t, k, m)' <=> goesOn /\ k < n /\ n <= m
    BY <1>3 DEF Between
  <2>5. goesOn /\ k <= n /\ n < m => Between(t, k, m)
    <3>1. ASSUME goesOn, k <= n, n < m PROVE k < 2 * n /\ 2 * n <= m
      BY <1>2, <2>3, <3>1
    <3>2. QED
      BY <1>1, <3>1 DEF Between
  <2> HIDE DEF goesOn, a, b
  <2>6. CASE ~goesOn
    BY <2>1, <2>2, <2>4, <2>6
  <2>7. CASE goesOn /\ m = n
    <3>1. k # n /\ k < n /\ n <= n
      BY <1>5, <2>3, <2>7
    <3>2. reached'[t][k] = a /\ reached'[t][m] = b + 1 /\ a <= b
      BY <2>1, <2>2, <2>7, <3>1
    <3>3. QED
      BY <2>1, <3>2
  <2>8. CASE goesOn /\ k = n
    <3>1. n < m /\ ~(k < n) /\ k <= n /\ m # n
      BY <1>5, <2>3, <2>8
    <3>2. Between(t, k, m) /\ ~Between(t, k, m)'
      BY <2>4, <2>5, <2>8, <3>1
    <3>3. QED
      BY <2>1, <2>2, <2>8, <3>1, <3>2
  <2>9. CASE goesOn /\ k # n /\ m # n
    <3>1. Between(t, k, m)' => Between(t, k, m)
      BY <2>3, <2>4, <2>5, <2>9
    <3>2. QED
      BY <2>1, <2>2, <2>9, <3>1
  <2>10. QED
    BY <2>6, <2>7, <2>8, <2>9
<1>6. QED
  BY <1>1, <1>4, <1>5 DEF ReachedInv

LEMMA ReachedSteps ==
    /\ StandingsInv /\ FieldInv /\ BracketInv /\ ReachedInv
    /\ [TournamentNext]_tournamentVars
    => ReachedInv'
<1> SUFFICES ASSUME StandingsInv, FieldInv, BracketInv, ReachedInv,
                    [TournamentNext]_tournamentVars
             PROVE  ReachedInv'
  OBVIOUS
<1>1. feed' = feed /\ task' = task /\ Field' = Field
  BY SameFeed DEF TournamentNext, tournamentVars, PlayGroup, TallyGroup, SeedBracket, PlayRound, NextSim
<1>2. \A k \in Rounds : k \in Nat \ {0} /\ k < Size
  BY RoundFacts
<1>3. CASE PlayRound
  <2>1. PICK k \in 0..Depth :
            LET n == TwoTo[k]
            IN  /\ task = None /\ n \in Rounds /\ Len(bracket) = 2 * n /\ Len(bracket') = n
                /\ Range(bracket') \subseteq Range(bracket)
                /\ reached' \in [Field -> [Rounds -> Nat]]
                /\ \A t \in Field, m \in Rounds :
                       reached'[t][m] = reached[t][m]
                                        + IF m = n /\ t \in Range(bracket') THEN 1 ELSE 0
                /\ Count(n)' = Count(n) + n
                /\ \A m \in Rounds : m # n => Count(m)' = Count(m)
    BY <1>3, RoundCounted
  <2> DEFINE n == TwoTo[k]
  <2>2. /\ task = None /\ n \in Rounds /\ Len(bracket) = 2 * n /\ Len(bracket') = n
        /\ Range(bracket') \subseteq Range(bracket)
        /\ reached' \in [Field -> [Rounds -> Nat]]
        /\ \A t \in Field, m \in Rounds :
               reached'[t][m] = reached[t][m] + IF m = n /\ t \in Range(bracket') THEN 1 ELSE 0
        /\ Count(n)' = Count(n) + n
        /\ \A m \in Rounds : m # n => Count(m)' = Count(m)
    BY <2>1
  <2> HIDE DEF n
  <2>3. QED
    BY <1>3, <2>2, ReachedRound
<1>4. ASSUME reached' = reached,
             \A k \in Rounds : task = None => sim' * k + SoFar(k)' = sim * k + SoFar(k),
             \A t \in Field, k, m \in Rounds : Between(t, k, m)' => Between(t, k, m)
      PROVE  ReachedInv'
  <2>1. \A k : Count(k)' = Count(k)
    BY <1>4 DEF Count
  <2>2. \A k \in Rounds : task' = None => Count(k)' = sim' * k + SoFar(k)'
    BY <1>1, <1>4, <2>1 DEF ReachedInv
  <2>3. ASSUME NEW t \in Field, NEW k \in Rounds, NEW m \in Rounds, k < m
        PROVE  reached'[t][k] + (IF Between(t, k, m)' THEN 1 ELSE 0) <= reached'[t][m]
    <3>1. /\ reached[t][k] \in Nat /\ reached[t][m] \in Nat
          /\ reached[t][k] + (IF Between(t, k, m) THEN 1 ELSE 0) <= reached[t][m]
      BY <2>3 DEF ReachedInv
    <3>2. QED
      BY <1>4, <3>1
  <2>4. QED
    BY <1>1, <1>4, <2>2, <2>3 DEF ReachedInv
<1>5. CASE UNCHANGED <<sim, reached, bracket>>
  <2>1. \A t, k, m : SoFar(k)' = SoFar(k) /\ Between(t, k, m)' = Between(t, k, m)
    BY <1>5 DEF SoFar, Between
  <2>2. QED
    BY <1>4, <1>5, <2>1
<1>6. CASE TallyGroup
  <2>1. task # None /\ reached' = reached /\ bracket' = bracket
    BY <1>6 DEF TallyGroup
  <2>2. \A t, k, m : Between(t, k, m)' = Between(t, k, m)
    BY <2>1 DEF Between
  <2>3. QED
    BY <1>4, <2>1, <2>2
<1>7. CASE SeedBracket
  <2>1. /\ reached' = reached /\ sim' = sim /\ bracket = <<>>
        /\ bracket' = [i \in 1..Size |-> seeded'[SeedOrder[Depth][i]]]
    BY <1>7 DEF SeedBracket
  <2>2. Size \in Nat
    BY Seats
  <2>3. Len(bracket') = Size
    BY <2>1, <2>2
  <2>4. \A k \in Rounds : ~(Size <= k)
    BY <1>2, <2>2
  <2>5. \A k \in Rounds : SoFar(k)' = SoFar(k)
    BY <2>1, <2>3, <2>4 DEF SoFar
  <2>6. \A t \in Field, k, m \in Rounds : ~Between(t, k, m)'
    BY <2>3, <2>4 DEF Between
  <2>7. QED
    BY <1>4, <2>1, <2>5, <2>6
<1>8. CASE NextSim
  <2>1. reached' = reached /\ sim' = sim + 1 /\ bracket' = <<>> /\ Len(bracket) = 1 /\ sim \in Nat
    BY <1>8 DEF NextSim, StandingsInv
  <2>2. bracket # <<>>
    BY <2>1
  <2>3. \A k, t, m : SoFar(k)' = 0 /\ ~Between(t, k, m)'
    BY <2>1 DEF SoFar, Between
  <2>4. ASSUME NEW k \in Rounds PROVE sim' * k + SoFar(k)' = sim * k + SoFar(k)
    <3>1. SoFar(k) = k /\ k \in Nat
      BY <1>2, <2>1, <2>2 DEF SoFar
    <3>2. (sim + 1) * k = sim * k + k /\ (sim + 1) * k + 0 = (sim + 1) * k
      BY <2>1, <3>1
    <3>3. QED
      BY <2>1, <2>3, <3>1, <3>2
  <2>5. QED
    BY <1>4, <2>1, <2>3, <2>4
<1>9. PlayGroup \/ UNCHANGED tournamentVars => UNCHANGED <<sim, reached, bracket>>
  BY DEF PlayGroup, tournamentVars
<1>10. QED
  BY <1>3, <1>5, <1>6, <1>7, <1>8, <1>9 DEF TournamentNext

\* The place of a team in the group that was played.
PlaceOf(t) == CHOOSE i \in DOMAIN standings[1] : standings[1][i].team = t

LEMMA PlacesOf ==
    ASSUME StandingsInv, task # None, Len(standings) = 1
    PROVE  /\ \A t \in TeamsOf(task) : PlaceOf(t) \in Nat /\ standings[1][PlaceOf(t)].points \in Int
           /\ \A t, u \in TeamsOf(task) : PlaceOf(t) = PlaceOf(u) => t = u
           /\ \A t \in TeamsOf(task) : Secured(task, t) => PlaceOf(t) \in {1, 2}
<1> DEFINE g == task
           s == standings[1]
<1>1. g \in Groups /\ s \in Endings(g)
  <2>1. 1 \in DOMAIN standings
    BY DEF StandingsInv
  <2>2. QED
    BY <2>1 DEF StandingsInv, Tasks, GroupOf
<1>2. PICK n \in Nat, sampled \in [Open(g) -> Samples] :
          n = Cardinality(TeamsOf(g)) /\ n > 2 /\ Sorted(s, n, Table(g, sampled))
  BY <1>1, EndingFacts
<1>3. /\ DOMAIN s = 1..n
      /\ \A i \in 1..n : s[i] \in Table(g, sampled)
      /\ \A i, j \in 1..n : s[i] = s[j] => i = j
      /\ \A l \in Table(g, sampled) : \E i \in 1..n : s[i] = l
  BY <1>2 DEF Sorted
<1>4. \A l \in Table(g, sampled) :
          l.team \in TeamsOf(g) /\ l = Line(l.team, Fixtures(g), sampled)
  BY DEF Table, Line
<1>5. ASSUME NEW t \in TeamsOf(g) PROVE PlaceOf(t) \in 1..n /\ s[PlaceOf(t)].team = t
  <2>1. Line(t, Fixtures(g), sampled) \in Table(g, sampled) /\ Line(t, Fixtures(g), sampled).team = t
    BY DEF Table, Line
  <2>2. \E i \in DOMAIN s : s[i].team = t
    BY <1>3, <2>1
  <2>3. PlaceOf(t) \in DOMAIN s /\ s[PlaceOf(t)].team = t
    BY <2>2 DEF PlaceOf
  <2>4. QED
    BY <1>3, <2>3
<1>6. ASSUME NEW t \in TeamsOf(g) PROVE s[PlaceOf(t)].points \in Int
  <2>1. s[PlaceOf(t)] = Line(t, Fixtures(g), sampled)
    BY <1>3, <1>4, <1>5
  <2>2. Points(t, Fixtures(g), sampled) \in Int
    BY <1>1, Margins
  <2>3. QED
    BY <2>1, <2>2 DEF Line
<1>7. ASSUME NEW t \in TeamsOf(g), Secured(g, t) PROVE PlaceOf(t) \in {1, 2}
  <2>1. t \in {s[1].team, s[2].team}
    BY <1>1, <1>7, SecuredPlaces
  <2>2. PICK i \in {1, 2} : s[i].team = t
    BY <2>1
  <2>3. i \in 1..n
    BY <1>2, <2>2
  <2>4. s[i] = s[PlaceOf(t)]
    BY <1>3, <1>4, <1>5, <2>2, <2>3
  <2>5. i = PlaceOf(t)
    BY <1>3, <1>5, <2>3, <2>4
  <2>6. QED
    BY <2>5
<1>8. QED
  BY <1>5, <1>6, <1>7

LEMMA TallySteps ==
    /\ TournamentInit => TallyInv
    /\ StandingsInv /\ FieldInv /\ BracketInv /\ TallyInv /\ [TournamentNext]_tournamentVars
       => TallyInv'
<1>1. ASSUME TournamentInit, task # None PROVE TallyInv
  <2>1. /\ sim = 0
        /\ tally = [t \in TeamsOf(task) |-> [first |-> 0, second |-> 0, third |-> 0, points |-> 0]]
    BY <1>1 DEF TournamentInit
  <2>2. \A t \in TeamsOf(task) : Through(t) = 0 /\ tally[t].points = 0
    BY <2>1 DEF Through
  <2>3. tally \in [TeamsOf(task) -> Tallies]
    BY <2>1 DEF Tallies
  <2>4. QED
    BY <2>1, <2>2, <2>3 DEF TallyInv
<1>2. ASSUME StandingsInv, FieldInv, BracketInv, TallyInv, [TournamentNext]_tournamentVars, task # None
      PROVE  TallyInv'
  <2>1. /\ feed' = feed /\ task' = task /\ TeamsOf(task)' = TeamsOf(task)
        /\ \A t : Secured(task, t)' = Secured(task, t)
    <3>1. feed' = feed /\ task' = task
      BY <1>2 DEF TournamentNext, tournamentVars, PlayGroup, TallyGroup, SeedBracket, PlayRound, NextSim
    <3>2. \A g : /\ TeamsOf(g)' = TeamsOf(g)
                 /\ \A t : Secured(g, t)' = Secured(g, t)
      BY <3>1, SameFeed
    <3>3. QED
      BY <3>1, <3>2 DEF TeamsOf, Secured
  <2> DEFINE T == TeamsOf(task)
  <2>2. CASE TallyGroup
    <3>1. /\ Len(standings) = 1 /\ sim' = sim + 1 /\ sim \in Nat
          /\ tally' = [t \in DOMAIN tally |-> Counted(t, PlaceOf(t))]
      BY <1>2, <2>2 DEF TallyGroup, PlaceOf, StandingsInv
    <3>2. /\ \A t \in T : PlaceOf(t) \in Nat /\ standings[1][PlaceOf(t)].points \in Int
          /\ \A t, u \in T : PlaceOf(t) = PlaceOf(u) => t = u
          /\ \A t \in T : Secured(task, t) => PlaceOf(t) \in {1, 2}
      BY <1>2, <3>1, PlacesOf
    <3>3. tally \in [T -> Tallies]
      BY <1>2 DEF TallyInv
    <3> HIDE DEF T
    <3>4. ASSUME NEW t \in T
          PROVE  /\ tally'[t] \in Tallies
                 /\ Through(t)' = Through(t) + IF PlaceOf(t) \in {1, 2} THEN 1 ELSE 0
                 /\ Through(t) \in Nat
      <4> DEFINE p == PlaceOf(t)
                 q == standings[1][p].points
                 r == tally[t]
      <4>1. r \in Tallies /\ p \in Nat /\ q \in Int /\ tally'[t] = Counted(t, p)
        BY <3>1, <3>2, <3>3
      <4>2. tally'[t] = [r EXCEPT !.first = @ + IF p = 1 THEN 1 ELSE 0,
                                  !.second = @ + IF p = 2 THEN 1 ELSE 0,
                                  !.third = @ + IF p = 3 THEN 1 ELSE 0,
                                  !.points = @ + q]
        BY <4>1 DEF Counted
      <4>3. Through(t) = r.first + r.second /\ Through(t)' = tally'[t].first + tally'[t].second
        BY DEF Through
      <4> HIDE DEF p, q, r
      <4>4. /\ tally'[t].first = r.first + IF p = 1 THEN 1 ELSE 0
            /\ tally'[t].second = r.second + IF p = 2 THEN 1 ELSE 0
            /\ tally'[t] \in Tallies /\ r.first \in Nat /\ r.second \in Nat
        <5> DEFINE a == IF p = 1 THEN 1 ELSE 0
                   b == IF p = 2 THEN 1 ELSE 0
                   c == IF p = 3 THEN 1 ELSE 0
        <5>1. tally'[t] = [r EXCEPT !.first = @ + a, !.second = @ + b, !.third = @ + c, !.points = @ + q]
          BY <4>2
        <5>2. a \in Nat /\ b \in Nat /\ c \in Nat
          OBVIOUS
        <5> HIDE DEF a, b, c
        <5>3. /\ r.first \in Nat /\ r.second \in Nat /\ r.third \in Nat /\ r.points \in Int
              /\ r = [first |-> r.first, second |-> r.second, third |-> r.third, points |-> r.points]
          BY <4>1 DEF Tallies
        <5>4. tally'[t] = [first |-> r.first + a, second |-> r.second + b,
                           third |-> r.third + c, points |-> r.points + q]
          BY <5>1, <5>3
        <5>5. tally'[t] \in Tallies /\ tally'[t].first = r.first + a /\ tally'[t].second = r.second + b
          <6>1. /\ r.first + a \in Nat /\ r.second + b \in Nat /\ r.third + c \in Nat
                /\ r.points + q \in Int
            BY <4>1, <5>2, <5>3
          <6>2. QED
            BY <5>4, <6>1 DEF Tallies
        <5>6. QED
          BY <5>3, <5>5 DEF a, b
      <4>5. QED
        BY <4>3, <4>4 DEF p
    <3>5. ASSUME NEW t \in T
          PROVE  /\ Through(t)' <= sim'
                 /\ Secured(task, t) => Through(t)' = sim'
      <4>1. Through(t) <= sim /\ (Secured(task, t) => Through(t) = sim)
        BY <1>2 DEF TallyInv, T
      <4>2. QED
        BY <3>1, <3>2, <3>4, <4>1
    <3>6. ASSUME NEW t \in T, NEW u \in T, NEW v \in T, t # u, u # v, t # v
          PROVE  Through(t)' + Through(u)' + Through(v)' <= 2 * sim'
      <4>1. Through(t) + Through(u) + Through(v) <= 2 * sim
        BY <1>2, <3>6 DEF TallyInv, T
      <4>2. ~(PlaceOf(t) \in {1, 2} /\ PlaceOf(u) \in {1, 2} /\ PlaceOf(v) \in {1, 2})
        BY <3>2, <3>6
      <4>3. QED
        BY <3>1, <3>4, <4>1, <4>2
    <3>7. tally' \in [T -> Tallies]
      BY <3>1, <3>3, <3>4
    <3>8. sim' # 0
      BY <3>1
    <3>9. QED
      BY <2>1, <3>5, <3>6, <3>7, <3>8 DEF TallyInv, T
  <2>3. CASE UNCHANGED <<sim, tally>>
    <3>1. \A t : Through(t)' = Through(t)
      BY <2>3 DEF Through
    <3>2. QED
      BY <1>2, <2>1, <2>3, <3>1 DEF TallyInv
  <2>4. ~NextSim
    <3>1. Len(bracket) = 1 => bracket # <<>>
      OBVIOUS
    <3>2. QED
      BY <1>2, <3>1 DEF NextSim, BracketInv, FieldInv
  <2>5. PlayGroup \/ SeedBracket \/ PlayRound \/ UNCHANGED tournamentVars => UNCHANGED <<sim, tally>>
    BY DEF PlayGroup, SeedBracket, PlayRound, tournamentVars
  <2>6. QED
    BY <1>2, <2>2, <2>3, <2>4, <2>5 DEF TournamentNext
<1>3. task' = task \/ ~[TournamentNext]_tournamentVars
  BY DEF TournamentNext, tournamentVars, PlayGroup, TallyGroup, SeedBracket, PlayRound, NextSim
<1>4. (task = None => TallyInv) /\ (task' = None => TallyInv')
  BY DEF TallyInv
<1>5. QED
  BY <1>1, <1>2, <1>3, <1>4
\* A team that has made it is named: the tally has it through in every simulation,
\* and no two others can be ahead of it.
LEMMA SecuredNamed ==
    StandingsInv /\ TallyInv => SecuredGoesThrough
<1> SUFFICES ASSUME StandingsInv, TallyInv PROVE SecuredGoesThrough
  OBVIOUS
<1>1. ASSUME NEW k \in DOMAIN standings, NEW t \in TeamsOf(GroupOf(k)), Secured(GroupOf(k), t)
      PROVE  t \in {standings[k][1].team, standings[k][2].team}
  <2> DEFINE g == GroupOf(k)
  <2>1. NumGroups \in Nat /\ k \in 1..Len(standings) /\ Len(standings) \in Nat
    BY TournamentAssumption DEF StandingsInv
  <2>2. g \in Groups /\ (task = None \/ task = g)
    BY <2>1 DEF StandingsInv, GroupOf, Groups, Tasks
  <2>3. standings[k] \in Endings(g)
    BY DEF StandingsInv
  <2> HIDE DEF g
  <2>4. t \in TeamsOf(g) /\ Secured(g, t)
    BY <1>1 DEF g
  <2>5. QED
    BY <2>2, <2>3, <2>4, SecuredPlaces
<1>2. ASSUME task # None, NEW t \in TeamsOf(task), Secured(task, t) PROVE t \in Qualifiers
  <2> DEFINE T == TeamsOf(task)
             ahead == {u \in T : Likelier(u, t)}
  <2>1. /\ tally \in [T -> Tallies] /\ sim \in Nat /\ Through(t) = sim
        /\ \A u \in T : Through(u) <= sim /\ (sim = 0 => tally[u].points = 0)
        /\ \A u, v \in T : t # u /\ u # v /\ t # v =>
               Through(t) + Through(u) + Through(v) <= 2 * sim
    BY <1>2 DEF TallyInv, StandingsInv
  <2>2. \A u \in T : Through(u) \in Nat /\ tally[u].points \in Int
    BY <2>1 DEF Through, Tallies
  <2>3. \A u \in T : Likelier(u, t) <=>
            \/ Through(u) > Through(t)
            \/ Through(u) = Through(t) /\ tally[u].points > tally[t].points
    BY DEF Likelier, Through
  <2>4. IsFiniteSet(ahead)
    <3>1. task \in Groups
      BY <1>2 DEF StandingsInv, Tasks
    <3>2. IsFiniteSet(T)
      BY <3>1, GroupFacts
    <3>3. QED
      BY <3>2, FS_Subset
  <2> HIDE DEF T
  <2>5. ASSUME NEW u \in ahead, NEW v \in ahead, u # v PROVE FALSE
    <3>1. u \in T /\ v \in T /\ Likelier(u, t) /\ Likelier(v, t) /\ t \in T
      BY <1>2 DEF T
    <3>2. u # t /\ v # t
      BY <2>2, <2>3, <3>1
    <3>3. Through(u) = sim /\ Through(v) = sim
      BY <2>1, <2>2, <2>3, <3>1
    <3>4. sim = 0
      BY <2>1, <2>5, <3>1, <3>2, <3>3
    <3>5. tally[u].points = 0 /\ tally[t].points = 0
      BY <2>1, <3>1, <3>4
    <3>6. QED
      BY <2>1, <2>3, <3>1, <3>3, <3>5
  <2> HIDE DEF ahead
  <2>6. Cardinality(ahead) \in Nat /\ ~(Cardinality(ahead) > 1)
    BY <2>4, <2>5, TwoMembers
  <2>7. Cardinality(ahead) < 2
    BY <2>6
  <2>8. DOMAIN tally = T /\ t \in T
    BY <1>2, <2>1 DEF T
  <2>9. QED
    BY <2>7, <2>8 DEF ahead, Qualifiers
<1>3. QED
  BY <1>1, <1>2 DEF SecuredGoesThrough

-----------------------------------------------------------------------------
(* What is proved of every simulation.                                     *)

TournamentInv == StandingsInv /\ FieldInv /\ BracketInv /\ ReachedInv /\ TallyInv

\* The types of a simulation and what the four properties rest on, on every way through
\* it (simulate_group, simulate_tournament).
THEOREM SimulationsSound ==
    TournamentSpec => []TournamentInv
<1>1. TournamentInit => TournamentInv
  BY StandingsSteps, FieldSteps, BracketSteps, ReachedInit, TallySteps DEF TournamentInv
<1>2. TournamentInv /\ [TournamentNext]_tournamentVars => TournamentInv'
  BY StandingsSteps, FieldSteps, BracketSteps, ReachedSteps, TallySteps DEF TournamentInv
<1>3. QED
  BY <1>1, <1>2, PTL DEF TournamentSpec

\* Whatever is sampled and whoever is level: a team that has made it on the field is
\* among the first two of every simulation, and one of the two that are named
\* (_play_group, simulate_group).
THEOREM SecuredGoThrough ==
    TournamentSpec => []SecuredGoesThrough
<1>1. TournamentInv => SecuredGoesThrough
  BY SecuredNamed DEF TournamentInv
<1>2. QED
  BY <1>1, SimulationsSound, PTL

\* The field of the bracket is that of the standings, for every number of groups and
\* of thirds that go through (simulate_tournament).
THEOREM TheFieldIsBest ==
    TournamentSpec => []FieldIsBest
<1>1. TournamentInv => FieldIsBest
  <2>1. TournamentInv /\ seeded # <<>> => AllPlayed /\ WellSeeded
    BY DEF TournamentInv, FieldInv, AllPlayed
  <2>2. seeded = <<>> => FieldIsBest
    BY DEF FieldIsBest
  <2>3. QED
    BY <2>1, <2>2, SeededFacts DEF GoodSeeds
<1>2. QED
  BY <1>1, SimulationsSound, PTL

\* The n/2 best seeds of n that are left never play each other, in a bracket of any
\* depth (_bracket_seed_order).
THEOREM BestDoMeetLate ==
    TournamentSpec => []BestMeetLate
<1>1. TournamentInv => BestMeetLate
  BY Apart DEF TournamentInv
<1>2. QED
  BY <1>1, SimulationsSound, PTL

\* After any number of simulations each round has been reached by half as many as the
\* one before, by nobody more often (simulate_tournament).
THEOREM RoundsDoHalve ==
    TournamentSpec => []RoundsHalve
<1>1. TournamentInv => RoundsHalve
  BY RoundsHalved DEF TournamentInv
<1>2. QED
  BY <1>1, SimulationsSound, PTL
=============================================================================
