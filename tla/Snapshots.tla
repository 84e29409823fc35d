----------------------------- MODULE Snapshots -----------------------------
(***************************************************************************)
(* World Cup snapshots and what accuracy and calibration make of them:     *)
(* refresh passes persist a row per match and re-fit the score model, full *)
(* predictions of the same matches add rows of their own, and              *)
(* _worldcup_finished_records of app/orchestration/service.py picks one    *)
(* row per finished match.                                                 *)
(*                                                                         *)
(* What a row predicts is known by the results the score model was fitted  *)
(* to when it was computed; a row leaks when its own match is among them.  *)
(***************************************************************************)
EXTENDS Naturals, Sequences, FiniteSets, FiniteSetsExt, Nothing

CONSTANTS
    Matches,
    Refreshers,       \* sessions running refresh_worldcup
    FirstKickoff,     \* the announced kickoff of each match
    MinSamples,       \* MIN_SAMPLES of app/prediction/calibration.py
    MaxTime,          \* bound on the clock
    MaxPasses,        \* bound on refresh passes
    MaxFull,          \* bound on full predictions
    MaxMoves         \* bound on rescheduled matches

ASSUME SnapshotsAssumption ==
    /\ IsFiniteSet(Matches)
    /\ FirstKickoff \in [Matches -> Nat]
    /\ MinSamples \in Nat \ {0}
    /\ {MaxTime, MaxPasses, MaxFull, MaxMoves} \subseteq Nat
    /\ None \notin Nat

VARIABLES
    now,
    kickoff,     \* utcDate of each match in the feed
    finished,    \* matches the feed reports FINISHED with a score
    rows,        \* rows of table predictions per match, by created_at
    params,      \* the results in the fit of "score:params", {} for the seed
    pc,          \* where each refresh pass is
    draft,       \* what a pass has computed and not yet persisted, by match
    fit,         \* the results a pass has fitted and not yet published
    passes, full, moves,
    advanced     \* history: matches moved to an earlier kickoff

counters == <<passes, full, moves>>
vars == <<now, kickoff, finished, rows, params, pc, draft, fit, passes, full, moves, advanced>>

Row == [kind: {"refresh", "full"}, at: Nat, utc: Nat \cup {None},
        fit: SUBSET Matches, actual: BOOLEAN, visible: BOOLEAN]

NoDraft == [m \in Matches |-> None]

Init ==
    /\ now = 0
    /\ kickoff = FirstKickoff
    /\ finished = {}
    /\ rows = [m \in Matches |-> <<>>]
    /\ params = {}
    /\ pc = [s \in Refreshers |-> "idle"]
    /\ draft = [s \in Refreshers |-> NoDraft]
    /\ fit = [s \in Refreshers |-> {}]
    /\ passes = 0
    /\ full = 0
    /\ moves = 0
    /\ advanced = {}

-----------------------------------------------------------------------------
(* _worldcup_finished_records.                                             *)

\* The committed rows of a match; their positions are in the order of created_at.
Snaps(m) == {i \in DOMAIN rows[m] : rows[m][i].visible}

HasActual(m) == \E i \in Snaps(m) : rows[m][i].actual

\* The kickoff as the oldest snapshot has it.
KickoffOf(m) == rows[m][Min(Snaps(m))].utc

\* Mutated form of Before: the kickoff is ignored.
BeforeIgnored(m) == Snaps(m)

\* The snapshots before kickoff; none when the oldest one has no utc_date.
Before(m) ==
    LET kick == KickoffOf(m)
    IN  {i \in Snaps(m) : kick # None /\ rows[m][i].at < kick}

Chosen(m) ==
    LET before == Before(m)
    IN  rows[m][IF before = {} THEN Min(Snaps(m)) ELSE Max(before)]

\* evaluate scores a record only if it has "predicted", calibrate_score_model
\* only if it has strengths; score_detail of a full prediction has neither.
Usable(m) == Chosen(m).kind = "refresh"

Evaluated == {m \in Matches : HasActual(m) /\ Usable(m)}

-----------------------------------------------------------------------------
(* The tournament.                                                         *)

Tick ==
    /\ now < MaxTime
    /\ now' = now + 1
    /\ UNCHANGED <<kickoff, finished, rows, params, pc, draft, fit, counters, advanced>>

FinishMatch(m) ==
    /\ m \notin finished
    /\ now > kickoff[m]
    /\ finished' = finished \cup {m}
    /\ UNCHANGED <<now, kickoff, rows, params, pc, draft, fit, counters, advanced>>

Reschedule(m, k) ==
    /\ moves < MaxMoves
    /\ now < kickoff[m]
    /\ k > now /\ k # kickoff[m]
    /\ moves' = moves + 1
    /\ kickoff' = [kickoff EXCEPT ![m] = k]
    /\ advanced' = IF k < kickoff[m] THEN advanced \cup {m} ELSE advanced
    /\ UNCHANGED <<now, finished, rows, params, pc, draft, fit, passes, full>>

-----------------------------------------------------------------------------
(* refresh_worldcup.                                                       *)

\* predict_matchday for the matchdays: the feed and the parameters as they are.
PredictMatchdays(s) ==
    /\ pc[s] = "idle"
    /\ passes < MaxPasses
    /\ passes' = passes + 1
    /\ draft' = [draft EXCEPT ![s] =
            [m \in Matches |-> [utc |-> kickoff[m], fit |-> params, actual |-> m \in finished]]]
    /\ pc' = [pc EXCEPT ![s] = "persist"]
    /\ UNCHANGED <<now, kickoff, finished, rows, params, fit, full, moves, advanced>>

\* The row refresh_worldcup adds.
Snapshot(d) ==
    [kind |-> "refresh", at |-> now, utc |-> d.utc, fit |-> d.fit, actual |-> d.actual,
     visible |-> TRUE]

\* The commit flushes the rows, which is when they get their created_at.
Persist(s) ==
    /\ pc[s] = "persist"
    /\ rows' = [m \in Matches |-> Append(rows[m], Snapshot(draft[s][m]))]
    /\ draft' = [draft EXCEPT ![s] = NoDraft]
    /\ pc' = [pc EXCEPT ![s] = "calibrate"]
    /\ UNCHANGED <<now, kickoff, finished, params, fit, counters, advanced>>

\* calibrate_score_model: dormant below MIN_SAMPLES.
Calibrate(s) ==
    /\ pc[s] = "calibrate"
    /\ IF Cardinality(Evaluated) >= MinSamples
         THEN /\ fit' = [fit EXCEPT ![s] = Evaluated]
              /\ pc' = [pc EXCEPT ![s] = "publish"]
         ELSE /\ pc' = [pc EXCEPT ![s] = "idle"]
              /\ UNCHANGED fit
    /\ UNCHANGED <<now, kickoff, finished, rows, params, draft, counters, advanced>>

SetParams(s) ==
    /\ pc[s] = "publish"
    /\ params' = fit[s]
    /\ fit' = [fit EXCEPT ![s] = {}]
    /\ pc' = [pc EXCEPT ![s] = "idle"]
    /\ UNCHANGED <<now, kickoff, finished, rows, draft, counters, advanced>>

\* The pass raises or its process dies; main and run_cron_tick carry on.
Abort(s) ==
    /\ pc[s] # "idle"
    /\ pc' = [pc EXCEPT ![s] = "idle"]
    /\ draft' = [draft EXCEPT ![s] = NoDraft]
    /\ fit' = [fit EXCEPT ![s] = {}]
    /\ UNCHANGED <<now, kickoff, finished, rows, params, counters, advanced>>

-----------------------------------------------------------------------------
(* POST /predictions for the same match, domain "worldcup".                *)

\* predict flushes its row; it is committed after the response.
PredictFull(m) ==
    /\ full < MaxFull
    /\ full' = full + 1
    /\ rows' = [rows EXCEPT ![m] = Append(@,
            [kind |-> "full", at |-> now, utc |-> None, fit |-> params, actual |-> FALSE,
             visible |-> FALSE])]
    /\ UNCHANGED <<now, kickoff, finished, params, pc, draft, fit, passes, moves, advanced>>

CommitFull(m) ==
    \E i \in DOMAIN rows[m] :
        /\ ~rows[m][i].visible
        /\ rows' = [rows EXCEPT ![m][i].visible = TRUE]
        /\ UNCHANGED <<now, kickoff, finished, params, pc, draft, fit, counters, advanced>>

-----------------------------------------------------------------------------

Pass(s) ==
    PredictMatchdays(s) \/ Persist(s) \/ Calibrate(s) \/ SetParams(s) \/ Abort(s)

Next ==
    \/ Tick
    \/ \E m \in Matches : FinishMatch(m) \/ PredictFull(m) \/ CommitFull(m)
    \/ \E m \in Matches, k \in 0..MaxTime : Reschedule(m, k)
    \/ \E s \in Refreshers : Pass(s)

Spec == Init /\ [][Next]_vars

-----------------------------------------------------------------------------
(* Properties.                                                             *)

\* "The match's own result never leaks": the row a finished match is evaluated
\* with was not computed from a model fitted to the match itself.  Passes
\* overlap, abort and fit each other's results, full predictions come
\* in between, a match is even evaluated with a row from after its kickoff when
\* there is no earlier one: its own result leaks only if its kickoff was moved
\* forward after the first snapshot.
NoLeakUnlessAdvanced == \A m \in Evaluated \ advanced : m \notin Chosen(m).fit

\* The accuracy of the past is not rewritten: a match that is evaluated keeps
\* the row it is evaluated with, unless its kickoff was moved forward or a full
\* prediction made earlier is committed late.
EvaluationIsFinal ==
    [][(\A m \in Matches : ~CommitFull(m)) =>
           \A m \in Evaluated \ advanced : m \in Evaluated' /\ Chosen(m)' = Chosen(m)]_vars
=============================================================================
