------------------------------ MODULE MppCron ------------------------------
(***************************************************************************)
(* The scheduled pass of app/tasks/mpp_cron.py: refresh, then forecast the *)
(* matches of the next open game week and submit them to Mon Petit Prono,  *)
(* one failure never aborting the rest.  Passes are HTTP requests: two of  *)
(* them may overlap, and any may be cut off.                               *)
(*                                                                         *)
(* A request to MPP is one step here; MppAuth tells what it consists of.   *)
(* A forecast is known by the fit of the score model it was computed with. *)
(***************************************************************************)
EXTENDS Naturals, Nothing

CONSTANTS
    Ticks,       \* invocations of run_cron_tick that may overlap
    Matches,     \* matches of the game week
    Mapped,      \* those whose two clubs are in the club map
    Enabled,     \* settings.mpp_enabled
    MaxFits,     \* bound on calibrations of the score model
    MaxFailures  \* bound on failed requests and passes cut off

ASSUME CronAssumption ==
    /\ Mapped \subseteq Matches
    /\ Enabled \in BOOLEAN
    /\ MaxFits \in Nat
    /\ MaxFailures \in Nat
    /\ None \notin Nat

VARIABLES
    open,        \* matches of the week MPP still takes forecasts for
    forecasts,   \* the forecasts MPP has
    params,      \* number of the fit in cache entry "score:params"
    phase,       \* where each pass is
    listed,      \* the matchesIds a pass works from
    todo,        \* those it has yet to read
    queue,       \* forecasts computed and not yet submitted
    submitted, skipped, errors,   \* the summary of a pass, by match
    hurt,        \* history: matches whose own request failed in a pass
    failures,
    concurrent   \* history: two passes ran at the same time

summary == <<submitted, skipped, errors>>
cronVars == <<open, forecasts, params, phase, listed, todo, queue, submitted, skipped,
              errors, hurt, failures, concurrent>>

CronInit ==
    /\ open = Matches
    /\ forecasts = [m \in Matches |-> None]
    /\ params = 0
    /\ phase = [t \in Ticks |-> "idle"]
    /\ listed = [t \in Ticks |-> {}]
    /\ todo = [t \in Ticks |-> {}]
    /\ queue = [t \in Ticks |-> {}]
    /\ submitted = [t \in Ticks |-> {}]
    /\ skipped = [t \in Ticks |-> {}]
    /\ errors = [t \in Ticks |-> {}]
    /\ hurt = [t \in Ticks |-> {}]
    /\ failures = 0
    /\ concurrent = FALSE

-----------------------------------------------------------------------------

\* A match kicks off: MPP takes no forecast for it and no longer lists it.
Kickoff(m) ==
    /\ m \in open
    /\ open' = open \ {m}
    /\ UNCHANGED <<forecasts, params, phase, listed, todo, queue, summary, hurt, failures, concurrent>>

\* Mutated form of InitialQueue: the list outlives the pass that filled it.
InitialQueueKept(t) == queue[t]

\* forecasts = []
InitialQueue(t) == {}

StartTick(t) ==
    /\ phase[t] \in {"idle", "done"}
    /\ phase' = [phase EXCEPT ![t] = "refresh"]
    /\ listed' = [listed EXCEPT ![t] = {}]
    /\ todo' = [todo EXCEPT ![t] = {}]
    /\ queue' = [queue EXCEPT ![t] = InitialQueue(t)]
    /\ submitted' = [submitted EXCEPT ![t] = {}]
    /\ skipped' = [skipped EXCEPT ![t] = {}]
    /\ errors' = [errors EXCEPT ![t] = {}]
    /\ hurt' = [hurt EXCEPT ![t] = {}]
    /\ concurrent' = (concurrent \/ \E u \in Ticks \ {t} : phase[u] \notin {"idle", "done"})
    /\ UNCHANGED <<open, forecasts, params, failures>>

\* refresh_worldcup calibrates the model, or not; the pass goes on if it raises.
Refresh(t) ==
    /\ phase[t] = "refresh"
    /\ \/ UNCHANGED params
       \/ params < MaxFits /\ params' = params + 1
    /\ phase' = [phase EXCEPT ![t] = IF Enabled THEN "weeks" ELSE "done"]
    /\ UNCHANGED <<open, forecasts, listed, todo, queue, summary, hurt, failures, concurrent>>

\* Mutated form of WeekMatches: one match of the week is left out.
WeekMatchesTail == open \ {CHOOSE m \in open : TRUE}

\* The matchesIds of nextGameWeeks[0].
WeekMatches == open

\* next_game_weeks: without an open week the pass is done.
ReadWeeks(t) ==
    /\ phase[t] = "weeks"
    /\ listed' = [listed EXCEPT ![t] = IF open = {} THEN {} ELSE WeekMatches]
    /\ todo' = [todo EXCEPT ![t] = IF open = {} THEN {} ELSE WeekMatches]
    /\ phase' = [phase EXCEPT ![t] = IF open = {} THEN "done" ELSE "read"]
    /\ UNCHANGED <<open, forecasts, params, queue, summary, hurt, failures, concurrent>>

\* Any failure outside the loops: report what there is.
WeeksFail(t) ==
    /\ phase[t] = "weeks"
    /\ failures < MaxFailures
    /\ failures' = failures + 1
    /\ phase' = [phase EXCEPT ![t] = "done"]
    /\ UNCHANGED <<open, forecasts, params, listed, todo, queue, summary, hurt, concurrent>>

\* Mutated form of ForecastsOf: an unmapped match is forecast all the same.
ForecastsOfAll(m) == {[match |-> m, fit |-> params]}

\* predict_scoreline, when both clubs resolve to a team.
ForecastsOf(m) == IF m \in Mapped THEN {[match |-> m, fit |-> params]} ELSE {}

ReadMatch(t, m) ==
    /\ phase[t] = "read"
    /\ m \in todo[t]
    /\ todo' = [todo EXCEPT ![t] = @ \ {m}]
    /\ queue' = [queue EXCEPT ![t] = @ \cup ForecastsOf(m)]
    /\ skipped' = [skipped EXCEPT ![t] = IF m \in Mapped THEN @ ELSE @ \cup {m}]
    /\ UNCHANGED <<open, forecasts, params, phase, listed, submitted, errors, hurt, failures, concurrent>>

ReadMatchFails(t, m) ==
    /\ phase[t] = "read"
    /\ m \in todo[t]
    /\ failures < MaxFailures
    /\ failures' = failures + 1
    /\ todo' = [todo EXCEPT ![t] = @ \ {m}]
    /\ errors' = [errors EXCEPT ![t] = @ \cup {m}]
    /\ hurt' = [hurt EXCEPT ![t] = @ \cup {m}]
    /\ UNCHANGED <<open, forecasts, params, phase, listed, queue, submitted, skipped, concurrent>>

\* All matches are read: submit_forecasts, unless there is nothing to submit.
StartSubmit(t) ==
    /\ phase[t] = "read"
    /\ todo[t] = {}
    /\ phase' = [phase EXCEPT ![t] = IF queue[t] = {} THEN "done" ELSE "submit"]
    /\ UNCHANGED <<open, forecasts, params, listed, todo, queue, summary, hurt, failures, concurrent>>

\* Mutated form of Counted: a failed submission counts as well.
CountedAlways(f, ok) == {f.match}

\* if r.get("ok"): submitted += 1
Counted(f, ok) == IF ok THEN {f.match} ELSE {}

\* Mutated form of Remaining: the first failure aborts the batch.
RemainingAborted(t, f, ok) == IF ok THEN queue[t] \ {f} ELSE {}

\* The forecasts submit_forecasts goes on with, whatever became of f.
Remaining(t, f, ok) == queue[t] \ {f}

\* One PATCH: whether MPP applied it, and whether the pass saw it succeed.
Submit(t, f, applied, ok) ==
    /\ phase[t] = "submit"
    /\ f \in queue[t]
    /\ queue' = [queue EXCEPT ![t] = Remaining(t, f, ok)]
    /\ forecasts' = IF applied THEN [forecasts EXCEPT ![f.match] = f.fit] ELSE forecasts
    /\ submitted' = [submitted EXCEPT ![t] = @ \cup Counted(f, ok)]
    /\ errors' = [errors EXCEPT ![t] = IF ok THEN @ ELSE @ \cup {f.match}]
    /\ hurt' = [hurt EXCEPT ![t] = IF ok THEN @ ELSE @ \cup {f.match}]
    /\ UNCHANGED <<open, params, phase, listed, todo, skipped, concurrent>>

SubmitForecast(t, f) ==
    /\ f.match \in open
    /\ Submit(t, f, TRUE, TRUE)
    /\ UNCHANGED failures

\* The match kicked off since it was listed.
SubmitRefused(t, f) ==
    /\ f.match \notin open
    /\ Submit(t, f, FALSE, FALSE)
    /\ UNCHANGED failures

\* The request, or the answer to it, is lost.
SubmitFails(t, f, applied) ==
    /\ f.match \in open
    /\ failures < MaxFailures
    /\ failures' = failures + 1
    /\ Submit(t, f, applied, FALSE)

FinishTick(t) ==
    /\ phase[t] = "submit"
    /\ queue[t] = {}
    /\ phase' = [phase EXCEPT ![t] = "done"]
    /\ UNCHANGED <<open, forecasts, params, listed, todo, queue, summary, hurt, failures, concurrent>>

\* The invocation is cut off; what it submitted stays submitted.
CutOff(t) ==
    /\ phase[t] \notin {"idle", "done"}
    /\ failures < MaxFailures
    /\ failures' = failures + 1
    /\ phase' = [phase EXCEPT ![t] = "idle"]
    /\ UNCHANGED <<open, forecasts, params, listed, todo, queue, summary, hurt, concurrent>>

-----------------------------------------------------------------------------

Proceed(t) ==
    \/ Refresh(t) \/ ReadWeeks(t) \/ StartSubmit(t) \/ FinishTick(t)
    \/ \E m \in Matches : ReadMatch(t, m)
    \/ \E f \in queue[t] : SubmitForecast(t, f) \/ SubmitRefused(t, f)

Fault(t) ==
    \/ WeeksFail(t) \/ CutOff(t)
    \/ \E m \in Matches : ReadMatchFails(t, m)
    \/ \E f \in queue[t], applied \in BOOLEAN : SubmitFails(t, f, applied)

CronNext ==
    \/ \E t \in Ticks : StartTick(t) \/ Proceed(t) \/ Fault(t)
    \/ \E m \in Matches : Kickoff(m)

CronSpec == CronInit /\ [][CronNext]_cronVars

\* The cron fires every day, and a pass under way takes its next step.
CronFairSpec == CronSpec /\ \A t \in Ticks : WF_cronVars(StartTick(t)) /\ WF_cronVars(Proceed(t))

-----------------------------------------------------------------------------
(* Properties.                                                             *)

\* Whatever fails on the way, the summary of a pass that listed a week counts
\* every match exactly once: submitted, skipped or in error (run_cron_tick).
Accounted ==
    \A t \in Ticks : phase[t] = "done" =>
        /\ submitted[t] \cup skipped[t] \cup errors[t] = listed[t]
        /\ submitted[t] \cap skipped[t] = {}
        /\ submitted[t] \cap errors[t] = {}
        /\ skipped[t] \cap errors[t] = {}

\* "A single bad match never aborts the whole run": every match with known
\* clubs whose own requests went through is submitted, whatever happened to
\* the others (the loops of run_cron_tick and submit_forecasts).
FailuresIsolated ==
    \A t \in Ticks : phase[t] = "done" =>
        (listed[t] \cap Mapped) \ hurt[t] \subseteq submitted[t]

\* A match counted as submitted has a forecast at MPP.
SubmittedIsHeld ==
    \A t \in Ticks : \A m \in submitted[t] : forecasts[m] # None

\* Passes that do not overlap never replace a forecast by one of an older fit.
NeverOlder ==
    [][~concurrent' => \A m \in Matches :
           forecasts[m] # None => forecasts'[m] # None /\ forecasts'[m] >= forecasts[m]]_cronVars

\* A match that stays open and has known clubs gets a forecast, although
\* passes fail, are cut off and overlap.
OpenMatchIsForecast ==
    Enabled => \A m \in Mapped : [](m \in open) => <>(forecasts[m] # None)
=============================================================================
