# MatchOracle, verified with TLA+

MatchOracle (`app/`) predicts football matches with six agents whose votes are
aggregated with learned weights, attaches real results to its predictions,
re-tunes the weights and the score model from them, and submits World Cup score
lines to a prediction game (Mon Petit Prono, "MPP"). This directory holds the
TLA+ model of that program, the TLC configurations that check it, and the
theorems that TLAPS proves about it. Paths and lines below refer to the
repository root; `PROJECT.json` maps every definition to the lines it models.

## 1. Inventory

The program is a FastAPI service (PostgreSQL, a cache, optional Celery workers)
plus a scheduler that runs `python -m app.tasks.refresh` every six hours
(`docker-compose.yml:45-59`) or a daily HTTP cron (`vercel.json:11`,
`app/main.py:83-104`). Processes share two things: the database, transactional,
one session per request or pass; and the cache, which no transaction covers.

| Component | State | Operations | What is hard |
|---|---|---|---|
| Learning loop (`app/orchestration/service.py`, `app/tasks/refresh.py`) | tables `predictions`, `outcomes`; cache entry `orchestration:weights` | `autonomous_learn`, `ingest_worldcup_outcomes`, `record_outcome`, `recalculate_weights`, `rollback_weights` | passes and requests overlap; check-then-insert; cache written before the commit; read-adjust-write of the weights |
| Agent weights (`app/orchestration/weights.py`) | one vector, or the configured defaults | `current`, `set`, `reset`, `normalise`, `adjust_from_accuracy` | rounding, clamp before normalisation, the same window applied again and again |
| MPP authentication and requests (`app/mpp/auth.py`, `client.py`) | cache entry `mpp:tokens`; the token Auth0 accepts | `get_access_token`, `_refresh`, `_request` with one retry | rotating refresh tokens, overlapping runners, a crash between grant and store |
| MPP cron pass (`app/tasks/mpp_cron.py`, `client.submit_forecasts`) | the run's summary; the forecasts MPP holds | `run_cron_tick` | partial failure, overlapping passes, cut-off invocations, lost answers |
| Snapshots, accuracy, calibration (`refresh_worldcup`, `_worldcup_finished_records`, `calibrate_score_model`, `app/prediction/accuracy.py`, `params.py`) | World Cup rows of `predictions`; cache entry `score:params` | persist a snapshot per match, choose the evaluated one, re-fit | order of rows of several writers; results leaking into their own evaluation; moved kick-offs |
| Cache backends (`app/cache/`) | Redis, `kv_store`, or process memory | `get`, `set`, `delete` with a time to live | fallback during an outage, racing first writes, expiry |
| Request session, audit, repositories (`app/db/base.py`, `app/security/audit.py`, `app/repositories/`) | one transaction per request | flush, audit in a savepoint-less session, commit after the response | a failed audit row undoes the work it records; read your own write |
| Feedback loop, benchmark (`app/api/routes/feedback.py`, `app/prediction/feedback.py`, `benchmark.py`) | table `feedback`; the same weights | verdicts, observations per agent, re-tuning | several verdicts on one prediction; labels derived from score lines |
| Orchestration graph, agents, aggregation (`app/orchestration/graph.py`, `aggregation.py`, `app/agents/`) | the results of one run | fan-out, an agent that fails, expert last, aggregation | partial failure, weights of the missing, ties |
| LLM provider and router (`app/llm/`) | none but a client | completion with retries, fallback text | timeouts and retries |
| Score, group and tournament simulation (`app/prediction/score.py`, `group.py`, `tournament.py`) | the tallies of a simulation | score line, table, qualifiers, bracket | teams that are level, seeding by complements, results that must stay |
| Connectors (`app/connectors/`) | cached feeds | World Cup and Bundesliga data, form, matchups | agent threads that miss the same entry, an API that stops answering, names that mean several teams |
| MCP sources (`app/mcp/`) | a registry | `fetch_context` | one source of several failing, noise in place of a signal |
| Celery workers (`app/workers/`) | broker | the agents as tasks | off by default |
| Tenancy, API schemas, dashboard, metrics, configuration | - | - | sequential checks, formatting |

Interactions: the refresh pass calls the snapshot side first (persist, commit,
calibrate), then the learning loop (`app/tasks/refresh.py:25-74`); the cron pass
runs the refresh, then reads MPP and submits (`app/tasks/mpp_cron.py:54-151`);
every MPP call goes through the authentication. Weights, score parameters and
tokens meet in the cache only, under keys of their own.

What makes each part correct:

- *Learning loop*: one outcome per prediction under any interleaving; weights
  rest on outcomes the database keeps; a rollback is a rollback; a finished match
  is ingested and learned from in the end, whatever fails on the way.
- *Weights*: always a distribution; no agent collapses or dominates; better
  agents never lose to worse ones; one window moves them by at most the rate.
- *MPP tokens*: the newest refresh token is never lost or overwritten while
  runners overlap; nobody is refused alone; a retry never repeats the rejected
  token; the game goes on being served.
- *Cron pass*: every match is submitted, skipped or in error, once; one failure
  stays one failure; an open match has a forecast in the end.
- *Prediction*: a failing agent neither ends a prediction nor turns it; what is
  stored explains itself; what a client is told of is stored.
- *Feedback*: an honest verdict teaches what the outcome would; contradictory ones
  cancel; whoever was right gains; the weights change by accuracies or a reset only.
- *Signals*: the agents of a prediction see one state of the feeds; nobody passes noise
  for data when the teams are known; which side is named first does not matter; a
  prediction is judged by the match its score line is about.
- *Tournament*: a team that has made it on the field makes it in every simulation; the
  bracket has the best field and keeps its best apart; tallies make probabilities.
- *Snapshots*: a prediction is never scored on a result it was fitted to; an
  evaluation does not change afterwards; a match with a snapshot is evaluated.

## 2. The modules

| Module | Models | Extended by |
|---|---|---|
| `LearningLoop` | the learning loop, with sessions and locks | `MCLearningLoop`, `LearningLoopProofs` |
| `Weights` | the weight vector by value | `MCWeights`, `Feedback` |
| `MppAuth` | tokens and one request | `MCMppAuth`, `MppProofs` |
| `MppCron` | one cron pass over a game week | `MCMppCron`, `MppProofs` |
| `Snapshots` | rows, their choice, calibration | `MCSnapshots`, `WorldCupProofs` |
| `CacheContract` | what the cache backends promise (abstract) | `Cache`, by INSTANCE |
| `Cache` | the three backends, on one key | `MCCache`, `CacheProofs` |
| `Prediction` | `POST /predict`: agents, vote, session, audit, answer | `MCPrediction`, `PredictionProofs` |
| `Feedback` | verdicts and outcomes as lessons, composed with `Weights` | `MCFeedback`, `FeedbackProofs` |
| `Signals` | connectors, agents, sources, score line | `MCSignals`, `SignalsProofs` |
| `Tournament` | groups, bracket, tallies | `MCTournament`, `WorldCupProofs` |
| `Nothing` | `None`, shared by modules that are reasoned about together | `MppAuth`, `MppCron`, `Snapshots`, `Tournament` |
| `SumTheorems` | what is true of sums, and two forms of induction | `FeedbackProofs`, `PredictionProofs`, `SignalsProofs`, `WorldCupProofs` |

The modules called `*Proofs` hold theorems and nothing the runs need; those about `Weights`
are in `FeedbackProofs`, those about the two halves of the MPP client in `MppProofs`, those
about World Cup rows and simulations in `WorldCupProofs`. That is why two such modules, which
one proof module extends, share no name but `None`. Sums are folds of the community modules
(`SumFunction`), first and last elements `Min` and `Max` of a set of positions, and what is
recursive is a recursive function (`TwoTo`, `SeedOrder`): the proofs need them so.

The `MC*` modules hold the sets the configurations instantiate constants with.
Operators whose comment begins "Mutated form of" are not used by any
specification: each is a plausible bug in the operator below it, and a property
is worth checking only if such a bug violates it.

### LearningLoop

A session is a learner (`autonomous_learn`, from the scheduler, the cron or
`POST /accuracy/auto-tune`) or a recorder (`POST /predictions/{id}/outcome`).
`pc` follows the code statement by statement where another session can come in
between:

    learner   idle -StartLearn-> rows -ExamineRow-> lookup -> insert | update -> rows ...
              rows -Observe-> read -ReadBase-> publish -Publish-> commit -Commit-> idle
    recorder  idle -StartRecord-> lookup -> insert | update -> commit -Commit-> idle

`ExamineRow` is the loop body of `ingest_worldcup_outcomes` (352-357),
`LookupExisting` the second query in `record_outcome` (243), `InsertOutcome` and
`UpdateOutcome` its flush (`repositories/base.py:23-26`), `Observe` the query of
`_agent_observations`, `ReadBase`/`Publish` the read and the write of
`adjust_from_accuracy`, `Commit` the end of `get_session`. `inserts[s]` and
`updates[s]` are the rows a transaction holds; `Visible(s)` is what its queries
return under READ COMMITTED. A flush waits for the transaction that holds the
row or its unique key (`WaitsFor`); a cycle of waits is broken by `DeadlockVictim`;
a key committed meanwhile is `IntegrityError`. `Fail` is a crash or database error
anywhere in a session; the cache keeps what `Publish` wrote.

A weight vector is abstracted to its *lineage*: the rollback it descends from and
the outcomes it was tuned with. Its numbers are the subject of `Weights`. The
`accuracy_snapshots` row a pass adds is read by nobody and left out. PostgreSQL's
behaviour (visibility, locks, deadlock detection) is external and so marked.

### Weights

`cached` is the cache entry; the specification is `WeightsSpec`, for `Feedback` extends the
module. `Tick(acc)` is `adjust_from_accuracy` for one
accuracy window, `Normalise(Clamp(w * Factor))`; `Reset` is a rollback or the end
of the entry's day. Weights are integers in units of `1/Scale`. The runs use
`Scale = 1000` where the code rounds to four decimals: rounding is ten times as
coarse, so an error it could cause appears ten times as early, and the states
stay few. A tie rounds up here and to even there; ties differ by one unit, which
the properties allow for. `AddsUp`, `RateFits` and `LessonsFit` are conditions on the settings
under which more can be proved than holds of every instance. `MCWeights` has TLC check
them for the six agents of `DEFAULT_WEIGHTS`, four decimals, a rate of 0.1 and limits of
0.02 and 0.6.

### MppAuth

A runner's request is `load -> exchange -> store -> call`, with `load -> call` when
the access token is fresh, and one retry after a 401. `store` is the cache entry,
`live` the only refresh token Auth0 accepts, `held[r]` what a runner has in hand.
`Granted` is the answer to an exchange, `StoreTokens` the write that follows it:
everything interesting happens between the two. Tokens are names; a grant takes a
name nobody refers to any more, so requests are not bounded.

Constants keep two facts about the environment apart from the code:
`AlwaysRotates` (Auth0 replaces the refresh token at every grant; line 83 also
allows for a grant that does not) and `ZeroTtlKept` (a `set` with `ttl=0` is kept:
true of `kv_store`, false of Redis, which refuses an expiry of zero, whereupon
`redis_cache.py:48` puts the value in process memory that `get` does not look at
while Redis answers).

`Expire` does not take a token from a runner that found it fresh: freshness ends
90 s before the expiry (`REFRESH_SKEW_SECONDS`) and a request ends after 15 s.
`Revoke` is the exception, MPP dropping a token early, which is what the retry is for.

### MppCron

`refresh -> weeks -> read -> submit -> done`, per pass (`phase`). `queue` holds the computed
forecasts, each with the number of the score-model fit it came from; a request to
MPP is one step (its inside is `MppAuth`). `SubmitFails` distinguishes a lost request
from a lost answer, `SubmitRefused` is a match that kicked off after it was listed,
`CutOff` the platform ending the invocation. `failures` counts both, and `concurrent` remembers that
two passes ran at the same time.

### Snapshots

`rows[m]` are the rows of a match by `created_at`; a row from a refresh is flushed by
the commit that also dates it, a row from `POST /predictions` is flushed first and
committed after the response, so it may become visible late (`CommitFull`). What
a row predicts is abstracted to the results its score model was fitted to; a row
*leaks* when its own match is one of them. `Chosen(m)` is the row
`_worldcup_finished_records` picks.

### CacheContract and Cache

`CacheContract` is `app/cache/base.py` made precise: a request takes effect at one
moment between its call and its return; an entry with a time to live may be
missed at any time and is not returned once it lapsed; one with `ttl=0` is never
missed; a write may vanish (`GiveWay`) or fail (`Refuse`) only if another write took
effect since it was called. `Cache` holds the backends side by side, the initial
state choosing one, and implements the contract with `entry <- truth`, a history
variable that records what callers were promised.

- *Redis* (`RedisGet`, `RedisWrite`): one step, at Redis or in the process memory.
  `linked` is what `__init__` finds once per process, `Outage`/`Recover` the network,
  `RedisWriteUnanswered` a write Redis takes though its answer is lost.
- *kv_store* (`KvGet`, `KvRead`, `KvSet`, `KvSetFails`, `KvDelete`): a write reads the row,
  then flushes and commits what differs from what it read; another write may
  come in between.
- *Memory* (`MemoryGet`, `MemoryPop`, `MemoryWrite`): a `get` that found an expired item
  pops it in a second step. One process, as its docstring demands.

`ContractKept` says that every step is one of the contract, and names the two
exceptions of the Redis fallback: while the latest write is in a process's memory
(`diverged`), and a `get` that Redis does not answer and an old memory does.

### Prediction

One request is `idle -Ask-> agents -> expert -> aggregate -> persist -> audit ->
respond -> commit -> done`. `Says`, `Fails` are one node of the graph, in any order;
`ExpertSays` comes when the analytical agents are all there, as the edges of
`build_graph` demand, and averages them, failures included. The LLM, its router and
its fallback are in that one step: they decide the wording, which is left out.
`Aggregate` reads the weights and votes, `Persist` flushes the prediction and its agent
results, `Audit`/`AuditFails` is `record_audit`, whose `rollback` empties `pending`, and
`Commit` comes after `Respond`: FastAPI ends the session dependency once the response
is sent. `Retune` is the rest of the system changing the weights (`LearningLoop`,
`Weights`). Entities longer than `AuditLog.resource` are a set, `long`, chosen at the start.

Scores are whole numbers, centred on the neutral 0.5, so that the expert's mean is
exact. The vote is taken with the weights as they are (`Active`), and what is stored are
their shares rounded to four decimals (`Shares`, `Rounded`, `Scale`), so that a close vote need not
follow from what is stored with it; `Blur` is how close. A match that the connector resolves
is labelled with its score line (`Label`), which a constant stands for (`Lines`). Left out are
the floating-point sum of the vote (one that is exactly 0.5 goes up here and may go either
way in the code), the confidence, the conflict flag and the order of the contributors.

### Feedback

`RecordOutcome` and `RecordFeedback` fill the two tables, `Learn(source)` is either
recalculation: the rows of the table are labelled (`RealisedLabel`,
`LabelFromFeedback`), the labelled ones become observations of the agents that
called them (`Observed`, `Hits`), their shares an accuracy window (`Accuracy`), and the
window a tick of `Weights`, whose variable `cached` is this module's too. A text is
its kind (a class token, a score line, the title of a match) and the side it names.
Requests are atomic here: what their sessions do to each other is in `LearningLoop`.
The accuracies are not rounded; `Weights` has the rounding that matters. The accuracy
snapshots a lesson adds, and the counts `GET /agents/benchmark` reports, are left out:
nothing reads them back.

### Signals

The agents of a prediction are threads. Each reads the feeds its connector needs on
its own: `Ask` is a read that misses the cache (the hits of one thread that come before
it are in the same step), `Reply` the reply of the API, with the matches that are over by
then, `Store` its write into the cache, which comes later, whatever the cache has by then, and
`Fail` a reply that does not come. `Analyse` is the rest of `BaseAgent.analyze` once the agent
has what it wants. The ingesting pass reads the same entry in the same way (`Ingest`,
`Reply`, `IngestReply`, `IngestNothing`). `Finish` is a match that ends,
`Toggle` an API that stops or starts to answer, `Lapse` an entry that is gone.
`Persist` reads once more, for the score line; nothing comes between that read and its
answer in the model. A feed is its version, the number of finished matches, from which
table, form and momentum follow. Rates, momenta and relative signals are in thousandths, as
`round(..., 3)` leaves them (`Thousandths`: the floats of a half are exact there, and go to
the even neighbour). Half a thousandth in `Relative` is not exact: `RoundsUp` says for which
pairs the floats are above it, and the theorems hold for any. Which teams a name may mean is a
constant (`Names`);
the connectors differ in which of several they take (`Seeded`, `InTable`). What an agent
rests its score on (`Basis`) is kept, the score itself is not. A score line always has
a winner, as in a knockout match; thresholds stand for the modes of the Poisson grid.
`HomeEdgeFits` is a condition on them that a fit could break: a home side that is weaker by
the worth of its ground scores as much as its opponent. `MCSignals` has TLC check it
for the seed values of the code.
The health flag a failed MCP call leaves behind is not modelled; only `GET /mcp` reads it.

### Tournament

A simulation is `PlayGroup` for each group, `SeedBracket`, `PlayRound` down to the
champion, `NextSim`; for one group it is `PlayGroup`, `TallyGroup`. Everything the random
generator decides is a choice: the score of an open match, the order of teams that are
level, who wins a knockout match. `SeedOrder[k]` is `_bracket_seed_order` of `2^k`, by its
recursion: `Doubled` puts each seed's complement behind it. How likely a choice is, is left
out: what holds, holds of every possible simulation. `TournamentAssumption` says what a feed
is: a team plays in one group, and a group with fixtures has three teams at least, for
both simulations read the third place (`ranked[2]`, `standings[2]`); and the field fills
the bracket.

## 3. The runs

Bounds are constants named `Max*`; every one of them limits an action of the
environment or a fault, not a step of the program.

| Run | Instance | Shows |
|---|---|---|
| `loop_hand` | 1 prediction, 2 learners, 1 recorder, 2 rollbacks, 2 faults | `OneOutcomePerPrediction`, `EvidenceDurable`, `RollbackHoldsUnlessOverlapped` and the types. Three sessions are the fewest in which two conflict and a third sees the result; two rollbacks let one fall inside a pass that began after another. |
| `loop_live` | 2 predictions (one drawn), 2 learners, 1 rollback, 1 fault, fairness | `FinishedIsIngested`, `OutcomeIsLearned`; also the only instance with deadlocks, which need two rows in opposite orders. |
| `weights` | 3 agents, 2 opposed windows in any order, resets | `SharesBounded`, `MeritRespected`, `BoundedStep`: all vectors reachable in any number of ticks. |
| `mpp_auth` | 2 runners, 5 names, 1 fault, 2 early revocations, fairness | `ChainUnbroken`, `SoloNeverRefused`, `RetryIsFresh`, `KeepsServing`. Five names leave one for every grant of two runners; a second 401 takes two revocations. |
| `mpp_auth_redis` | the same, `ZeroTtlKept = FALSE` | violates `NewestTokenStored` at the first rotation. |
| `mpp_cron` | 2 passes, 3 matches (one without known clubs), 1 fit, 1 fault, fairness | `Accounted`, `FailuresIsolated`, `SubmittedIsHeld`, `NeverOlder`, `OpenMatchIsForecast`. |
| `snapshots` | 2 matches, 2 refreshers, 3 passes, 1 full prediction, 1 moved kick-off, clock 0..3 | `NoLeakUnlessAdvanced`, `EvaluationIsFinal`. A leak takes three passes: a snapshot, a fit, a snapshot computed with it. |
| `cache` | 3 threads, 2 processes, 2 values, 1 outage or lost answer, symmetric | `ContractKept`. Three threads: one between its two steps, one that overtakes it, one that reads. |
| `prediction` | 1 request, 3 agents and the expert, 4 weight vectors, a score line or none, 2 database failures, fairness | `Reproducible`, `FailuresAreSilent`, `ContributorsAgree`, `CreatedIsStored`, `OnlyTheDatabaseFails`. Requests meet in the weights only, and `Retune` changes those at any moment: one request sees all that several would. Three agents are the fewest with a majority; a vector that gives one of them more than the others together turns it, and one has shares whose rounding turns a tie into a defeat. |
| `feedback` | 2 predictions, 2 agents that disagree, 2 verdicts, 2 lessons, symmetric | `HonestVerdictsAgree`, `ContradictionsCancel`, `WeightsFollow`, `RightGains`. Two verdicts can contradict each other or be about two predictions; two lessons can come from the two sources; outcomes and corrections are a label, the score line of a win and that of a draw. |
| `signals` | 3 domains, 3 teams, 4 matches, 3 ways to name a pair, 1 or 2 agents, 1 prediction, 1 fault | `OneView`, `NoNoise`, `MirrorImage`, `FavouriteAdvances`, `OutcomeOfTheLine`. Two readers and the pass are enough to miss the same entry three times, and for a match to end between a reply and its caching. The matches have a reverse fixture and a second meeting of the same sides, a team that has lost all its games, and rates whose halves are rounded. |
| `tournament` | 3 groups of 3, a bracket of 8, 2 simulations of the tournament or of one group | `SecuredGoesThrough`, `FieldIsBest`, `BestMeetLate`, `RoundsHalve`. One group has a match to play and a team that is through, another a tie of all three, the third ranks clearly; two of the three thirds go through; eight is the smallest bracket in which complements in the wrong order differ. |

`mpp_auth_redis` checks what a comment of the code says; `PROJECT.json` quotes it next to
what the code does. The passing runs check what is true where a text of the repository
is more generous, and name the exceptions:

- a rollback holds unless it falls between a learner's read and its write;
- a result does not leak into its own evaluation unless the match was brought forward;
- no weight exceeds the share `SharesBounded` gives, which is more than `autoweight_max`: the
  clamp comes before the normalisation, and with the six configured agents 17 identical
  passes take a weight over the limit;
- a prediction of `POST /predictions` that is a match's oldest row masks the snapshots of
  that match, which is then not evaluated;
- an entity of 257 to 512 characters fits `predictions` and not `AuditLog.resource`: the
  audit row is refused, its rollback takes the prediction with it, and the client is
  told 201 (`CreatedIsStored` names it);
- a rejected prediction whose match was drawn is learned as a win of the other side, and a
  score line has no label as a verdict: neither the approval of a prediction that is one nor a
  correction to one ("2-1") teaches anything, though as an outcome the same text has a label.
  `app/prediction/feedback.py:7-12` promises that a verdict reshapes the weights "exactly like a
  real outcome", with label semantics "identical"; `HonestVerdictsAgree` holds but for these two;
- what is stored with a vote explains it but for votes within `Blur`, less than 0.0002 of a
  score for six agents: the weights are rounded after they were used (`aggregation.py:106`);
- "all agents share a single fetch" (`openligadb.py:10-11`) holds but for the race that
  `OneView` names: threads that miss an entry together fetch it each, and a match that ends
  while one has a reply it has not cached, or still waits for one that another has
  cached, parts their views;
- "the live flagship is never fed synthetic sentiment" holds of the demo source only: a reply of
  a real server that has no word of the lexicon is given a sentiment by its hash
  (`sources.py:62-63`), on the World Cup too. `NoNoise` names it, and the trend agent, which
  hashes the entity when a momentum is 0, that of a team that lost its last five games;
- mirror images are a thousandth apart where two signals are rounded the same way, and where
  one league side has no momentum the other's own one stands for the pair (`MirrorImage`).

`Snapshots`, `Feedback`, `Signals` and `Tournament` end when their counters are used up, so
their configurations do not check for deadlock. All others do: no session, runner or
pass ever waits for ever.

**Fairness.** `LearningLoop` and `MppCron` assume that a pass is started again and
again (the scheduler's endless loop, the daily cron), and that a session or pass under way
takes its next step (`Proceed` in `MppCron`); for a waiting flush that means once the lock is free. Nobody is obliged to predict, finish, record, roll
back or fail. `MppAuth` assumes that
requests come again and again; `Prediction` that a request under way goes on, as its
thread does. `CollisionsCease` is a premise of the two liveness
properties of the loop: the rows of a pass have no `ORDER BY`, so two passes may
deadlock in the database each time they overlap, and only the distance between
passes (hours, for seconds of work) makes that stop. Without it, a livelock
is a behaviour of the code. `KeepsServing` does not hold when a grant is lost: the
rotated token is then gone, and only a new seed, with the entry deleted by hand,
helps.

## 4. The proofs

Every safety invariant and every action property that a passing run checks is a theorem
(`BoundedStep` only near the limits, as the table says), for any
number of sessions, predictions, runners, passes, matches, teams, groups, rounds, agents,
threads, requests, verdicts, faults and rollbacks. The theorems rest on the named
assumptions of the modules (`LoopAssumption`, `AuthAssumption`, `CronAssumption`,
`SnapshotsAssumption`, `CacheAssumption`, `PredictionAssumption`, `WeightsAssumption`,
`FeedbackAssumption`, `SignalsAssumption`, `TournamentAssumption`), which TLC evaluates on
every run, and on nothing else, except where a theorem says so:

| Theorem | Hypothesis | Why it is there |
|---|---|---|
| `ChainIsUnbroken`, `SolosAreNotRefused` | `Durable` | rotation at every grant and a store that keeps `ttl=0`; without either they are false, `mpp_auth_redis` shows the second |
| `SharesStayBounded` | `MinWeight > 0` | the default is 0.02, nothing forbids 0: then all weights could vanish in one tick, and the equal ones `normalise` gives instead are whole units only if the number of agents divides `Scale` |
| `StepsStayBounded` | `MinWeight > 0`, `RateFits`, `AddsUp(DefaultWeights)` | the rate is one half at most and more than the rounding of all weights, the configured weights add up to 1: true of the settings (0.1, four decimals, six agents), not enforced. The theorem is about vectors `Near` the limits; for the others it can be false, see below |
| `TheRightDoGain` | `LessonsFit` | the least weight the limits allow is worth a step of the rate per agent, and what is normalised adds up to less than 2; otherwise rounding can undo a nudge. True of the settings, as TLC evaluates in `MCWeights`, not enforced |
| `ContradictionsDoCancel` | `AccScale` is even | one half must be an accuracy; in the code it is a float |
| `FailuresStaySilent`, `ContributorsDoAgree` | `PositiveWeights` | a failed agent is silent among agents that count; `autoweight_min` and the configured defaults are positive |
| `FavouritesAdvance` | no league, or `HomeEdgeFits` | true of the seed values, as TLC evaluates in `MCSignals`; a fit could move the thresholds |
| `RequestsEndWell` | `NothingIsApart` | `None` of Python is neither a text nor a row |

**Sums.** Weights, votes, form, points and tallies are sums over sets whose size nobody knows,
and an induction theorem that takes an operator cannot be instantiated here. `SumTheorems`
goes round that with sets: `SubsetInduction` says that a *set* of subsets that has `{}`, and a
subset whenever it has that subset less one chosen element, has all of them; it follows from
the least element of a set of cardinalities (`LeastNat`). `SumsExist` constructs the
function the fold chooses, `SumSteps` says that a sum is taken by adding one number after
the other, in any order (`SumAnyOrder`), and everything else (`SumType`, `SumSplit`, `SumAdded`,
`SumsCompared`, `SumChanged`, `SumBounded`) is an instance of `SubsetInduction` for the set
of subsets with the property. `SizeInduction` and `StepInduction` are the same with all
smaller subsets, and with the numbers up to a bound.

*LearningLoop.* `OneOutcomePerPrediction` is not inductive: the step that matters is a
commit, and it is safe only because of what the transaction holds. The
strengthening says that a session's own rows are about distinct predictions, were
not committed by others, and that no two sessions hold the same prediction
(`SessionInv`, `RowInv`); this is where the unique key and the lock wait are used. `EvidenceInv`
follows a learned label from the query through `evidence[s]` and `base[s]` to the cache:
at each stage the outcome is committed or held by the very session that carries
it, unless `torn`. `EpochInv` says the same of rollbacks: what is cached, and what a
learner has read, is of the current epoch unless `overlapped`. Theorems
`TypeCorrect`, `OutcomesAreUnique`, `EvidenceIsDurable`, `RollbackIsFinal`.

*Weights.* `MeritIsRespected` needs the arithmetic of a tick step by step: a factor grows with
the accuracy (`FactorOrder`), the clamp keeps an order (`ClampOrder`; a product that is
not positive is clamped to the least), and so does rounding (`ShareOrder`).
`SharesStayBounded` needs an invariant, for the property is about a vector of which nothing
is known but its sum: the vector is the normalisation of weights within the limits
(`WeightsInv`). From that a share is least, or greatest, when all others are at the
other limit (`LeastShare`, `GreatestShare`), and the sum misses `Scale` by less than half
a unit per agent (`Gap`). `StepsStayBounded` is a bound on a quotient: no factor is further from
1 than the rate (`FactorFacts`), nor is what the clamp leaves of it, near the limits
(`ClampedNear`); a part that grows by the rate while the rest shrinks by it gains at
most two thirds of the rate of the whole (`Convex`, a sum of squares; `ShareGain`), what
it loses the rest gains (`Loss`), and the third that is left covers the rounding.

*Feedback.* `HonestyIsTaught` goes through the three verdicts, and for each through the kinds
of text (`HonestLabels`): wherever a verdict has another label than the outcome it agrees with, it is
one of the two exceptions. It needs that a row is about a prediction there is (`FeedbackInv`). `FollowsWeights` needs that every window is one of
accuracies (`AccuracyIsWindow`): the rows are finitely many, hits are among the
observations, and a quotient of the two lies in `0..AccScale` (`Quotient`).
`ImplementsWeights` is the refinement: what `Feedback` does to `cached` is a behaviour of
`WeightsSpec`, so the two theorems on `Weights` are theorems on the loop too.
`ContradictionsDoCancel` counts: an agent that called a prediction hits with the verdicts for
one side and misses with those for the other, the calls of distinct predictions are
disjoint, so hits and misses are as many over any set of predictions (`AsManyHits`).
`TheRightDoGain`: an agent that was always right has accuracy 1, one that was always wrong 0
(`FullMarks`), so the mean is a share away from either (`Extremes`); before it is normalised
the weight of the one grows by a unit at least and that of the other shrinks by one, for
every reachable weight is worth a step per agent (`WeightsAreWorth`, from `WeightsInv`) and
who is not at a limit is a unit away from it (`UnitGained`); a unit is seen through the
rounding while the total is below 2 (`TotalBelow`, `UnitSeen`).

*MppAuth.* `TypeCorrect` and `RetriesAreFresh` hold unconditionally; `ChainIsUnbroken` and
`SolosAreNotRefused` assume `Durable`. The argument: while a runner has the newest
refresh token to store, neither the entry nor a runner about to exchange has it
(`HolderInv`), hence every exchange in that time is refused, hence there is never
a second holder, hence no older pair is written after a newer one. `SeedInv`
disposes of the runs without a configured token, `SoloInv` ties refusal to
overlap.

*MppCron.* `Accounted` and `FailuresIsolated` speak of a pass that is done; the invariant
says what they are on the way there (`PassInv`): before a week is read everything is
empty; then what is listed is the disjoint union of what is to be read, what is queued,
and the three sets of the summary; a match is queued once, only one without known clubs is
skipped, and only one whose own request failed is an error (`Partition`, `Deserved`).
`NeverOlder` is an action property; `OrderInv` says that no forecast is ahead of the score
model, and that while passes have not run concurrently, one pass is active and what it will
submit is no older than what MPP has. `SubmittedAreHeld` holds however they overlap.

*Snapshots.* `ResultsNeverLeak` needs to know what a row may have been fitted to at all
(`FitInv`: matches that are over and have been seen to be, in parameters and in the hands
of a pass alike; `DraftInv`: the same of what a pass is about to persist). `RowsInv` is the
heart: a row that leaks is from after the kick-off and not the match's first snapshot, and no row
has a later kick-off than its match unless that was moved forward. The choice then falls
on an earlier row. `PastIsNotRewritten` follows from the same: a row added after the kick-off,
or not committed, changes neither end of the positions that are chosen from (`ChoiceStays`).

*Cache.* `ContractIsKept` is the refinement of the contract: each step of `Cache` maps to
a step of `CacheContract` or leaves its variables alone. It needs an invariant:
what is shared is what was promised (`RowInv`); an entry with `ttl=0` has not lapsed
(`KeptInv`); a session's row is still there, or the session has been overtaken and
the row is fresh (`SeenInv`, the heart of it: it is what makes a failed or vanished
write one that another write overtook); a memory can only have lost what it
promised (`MemoryInv`). One lemma per action shows that the invariant survives and
that the step is promised.

*Prediction.* `StoredIsReproducible`: a vote that waits to be stored is the vote of the
results at hand, and carries the shares of the weights it was taken with (`VoteInv`; without it
`Persist` could store anything), and rows flushed or stored are explained by themselves
(`RowInv`). Between the two is the rounding: a share is off by half a unit at most
(`RoundedIsNear`, `ShareIsNear`) and a score by a full opinion, so a sum of products that is
further than `Blur` from zero has the sign of the vote's own (`SharesExplain`).
`FailuresStaySilent` and `ContributorsDoAgree` need more: an agent that failed is neutral, the
expert comes when all are there and says their mean (`ResultsInv`), and a vote is that of
the results as they still are, for no result comes after the vote (`CastInv`). Then the signs of
the scores decide the sign of their weighted sum, the expert's included (`VoteSigns`).
`RequestsEndWell` is the safety of the two liveness properties: a request that ends has
been answered, in error only if the database failed, and what the client was told of is
stored but for the two excuses `CreatedIsStored` names (`EndInv`).

*Signals.* `ViewsAreOne`: in a calm request an agent has seen what is cached now, or nothing
because the API failed it with something not cached (`SeenOk`); it has judged by the same
(`ViewOk`); a reply that is held is what the API would say now, and so is the entry another
reader has cached of a feed that somebody still waits for (`AskOk`). `ReplyDisturbsNobody` is the
heart: caching a reply of the present version leaves all three as they are, though it changes
the cache. The race `OneView` excludes is the one in which `AskOk` fails (`NotOvertaken`).
`OutcomesAreTheirs` relates two ways of reading a name, that of the score line and that of the
ingestion: the line of a pair whose names are known is about the teams they seed to, and an
outcome is a fixture of the pair as it was written (`RowOk`), which only a pair of teams can
be (`FixtureTeams`, `SeededTeam`); so a row with an outcome has a line, and that line's sides. It
needs that rows keep their columns (`RowsInv`), and that neither the entry nor a
reply the pass holds is ahead of the results (`VersionsInv`, `RepliesInv`).
`SignalsAreMirrored` holds in any state: two halves that are rounded on their own add up to one
or a thousandth off (`RelativeFacts`, `Mirrored`), once the sides are known to be teams with
numbers (`Sided`): rates and momenta have types only where a team has played.
`FavouritesAdvance` follows a line from the request to
the row (`LinesInv`) and compares the goals of both sides through the thresholds they pass
(`GoalsFollow`). `NobodyMakesNoise` takes the agents one by one: with both teams known there is a
matchup (`KnownMatchup`), so only trend can be left without a signal, and the sentiment of a
source is a real server's (`SnippetIsReal`, `ContextualFacts`). It must relate an agent's
answer to a feed that has moved on since (`Telling`): no version in the cache, or
seen by anybody, is ahead of the results, and what a version says of a team stays true
(`FormStays`).

*Tournament.* Four arguments on one invariant. `StandingsInv`: a group that was played ends
with a ranking of a table it can end with, and a ranking has every line once, none above
an earlier one. `SecuredGoThrough` compares what a team has with what others can get: in
every table a team has no less than it had on the field and no more than that and three
points per open match, so at most one line is above, and the place is the first or second;
for the predicted group `TallyInv` carries that to the tallies (it has been through in every
simulation, and of any three teams the places together are two per simulation, so no two
others can be likelier). `TheFieldIsBest` needs that the seeds are rankings of the places
(`FieldInv`) and that no team has two places: one per group, by its position, and groups have
no team in common. `BestDoMeetLate` needs to know who can be left where: the i-th of `2^k`
teams is nobody better than the seed first drawn to its part (`BracketInv`), and of two
neighbours in `SeedOrder[k]` one is a seed of the worse half, for neighbours are complements
(`Doubled`; by `StepInduction` on k each order has every seed once). `RoundsDoHalve` counts:
in a simulation under way, the rounds down to the bracket's size have been counted once more
than the others (`ReachedInv`), a round adds one to as many teams as are left (`OnceMore`), and
a team that is left has been counted for every earlier round, which is why it may be
counted for the next.

**Only model-checked:**

- every liveness property (`FinishedIsIngested`, `OutcomeIsLearned`, `KeepsServing`,
  `OpenMatchIsForecast`, `CreatedIsStored`, `OnlyTheDatabaseFails`): fairness and `ENABLED` are
  out of the prover's reach. `RequestsEndWell` proves the safety of the last two;
- `BoundedStep` where a weight is beyond the limits: a weight may lie above `MaxWeight`, for the
  clamp comes before the normalisation, and the next tick's clamp takes it down at once; with
  a small enough rate that is more than the rate. The run shows the property on all
  reachable vectors for the ratio of rate and limits that is configured;
- `NewestTokenStored`, which `mpp_auth_redis` shows to be false.

## 5. Not modelled, and why

- Likelihood search of `calibrate`, the measures of `evaluate`, the Poisson grid and the
  odds of the simulations: floating point, no state.
- How a name matches a team (substrings, aliases, folding of accents): string work; what
  follows from its result is in `Signals`.
- Schemas, dashboard, metrics, configuration: formatting and constants.
- Tenancy, users, tokens: sequential checks on one row, which no other step relates to.
- Celery workers: the agents as tasks of a broker, off by default; they return what the
  threads return.
- The LLM's retries: those of its client library; every way they end is a text.
- The reading routes (the benchmark among them), and the audit of routes other than `POST /predict`.

## 6. Plan

The learning loop, the weights, the tokens, the cron pass, the snapshots, the cache, the
prediction, the feedback, the signals and the tournament are modelled, checked and proved
about. What a continuation would take up, in this order:

1. Compositions: `Prediction` with the learning loop (a prediction read by a pass before its
   commit); `MppCron` with `MppAuth` inside a request; `Snapshots` with the learning loop
   in one refresh pass.
2. `BoundedStep` beyond the limits: how far the normalisation can carry a weight over
   `MaxWeight`, and what ratio of rate and limits makes up for it.
