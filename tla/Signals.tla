------------------------------ MODULE Signals ------------------------------
(***************************************************************************)
(* Where the signals of a prediction come from: the two football           *)
(* connectors with their cached feeds (app/connectors), the five agents    *)
(* that ask them on their own (app/agents), the MCP sources behind the     *)
(* contextual agent (app/mcp), and the score line (app/prediction/score).  *)
(*                                                                         *)
(* A feed is known by the number of finished matches it reports, its       *)
(* version.  Strengths, rates, momenta and relative signals are in         *)
(* thousandths, as round(..., 3) leaves them.                              *)
(***************************************************************************)
EXTENDS Integers, Sequences, FiniteSets, FiniteSetsExt, SequencesExt

CONSTANTS
    Teams, Rank,       \* the teams and their rank in the FIFA seed
    Hosts,             \* HOST_NATIONS among them
    Names,             \* per way of writing a team, the teams it may mean
    Fixtures,          \* the matches, <<home, away>>, in the order they are played
    Scores,            \* how each of them may end
    Domains,           \* of {"worldcup", "sports", "other"}
    Requests,          \* what predictions are asked for: an entity, hints or none
    Casts,             \* the sets of agents that may take part
    Sources,           \* the MCP manager's sources
    Thresholds,        \* strength gaps from which a side scores one goal more
    HomeEdge,          \* what playing at home is worth in a knockout match
    RoundsUp,          \* pairs whose relative signal, half a thousandth over, is raised
    MaxPredictions,    \* bound on predictions
    MaxFaults,         \* bound on lapsed cache entries and changes of the API
    None

Analytical == {"historical", "market", "trend", "contextual", "risk"}

Feeds == {"table", "matches"}

Pass == "pass"      \* the ingesting pass, a reader like the agents

TeamMetrics == [team : Teams, win : Int, strength : Int, momentum : Int \cup {None}]

MatchupMetrics ==
    [home : TeamMetrics, away : TeamMetrics \cup {None}, win : Int, strength : Int,
     momentum : Int \cup {None}]

ASSUME SignalsAssumption ==
    /\ Teams # {} /\ Rank \in [Teams -> 1..48] /\ Hosts \subseteq Teams
    /\ \A t, u \in Teams : t # u => Rank[t] # Rank[u]
    /\ Names \in [DOMAIN Names -> SUBSET Teams]
    /\ \A t \in Teams : t \in DOMAIN Names /\ Names[t] = {t}
    /\ Fixtures \in Seq({pair \in Teams \X Teams : pair[1] # pair[2]})
    /\ Scores \in [DOMAIN Fixtures -> SUBSET (Nat \X Nat)]
    /\ Domains \subseteq {"worldcup", "sports", "other"}
    /\ Requests \subseteq [entity : [home : DOMAIN Names, away : DOMAIN Names \cup {None}],
                           hint : BOOLEAN]
    /\ \A cast \in Casts : cast \subseteq Analytical
    /\ Sources \in Seq([transport : {"builtin", "stdio"}, role : {"contextual", "other"}])
    /\ Thresholds \in [BOOLEAN -> SUBSET Int]
    /\ \A neutral \in BOOLEAN : IsFiniteSet(Thresholds[neutral])
    /\ HomeEdge \in Nat
    /\ RoundsUp \subseteq Int \X Int
    /\ MaxPredictions \in Nat /\ MaxFaults \in Nat
    /\ None \notin Teams \cup Int \cup TeamMetrics \cup MatchupMetrics

VARIABLES
    domain,       \* of the predictions of a behaviour
    agents,       \* those that take part in them
    results,      \* of the matches that are finished
    entries,      \* cached answers of the API: version, or None
    up,           \* whether the API answers
    request,      \* the prediction under way
    asking,       \* per reader that missed a feed in the cache, that feed and the reply
    predictions,  \* those persisted
    faults

vars == <<domain, agents, results, entries, up, request, asking, predictions, faults>>

Init ==
    /\ domain \in Domains
    /\ agents \in Casts
    /\ results = <<>>
    /\ entries = [f \in Feeds |-> None]
    /\ up \in BOOLEAN
    /\ request = None
    /\ asking = <<>>
    /\ predictions = <<>>
    /\ faults = 0

-----------------------------------------------------------------------------
(* Teams and their form, as a feed of version n has it.                    *)

Between(lo, x, hi) == IF x < lo THEN lo ELSE IF x > hi THEN hi ELSE x

\* strength_of.
Strength(t) == Between(100, 1000 - 20 * (Rank[t] - 1), 950)

Played(t, n) == {i \in 1..n : t \in {Fixtures[i][1], Fixtures[i][2]}}

Margin(t, i) ==
    IF Fixtures[i][1] = t THEN results[i][1] - results[i][2] ELSE results[i][2] - results[i][1]

\* round(x / y, 3); the floats are exact at a half, which goes to the even neighbour.
Thousandths(x, y) ==
    LET whole == (1000 * x) \div y
        rest == 2 * ((1000 * x) % y)
    IN  IF rest > y \/ (rest = y /\ whole % 2 = 1) THEN whole + 1 ELSE whole

\* Half points of a result: won, drawn, lost.
Points(t, i) == IF Margin(t, i) > 0 THEN 2 ELSE IF Margin(t, i) = 0 THEN 1 ELSE 0

Won(t, n) == {i \in Played(t, n) : Points(t, i) = 2}

\* The last five results.
Form(t, n) ==
    LET played == Played(t, n)
    IN  {i \in played : Cardinality({j \in played : j >= i}) <= 5}

\* momentum_from_form: the latest result weighs most, of 1..k, whose sum is k (k + 1) / 2.
Momentum(t, n) ==
    LET form == Form(t, n)
        k == Cardinality(form)
        weighted == [i \in form |-> Cardinality({j \in form : j <= i}) * Points(t, i)]
    IN  IF form = {} THEN None ELSE Thousandths(SumFunction(weighted), k * (k + 1))

WinRate(t, n) == Thousandths(Cardinality(Won(t, n)), Cardinality(Played(t, n)))

-----------------------------------------------------------------------------
(* Matchups.                                                               *)

\* 0.5 + (h - a) / 2 within [0, 1], rounded.  At half a thousandth the floats of the
\* two values decide which way.
Relative(h, a) ==
    LET twice == 1000 + h - a
        raised == twice % 2 = 1 /\ <<h, a>> \in RoundsUp
    IN  Between(0, twice \div 2 + (IF raised THEN 1 ELSE 0), 1000)

\* The first team of the ranking a name may mean.
Seeded(name) ==
    IF name = None \/ Names[name] = {} THEN None
    ELSE CHOOSE t \in Names[name] : \A u \in Names[name] : Rank[t] <= Rank[u]

\* _enrich_team: the seed, and the form once there is one.
SeedMetrics(t, n) ==
    IF n = None \/ Played(t, n) = {}
    THEN [team |-> t, win |-> Strength(t), strength |-> Strength(t), momentum |-> Strength(t)]
    ELSE [team |-> t, win |-> WinRate(t, n), strength |-> Strength(t),
          momentum |-> Momentum(t, n)]

\* Three points for a win.
TablePoints(t, n) ==
    SumFunction([i \in Played(t, n) |-> IF Points(t, i) = 2 THEN 3 ELSE Points(t, i)])

\* The standings; teams level on points keep an order of their own.
Above(t, u, n) ==
    LET ahead == TablePoints(t, n) - TablePoints(u, n)
    IN  ahead > 0 \/ (ahead = 0 /\ Rank[t] <= Rank[u])

\* The first row of the standings a name may mean.
InTable(name, n) ==
    IF name = None \/ Names[name] = {} THEN None
    ELSE CHOOSE t \in Names[name] : \A u \in Names[name] \ {t} : Above(t, u, n)

\* metrics_from: nothing is said of a team that has not played.
TableMetrics(name, view) ==
    LET t == InTable(name, view["table"])
    IN  IF t = None \/ Played(t, view["table"]) = {} THEN None
        ELSE [team |-> t, win |-> WinRate(t, view["table"]),
              strength |-> Thousandths(TablePoints(t, view["table"]),
                                       3 * Cardinality(Played(t, view["table"]))),
              momentum |-> Momentum(t, view["matches"])]

\* Mutated form of RelMomentum: one fallback for both connectors.
RelMomentumHome(home, away) ==
    IF home.momentum = None THEN None
    ELSE IF away.momentum \in {None, 0} THEN home.momentum
    ELSE Relative(home.momentum, away.momentum)

\* The World Cup connector tests momenta for truth, so that 0 is like None; the
\* league connector keeps the home side's absolute momentum.
RelMomentum(home, away) ==
    IF domain = "worldcup"
    THEN IF {home.momentum, away.momentum} \cap {None, 0} # {} THEN None
         ELSE Relative(home.momentum, away.momentum)
    ELSE IF home.momentum = None THEN None
         ELSE IF away.momentum = None THEN home.momentum
         ELSE Relative(home.momentum, away.momentum)

Matchup(home, away) ==
    IF home = None THEN None
    ELSE IF away = None
    THEN [home |-> home, away |-> None, win |-> home.win, strength |-> home.strength,
          momentum |-> home.momentum]
    ELSE [home |-> home, away |-> away, win |-> Relative(home.win, away.win),
          strength |-> Relative(home.strength, away.strength),
          momentum |-> RelMomentum(home, away)]

\* matchup_metrics of the connector for the domain.
MatchupOf(e, view) ==
    IF domain = "worldcup"
    THEN LET side(name) == IF Seeded(name) = None THEN None
                           ELSE SeedMetrics(Seeded(name), view["matches"])
         IN  Matchup(side(e.home), side(e.away))
    ELSE IF domain = "other" \/ None \in {view["table"], view["matches"]} THEN None
    ELSE Matchup(TableMetrics(e.home, view), TableMetrics(e.away, view))

-----------------------------------------------------------------------------
(* The score line.                                                         *)

\* The mode of the grid: a side scores one goal more from each threshold on.
Goals(gap, neutral) == Cardinality({t \in Thresholds[neutral] : gap >= t})

\* A side that plays at home and is weaker by the worth of that scores as much as its
\* opponent, and no more when it is weaker still.
HomeEdgeFits ==
    /\ Goals(0 - HomeEdge - 1, FALSE) <= Goals(HomeEdge, TRUE)
    /\ Goals(HomeEdge, TRUE) <= Goals(0 - HomeEdge, FALSE)

\* predict_scoreline of a knockout match, where a winner is forced.
Scoreline(h, a, neutral) ==
    LET goals == <<Goals(h - a, neutral), Goals(a - h, TRUE)>>
    IN  [goals |-> goals,
         winner |-> IF h - a + (IF neutral THEN 0 ELSE HomeEdge) >= 0 THEN "home" ELSE "away",
         decided |-> IF goals[1] = goals[2] THEN "shootout" ELSE "regulation"]

\* Mutated form of LineOf: every match has a home side.
LineOfHome(m) ==
    IF m = None \/ m.away = None THEN None
    ELSE [home |-> m.home.team, away |-> m.away.team,
          score |-> Scoreline(m.home.strength, m.away.strength, FALSE)]

\* _scoreline_for: World Cup matches are played on neutral ground.
LineOf(m) ==
    IF m = None \/ m.away = None THEN None
    ELSE [home |-> m.home.team, away |-> m.away.team,
          score |-> Scoreline(m.home.strength, m.away.strength, domain = "worldcup")]

-----------------------------------------------------------------------------
(* Agents.                                                                 *)

\* host_advantage: exactly one side hosts.  No club is called like a nation.
HostEdge(m) ==
    /\ domain = "worldcup"
    /\ m # None /\ m.away # None
    /\ (m.home.team \in Hosts) # (m.away.team \in Hosts)

\* fetch_context of a source; the demo source abstains on the World Cup.
Yields(source, reply) ==
    /\ source.role = "contextual"
    /\ IF source.transport = "builtin" THEN domain # "worldcup"
       ELSE reply \in {"telling", "neutral"}

\* MCPManager.fetch_context: the first source that yields.  A reply that has no
\* word of the lexicon is given a sentiment by its hash.
Snippet(reply) ==
    LET yields == {i \in DOMAIN Sources : Yields(Sources[i], reply)}
    IN  IF yields = {} THEN None
        ELSE IF Sources[Min(yields)].transport = "builtin" THEN "demo"
        ELSE IF reply = "telling" THEN "sentiment" ELSE "hash"

Connected == domain # "other"

\* Mutated form of Contextual: without a signal the entity is hashed.
ContextualHashes(m, hint, reply) ==
    IF HostEdge(m) THEN "host"
    ELSE IF Snippet(reply) # None THEN Snippet(reply)
    ELSE IF hint THEN "hint" ELSE "derived"

Contextual(m, hint, reply) ==
    IF HostEdge(m) THEN "host"
    ELSE IF Snippet(reply) # None THEN Snippet(reply)
    ELSE IF hint THEN "hint"
    ELSE IF Connected THEN "abstain" ELSE "derived"

\* A hint only shifts the hash.
Risk(m, hint) ==
    IF m # None /\ m.away # None THEN "data"
    ELSE IF ~hint /\ Connected THEN "abstain" ELSE "derived"

\* What agent a rests its score on: the feeds, a host, a sentiment, a hint of the
\* caller, nothing ("abstain"), or a hash of the entity ("derived").
Basis(a, m, hint, reply) ==
    CASE a \in {"historical", "market"} -> IF m # None THEN "data" ELSE "derived"
      [] a = "trend" -> IF m # None /\ m.momentum # None THEN "data" ELSE "derived"
      [] a = "contextual" -> Contextual(m, hint, reply)
      [] a = "risk" -> Risk(m, hint)

-----------------------------------------------------------------------------
(* The world.                                                              *)

Calm(still) == IF request = None THEN None ELSE [request EXCEPT !.calm = @ /\ still]

\* A reader has its reply and has not cached it yet, or waits for one though another
\* reader has cached its own.
Overtaken ==
    \E r \in DOMAIN asking : asking[r].reply # None \/ entries[asking[r].feed] # None

Finish(score) ==
    /\ Len(results) < Len(Fixtures) /\ score \in Scores[Len(results) + 1]
    /\ results' = Append(results, score)
    /\ request' = Calm(~Overtaken)
    /\ UNCHANGED <<domain, agents, entries, up, asking, predictions, faults>>

Disturb ==
    /\ faults < MaxFaults
    /\ faults' = faults + 1
    /\ request' = Calm(FALSE)
    /\ UNCHANGED <<domain, agents, results, asking, predictions>>

Toggle == Disturb /\ up' = ~up /\ UNCHANGED entries

\* An entry's time is up, or the cache has lost it.
Lapse(f) ==
    /\ entries[f] # None
    /\ Disturb
    /\ entries' = [entries EXCEPT ![f] = None]
    /\ UNCHANGED up

-----------------------------------------------------------------------------
(* A prediction.  The agents are threads, each asks for the feeds itself.  *)

Wanted ==
    CASE domain = "worldcup" -> {"matches"} [] domain = "sports" -> Feeds [] OTHER -> {}

\* Mutated form of Cached: the cache is not looked up.
CachedNever(f) == None

\* _get: what the cache has.
Cached(f) == entries[f]

\* Of what a reader has not seen nor finds in the cache, what it asks for first.
FirstOf(feeds) == IF "table" \in feeds THEN "table" ELSE "matches"

Missing(seen) == {f \in Wanted \ DOMAIN seen : Cached(f) = None}

\* A reader that has seen some feeds has all of them, or the API failed it.
Filled(seen) ==
    [f \in Feeds |-> IF f \in DOMAIN seen THEN seen[f]
                     ELSE IF f \in Wanted THEN Cached(f) ELSE None]

\* What a reader that is alone would see.
View ==
    LET seen == [f \in Wanted |-> IF entries[f] # None THEN entries[f]
                                  ELSE IF up THEN Len(results) ELSE None]
    IN  Filled(seen)

\* POST /predict.
Request(r) ==
    /\ request = None
    /\ Len(predictions) < MaxPredictions
    /\ request' = [entity |-> r.entity, hint |-> r.hint, calm |-> ~Overtaken,
                   seen |-> [a \in agents |-> <<>>], based |-> <<>>]
    /\ UNCHANGED <<domain, agents, results, entries, up, asking, predictions, faults>>

Runs(a) == request # None /\ a \notin DOMAIN request.based /\ a \notin DOMAIN asking

Asks(r, f) ==
    asking' = [q \in DOMAIN asking \cup {r} |->
                  IF q = r THEN [feed |-> f, reply |-> None] ELSE asking[q]]

Asked(r) == asking' = [q \in DOMAIN asking \ {r} |-> asking[q]]

\* The first feed that is not cached; those before it are.
Ask(a) ==
    /\ Runs(a)
    /\ LET seen == request.seen[a]
           f == FirstOf(Missing(seen))
           found == IF f = "matches" THEN Wanted \ {f} ELSE {}
       IN  /\ Missing(seen) # {}
           /\ Asks(a, f)
           /\ request' = [request EXCEPT !.seen[a] =
                  [g \in DOMAIN seen \cup found |-> Filled(seen)[g]]]
    /\ UNCHANGED <<domain, agents, results, entries, up, predictions, faults>>

\* The API replies with the matches that are finished by then.
Reply(r) ==
    /\ r \in DOMAIN asking /\ asking[r].reply = None /\ up
    /\ asking' = [asking EXCEPT ![r].reply = Len(results)]
    /\ UNCHANGED <<domain, agents, results, entries, up, request, predictions, faults>>

\* The rest of _get: a reply is cached, whatever the cache has by now.
Stored(r) ==
    /\ r \in DOMAIN asking /\ asking[r].reply # None
    /\ entries' = [entries EXCEPT ![asking[r].feed] = asking[r].reply]
    /\ Asked(r)

Store(a) ==
    /\ request # None
    /\ Stored(a)
    /\ request' = [request EXCEPT !.seen[a] =
           [f \in DOMAIN @ \cup {asking[a].feed} |->
               IF f = asking[a].feed THEN asking[a].reply ELSE @[f]]]
    /\ UNCHANGED <<domain, agents, results, up, predictions, faults>>

\* The API does not reply.
Unanswered(r) ==
    /\ r \in DOMAIN asking /\ asking[r].reply = None /\ ~up
    /\ Asked(r)

\* Then the agent has no data.
Fail(a) ==
    /\ request # None
    /\ Unanswered(a)
    /\ request' = [request EXCEPT !.seen[a] = [f \in Wanted |-> None]]
    /\ UNCHANGED <<domain, agents, results, entries, up, predictions, faults>>

\* BaseAgent.analyze, once the agent has its feeds.
Analyse(a, reply) ==
    /\ Runs(a)
    /\ Missing(request.seen[a]) = {}
    /\ reply = "none" \/ a = "contextual"
    /\ LET view == Filled(request.seen[a])
           analysed == [view |-> view,
                        basis |-> Basis(a, MatchupOf(request.entity, view), request.hint, reply)]
       IN  request' = [request EXCEPT !.seen[a] = <<>>,
               !.based = [b \in DOMAIN @ \cup {a} |-> IF b = a THEN analysed ELSE @[b]]]
    /\ UNCHANGED <<domain, agents, results, entries, up, asking, predictions, faults>>

\* The score line asks once more, then the prediction is stored.
Persist ==
    /\ request # None
    /\ DOMAIN request.based = agents
    /\ predictions' = Append(predictions,
           [entity |-> request.entity, line |-> LineOf(MatchupOf(request.entity, View)),
            outcome |-> None])
    /\ request' = None
    /\ entries' = [f \in Feeds |-> IF f \in Wanted THEN View[f] ELSE entries[f]]
    /\ UNCHANGED <<domain, agents, results, up, asking, faults>>

\* Mutated form of FinishedResults: matches are known by their two teams.
FinishedResultsUnordered(pair, n) ==
    {i \in 1..n : {Fixtures[i][1], Fixtures[i][2]} = {pair[1], pair[2]}}

\* The finished matches of a pairing; the last one is what the key yields.
FinishedResults(pair, n) == {i \in 1..n : Fixtures[i] = pair}

\* ingest_worldcup_outcomes with a feed; a pairing is looked up as it was written.
Ingested(n) ==
    LET Of(p) == IF p.outcome # None THEN {}
                 ELSE FinishedResults(<<p.entity.home, p.entity.away>>, n)
    IN  [k \in DOMAIN predictions |->
            IF Of(predictions[k]) = {} THEN predictions[k]
            ELSE [predictions[k] EXCEPT !.outcome = Max(Of(predictions[k]))]]

\* The pass finds the feed in the cache, or asks for it.
Ingest ==
    /\ domain = "worldcup"
    /\ Pass \notin DOMAIN asking
    /\ IF Cached("matches") # None
       THEN predictions' = Ingested(Cached("matches")) /\ UNCHANGED asking
       ELSE Asks(Pass, "matches") /\ UNCHANGED predictions
    /\ UNCHANGED <<domain, agents, results, entries, up, request, faults>>

IngestReply ==
    /\ Stored(Pass)
    /\ predictions' = Ingested(asking[Pass].reply)
    /\ UNCHANGED <<domain, agents, results, up, request, faults>>

IngestNothing ==
    /\ Unanswered(Pass)
    /\ UNCHANGED <<domain, agents, results, entries, up, request, predictions, faults>>

Next ==
    \/ \E score \in UNION {Scores[i] : i \in DOMAIN Scores} : Finish(score)
    \/ Toggle
    \/ \E f \in Feeds : Lapse(f)
    \/ \E r \in Requests : Request(r)
    \/ \E a \in agents :
           \/ Ask(a) \/ Store(a) \/ Fail(a)
           \/ \E reply \in {"none", "telling", "neutral"} : Analyse(a, reply)
    \/ Persist
    \/ Ingest \/ IngestReply \/ IngestNothing
    \/ \E r \in agents \cup {Pass} : Reply(r)

Spec == Init /\ [][Next]_vars

-----------------------------------------------------------------------------
(* Properties.                                                             *)

\* "All agents share a single fetch" (openligadb.py): the agents of one prediction
\* see the same feeds, whatever finishes meanwhile, unless an entry lapses, the API
\* comes or goes, or a match finishes, or the prediction begins, while a reader has a
\* reply it has not cached, or waits for one though another has cached its own
\* (_get, football_matchup).
OneView ==
    request # None /\ request.calm =>
        \A a, b \in DOMAIN request.based : request.based[a].view = request.based[b].view

\* When the two teams of a World Cup match are known, no agent answers with noise, be
\* it the demo source, a hash of the entity or a sentiment hashed from a text, but in
\* two cases.  Trend hashes the entity when a side's momentum is 0, its last five games
\* all lost.  Contextual takes a hashed sentiment from a real server whose reply has no
\* word of the lexicon, unless exactly one side is a host: against its own "the live
\* flagship is never fed synthetic sentiment" (contextual.py, sources.py).
NoMomentum(name, n) == n # None /\ Momentum(Seeded(name), n) = 0

RealServer == \E i \in DOMAIN Sources : Sources[i] = [transport |-> "stdio", role |-> "contextual"]

NoNoise ==
    request # None /\ domain = "worldcup" =>
        LET home == request.entity.home
            away == request.entity.away
        IN  None \notin {Seeded(home), Seeded(away)} =>
                \A a \in DOMAIN request.based :
                    LET n == request.based[a].view["matches"]
                        basis == request.based[a].basis
                    IN  basis \in {"demo", "derived", "hash"} =>
                            \/ /\ a = "trend" /\ basis = "derived"
                               /\ NoMomentum(home, n) \/ NoMomentum(away, n)
                            \/ /\ a = "contextual" /\ basis = "hash" /\ RealServer
                               /\ (Seeded(home) \in Hosts) = (Seeded(away) \in Hosts)

\* The pair named the other way round has the opposite signals, to the thousandth that
\* rounding each of them may make, unless the league has the form of one side only
\* (matchup_from, enrich_matchup_with_form).
Opposite(x, y) == IF None \in {x, y} THEN x = y ELSE x + y \in 999..1001

MirrorImage ==
    \A t, u \in Teams :
        LET m == MatchupOf([home |-> t, away |-> u], View)
            w == MatchupOf([home |-> u, away |-> t], View)
        IN  /\ Rank[t] < Rank[u] /\ None \notin {m, w} /\ m.away # None /\ w.away # None
            => /\ Opposite(m.win, w.win) /\ Opposite(m.strength, w.strength)
               /\ \/ Opposite(m.momentum, w.momentum)
                  \/ domain = "sports" /\ (m.home.momentum = None) # (m.away.momentum = None)

\* "The favourite advances regardless of the order the teams are named"
\* (service.py), and a score that is not level is the winner's: only for sides of
\* equal strength the order decides (_scoreline_for, predict_scoreline).
FavouriteAdvances ==
    \A k \in {l \in DOMAIN predictions : predictions[l].line # None} :
        LET l == predictions[k].line
            goals == l.score.goals
        IN  /\ goals[1] # goals[2] => (goals[1] > goals[2]) = (l.score.winner = "home")
            /\ domain = "worldcup" /\ Strength(l.home) # Strength(l.away) =>
                   (Strength(l.home) > Strength(l.away)) = (l.score.winner = "home")

\* The result a prediction is judged by is that of a match its own score line is
\* about, the sides in the same order, although the line takes a part of a name or an
\* alias for the team (resolve_team) and the ingestion takes the pair as it was
\* written, and although the same sides may meet the other way round, or again
\* (finished_results, ingest_worldcup_outcomes).
OutcomeOfTheLine ==
    \A k \in DOMAIN predictions :
        LET p == predictions[k]
        IN  p.outcome # None =>
                Fixtures[p.outcome] = <<p.line.home, p.line.away>>
=============================================================================
