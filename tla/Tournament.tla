----------------------------- MODULE Tournament -----------------------------
(***************************************************************************)
(* The Monte-Carlo simulations of the World Cup: a group played to its     *)
(* standings (app/prediction/group.py), and the whole tournament with its  *)
(* seeded bracket (app/prediction/tournament.py), both on the fixtures of  *)
(* the feed, whose finished matches count as they ended.                   *)
(*                                                                         *)
(* What the random generator decides (the goals of a match, the order of   *)
(* teams that are level, a knockout match) is a choice here: each value    *)
(* has a positive probability.                                             *)
(***************************************************************************)
EXTENDS Integers, Sequences, FiniteSets, Functions, SequencesExt, Nothing

CONSTANTS
    NumGroups,      \* groups of a complete field
    BestThirds,     \* thirds that go through
    Depth,          \* rounds of the bracket
    Feeds,          \* what the matches of the feed may be
    Samples,        \* scores a match may be sampled to end with
    Sims            \* simulations

Groups == 1..NumGroups
Size == 2 * NumGroups + BestThirds

\* The sizes of a bracket.
TwoTo[k \in 0..Depth] == IF k = 0 THEN 1 ELSE 2 * TwoTo[k - 1]

\* group_data, all_group_data: knockout matches and undecided sides are no fixtures.
FixturesIn(f, g) == {i \in DOMAIN f : f[i].group = g /\ None \notin {f[i].home, f[i].away}}

TeamsIn(f, g) == UNION {{f[i].home, f[i].away} : i \in FixturesIn(f, g)}

\* A team is in one group.  A group has a third: without one, both simulations fail
\* (ranked[2], standings[2]).
ASSUME TournamentAssumption ==
    /\ NumGroups \in Nat \ {0} /\ BestThirds \in 0..NumGroups
    /\ Depth \in Nat /\ Size = TwoTo[Depth]
    /\ None \notin Groups
    /\ \A f \in Feeds :
           /\ IsFiniteSet(DOMAIN f)
           /\ \A i \in DOMAIN f :
                  /\ DOMAIN f[i] = {"group", "home", "away", "score"}
                  /\ f[i].group \in Groups \cup {None}
                  /\ f[i].score \in (Nat \X Nat) \cup {None}
           /\ \A g \in Groups : FixturesIn(f, g) # {} => Cardinality(TeamsIn(f, g)) > 2
           /\ \A g, h \in Groups : g # h => TeamsIn(f, g) \cap TeamsIn(f, h) = {}
    /\ Samples \subseteq Nat \X Nat /\ Sims \in Nat

VARIABLES
    feed,       \* the matches, those not finished without a score
    task,       \* the group that is predicted, None for the tournament
    sim,        \* simulations done
    standings,  \* of the groups played in this simulation, best team first
    seeded,     \* the qualified teams in the order of their seeds
    bracket,    \* the teams left, neighbours play each other
    reached,    \* per team, how often it was among the last 2^k
    tally       \* per team of the predicted group, its places and points

tournamentVars == <<feed, task, sim, standings, seeded, bracket, reached, tally>>

-----------------------------------------------------------------------------
(* The fixtures and the table of a group.                                  *)

Fixtures(g) == FixturesIn(feed, g)

TeamsOf(g) == TeamsIn(feed, g)

Field == UNION {TeamsOf(g) : g \in Groups}

\* Mutated form of Open: a finished match is played again.
OpenAll(g) == Fixtures(g)

Open(g) == {i \in Fixtures(g) : feed[i].score = None}

\* The score of match i in a simulation, t's goals first.
Score(i, sampled, t) ==
    LET s == IF i \in DOMAIN sampled THEN sampled[i] ELSE feed[i].score
    IN  IF feed[i].home = t THEN s ELSE <<s[2], s[1]>>

PointsFor(s) == IF s[1] > s[2] THEN 3 ELSE IF s[1] = s[2] THEN 1 ELSE 0

Own(t, S) == {i \in S : t \in {feed[i].home, feed[i].away}}

Points(t, S, sampled) == SumFunction([i \in Own(t, S) |-> PointsFor(Score(i, sampled, t))])
Goals(t, S, sampled) == SumFunction([i \in Own(t, S) |-> Score(i, sampled, t)[1]])
Against(t, S, sampled) == SumFunction([i \in Own(t, S) |-> Score(i, sampled, t)[2]])

\* A line of the table; S are the matches that count.
Line(t, S, sampled) ==
    [team |-> t,
     points |-> Points(t, S, sampled),
     diff |-> Goals(t, S, sampled) - Against(t, S, sampled),
     goals |-> Goals(t, S, sampled)]

Table(g, sampled) == {Line(t, Fixtures(g), sampled) : t \in TeamsOf(g)}

Above(l, m) ==
    \/ l.points > m.points
    \/ l.points = m.points /\ l.diff > m.diff
    \/ l.points = m.points /\ l.diff = m.diff /\ l.goals > m.goals

\* Mutated form of Rankings: the sort is not reversed.
RankingsWorstFirst(lines) ==
    {s \in SetToSeqs(lines) : \A i, j \in DOMAIN s : i < j => ~Above(s[i], s[j])}

\* The orders in which lines may be ranked: those that are level in any order.
Rankings(lines) ==
    {s \in SetToSeqs(lines) : \A i, j \in DOMAIN s : i < j => ~Above(s[j], s[i])}

-----------------------------------------------------------------------------
(* The bracket.                                                            *)

\* Mutated form of Doubled: the complements follow the seeds, not each its own.
DoubledAppended(seeds) ==
    seeds \o [i \in 1..Len(seeds) |-> 2 * Len(seeds) + 1 - seeds[i]]

\* Each seed is followed by its complement.
Doubled(seeds) ==
    [i \in 1..2 * Len(seeds) |-> IF i % 2 = 1 THEN seeds[(i + 1) \div 2]
                                 ELSE 2 * Len(seeds) + 1 - seeds[i \div 2]]

\* _bracket_seed_order of 2^k.
SeedOrder[k \in 0..Depth] == IF k = 0 THEN <<1>> ELSE Doubled(SeedOrder[k - 1])

Rounds == {TwoTo[k] : k \in 0..(Depth - 1)}

Place(k) == {standings[g][k] : g \in DOMAIN standings}

Names(lines) == [i \in DOMAIN lines |-> lines[i].team]

-----------------------------------------------------------------------------

Tasks == {None} \cup Groups

\* A group is predicted when it has fixtures, the tournament with all groups.
Available(t) ==
    IF t = None THEN \A g \in Groups : Fixtures(g) # {} ELSE Fixtures(t) # {}

TournamentInit ==
    /\ feed \in Feeds
    /\ task \in Tasks
    /\ Available(task)
    /\ sim = 0
    /\ standings = <<>>
    /\ seeded = <<>>
    /\ bracket = <<>>
    /\ reached = [t \in Field |-> [k \in Rounds |-> 0]]
    /\ tally = [t \in (IF task = None THEN {} ELSE TeamsOf(task)) |->
                   [first |-> 0, second |-> 0, third |-> 0, points |-> 0]]

ToPlay == IF task = None THEN Len(standings) + 1 ELSE task

\* _play_group, and the like loop of simulate_group.
PlayGroup ==
    /\ sim < Sims
    /\ Len(standings) < IF task = None THEN NumGroups ELSE 1
    /\ \E sampled \in [Open(ToPlay) -> Samples] :
           \E order \in Rankings(Table(ToPlay, sampled)) :
               standings' = Append(standings, order)
    /\ UNCHANGED <<feed, task, sim, seeded, bracket, reached, tally>>

\* What a simulation adds to the tally of the team on a place.
Counted(t, place) ==
    [tally[t] EXCEPT !.first = @ + IF place = 1 THEN 1 ELSE 0,
                     !.second = @ + IF place = 2 THEN 1 ELSE 0,
                     !.third = @ + IF place = 3 THEN 1 ELSE 0,
                     !.points = @ + standings[1][place].points]

TallyGroup ==
    /\ task # None
    /\ Len(standings) = 1
    /\ tally' = [t \in DOMAIN tally |->
                    Counted(t, CHOOSE i \in DOMAIN standings[1] : standings[1][i].team = t)]
    /\ standings' = <<>>
    /\ sim' = sim + 1
    /\ UNCHANGED <<feed, task, seeded, bracket, reached>>

\* Winners, runners-up and the best thirds, each by their rank, into the bracket.
SeedBracket ==
    /\ task = None
    /\ Len(standings) = NumGroups /\ bracket = <<>>
    /\ \E w \in Rankings(Place(1)), r \in Rankings(Place(2)), t \in Rankings(Place(3)) :
           seeded' = Names(w) \o Names(r) \o SubSeq(Names(t), 1, BestThirds)
    /\ bracket' = [i \in 1..Size |-> seeded'[SeedOrder[Depth][i]]]
    /\ UNCHANGED <<feed, task, sim, standings, reached, tally>>

\* Mutated form of Advanced: the sides that lose are counted.
AdvancedBeaten(t, next) == t \in Range(bracket) /\ t \notin Range(next)

Advanced(t, next) == t \in Range(next)

\* _knockout_winner for each pair: on goals, or in a shootout, either may win.
PlayRound ==
    /\ Len(bracket) > 1
    /\ \E side \in [1..(Len(bracket) \div 2) -> {0, 1}] :
           LET next == [i \in DOMAIN side |-> bracket[2 * i - side[i]]]
           IN  /\ bracket' = next
               /\ reached' = [t \in DOMAIN reached |->
                      IF Advanced(t, next) THEN [reached[t] EXCEPT ![Len(next)] = @ + 1]
                      ELSE reached[t]]
    /\ UNCHANGED <<feed, task, sim, standings, seeded, tally>>

NextSim ==
    /\ Len(bracket) = 1
    /\ sim' = sim + 1
    /\ standings' = <<>> /\ seeded' = <<>> /\ bracket' = <<>>
    /\ UNCHANGED <<feed, task, reached, tally>>

TournamentNext == PlayGroup \/ TallyGroup \/ SeedBracket \/ PlayRound \/ NextSim

TournamentSpec == TournamentInit /\ [][TournamentNext]_tournamentVars

\* The order of the predicted standings: by qualification, then by points.
Likelier(t, u) ==
    LET q(x) == tally[x].first + tally[x].second
    IN  \/ q(t) > q(u)
        \/ q(t) = q(u) /\ tally[t].points > tally[u].points

\* The two teams at the head of them.
Qualifiers == {t \in DOMAIN tally : Cardinality({u \in DOMAIN tally : Likelier(u, t)}) < 2}

-----------------------------------------------------------------------------
(* Properties.                                                             *)

GroupOf(k) == IF task = None THEN k ELSE task

\* The points a team has in a group, and those it can still get.
Unplayed(g) == {i \in Fixtures(g) : feed[i].score = None}
Has(g, t) == Points(t, Fixtures(g) \ Unplayed(g), <<>>)
CanGet(g, t) == Has(g, t) + 3 * Cardinality(Own(t, Unplayed(g)))

\* A team has made it when at most one other team of its group can still get as
\* many points as it has.
Secured(g, t) == Cardinality({u \in TeamsOf(g) \ {t} : CanGet(g, u) >= Has(g, t)}) <= 1

\* "Real results are locked in": whatever is sampled, a team that has made it on the
\* field is among the first two of every simulation, and in the end one of the two
\* qualifiers that are named (_play_group, simulate_group).
SecuredGoesThrough ==
    /\ \A k \in DOMAIN standings : \A t \in TeamsOf(GroupOf(k)) :
           Secured(GroupOf(k), t) => t \in {standings[k][1].team, standings[k][2].team}
    /\ task # None /\ sim = Sims =>
           \A t \in TeamsOf(task) : Secured(task, t) => t \in Qualifiers

\* The bracket's field is that of the standings: both first of each group and the
\* best thirds, each once, none left out that is above one of them.
FieldIsBest ==
    seeded # <<>> =>
        LET out == {l \in Place(3) : l.team \notin Range(seeded)}
        IN  /\ IsInjective(seeded)
            /\ {l.team : l \in Place(1) \cup Place(2)} \subseteq Range(seeded)
            /\ Range(seeded) \subseteq {l.team : l \in Place(1) \cup Place(2) \cup Place(3)}
            /\ \A l \in Place(3) \ out, m \in out : ~Above(m, l)

\* Seeding keeps the best apart: while n teams are left, no two of the n/2 best
\* seeds play each other, whatever the upsets so far (_bracket_seed_order).
BestMeetLate ==
    Len(bracket) > 1 =>
        LET best == Range(SubSeq(seeded, 1, Len(bracket) \div 2))
        IN  \A i \in 1..(Len(bracket) \div 2) : ~({bracket[2 * i - 1], bracket[2 * i]} \subseteq best)

\* The tallies make probabilities: after every simulation half as many teams have
\* been counted for each round as for the one before, one as the champion, and
\* nobody more often for a round than for an earlier one.
RoundsHalve ==
    task = None /\ bracket = <<>> =>
        /\ \A k \in Rounds :
               SumFunction([t \in DOMAIN reached |-> reached[t][k]]) = sim * k
        /\ \A t \in DOMAIN reached, k, m \in Rounds : k < m => reached[t][k] <= reached[t][m]
=============================================================================
