---------------------------- MODULE MCTournament ----------------------------
(* A small instance of Tournament.                                         *)
EXTENDS Tournament, TLC

Match(g, h, a, s) == [group |-> g, home |-> h, away |-> a, score |-> s]

\* Three groups of three.  Group 1 has a match to play and a team that is through,
\* the others have all their results.  Then a knockout match, and one whose sides
\* are not known.
DuringGroups ==
    <<Match(1, "a", "b", <<1, 0>>), Match(1, "a", "c", <<1, 0>>), Match(1, "b", "c", None),
      Match(2, "d", "e", <<2, 1>>), Match(2, "e", "f", <<1, 1>>), Match(2, "f", "d", <<0, 3>>),
      Match(3, "g", "h", <<0, 2>>), Match(3, "g", "i", <<0, 1>>), Match(3, "h", "i", <<1, 0>>),
      Match(None, "a", "c", <<0, 3>>), Match(None, None, None, None)>>

\* One group is known but for its last team, two of its matches are to come.
OneGroup ==
    <<Match(2, "d", "e", <<1, 1>>), Match(2, "e", "f", None), Match(2, "f", "d", None),
      Match(2, "d", None, None)>>

SomeFeeds == {DuringGroups, OneGroup}
TwoScores == {<<1, 0>>, <<1, 1>>}
=============================================================================
