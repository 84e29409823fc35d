--------------------------- MODULE SignalsProofs ---------------------------
(***************************************************************************)
(* Proofs about Signals, for any teams, matches, casts, requests, faults   *)
(* and interleavings: the agents of a prediction see the same feeds, none  *)
(* makes noise but in two cases, signals are mirrored, favourites advance, *)
(* and outcomes are those of the match the score line is about.            *)
(***************************************************************************)
EXTENDS Signals, SumTheorems, SequenceTheorems

RequestFields == {"entity", "hint", "calm", "seen", "based"}

Types ==
    /\ agents \subseteq Analytical
    /\ entries \in [Feeds -> Nat \cup {None}]
    /\ up \in BOOLEAN
    /\ results \in Seq(Nat \X Nat)
    /\ \A r \in DOMAIN asking : asking[r] \in [feed : Wanted, reply : Nat \cup {None}]
    /\ request # None =>
           /\ DOMAIN request = RequestFields
           /\ DOMAIN request.seen = agents
           /\ DOMAIN request.based \subseteq agents
           /\ request.calm \in BOOLEAN

-----------------------------------------------------------------------------
(* What an agent has seen of the feeds it wants, w, in a cache e of an API *)
(* that answers or not, u.                                                 *)

Complete(w, e) == \A f \in w : e[f] # None

Full(w, e) == [f \in Feeds |-> IF f \in w THEN e[f] ELSE None]

\* It has seen what is cached, or the API failed it with something not cached.
SeenOk(w, e, u, s) ==
    \/ \A f \in DOMAIN s : f \in w /\ s[f] = e[f] /\ e[f] # None
    \/ u = FALSE /\ ~Complete(w, e) /\ s = [f \in w |-> None]

\* It has judged by what is cached, or by nothing if something is not.
ViewOk(w, e, u, v) ==
    IF Complete(w, e) THEN v = Full(w, e) ELSE u = FALSE /\ v = [f \in Feeds |-> None]

\* Whoever is still asking has n as its reply, or will get it, where n is cached.
AskOk(e, u, n, k) ==
    \A r \in DOMAIN k :
        /\ k[r].reply # None => u = TRUE /\ k[r].reply = n
        /\ e[k[r].feed] # None => u = TRUE /\ e[k[r].feed] = n

CalmInv ==
    request # None /\ request.calm =>
        /\ \A a \in agents : SeenOk(Wanted, entries, up, request.seen[a])
        /\ \A b \in DOMAIN request.based :
               ViewOk(Wanted, entries, up, request.based[b].view)
        /\ AskOk(entries, up, Len(results), asking)

Inv == Types /\ CalmInv

LEMMA WantedFeeds == Wanted \subseteq Feeds
BY DEF Wanted, Feeds

\* A reply of the present version, cached, disturbs nobody.
LEMMA ReplyDisturbsNobody ==
    ASSUME NEW w \in SUBSET Feeds, NEW e \in [Feeds -> Nat \cup {None}], NEW n \in Nat,
           NEW f \in w, e[f] \in {None, n}, NEW g, g = [e EXCEPT ![f] = n]
    PROVE  /\ \A s : SeenOk(w, e, TRUE, s) => SeenOk(w, g, TRUE, s)
           /\ \A v : ViewOk(w, e, TRUE, v) => ViewOk(w, g, TRUE, v)
           /\ \A k : AskOk(e, TRUE, n, k) /\ (\A r \in DOMAIN k : k[r].feed \in w)
                        => AskOk(g, TRUE, n, k)
<1>1. n # None
  BY SignalsAssumption
<1>2. \A h \in Feeds : g[h] = IF h = f THEN n ELSE e[h]
  OBVIOUS
<1>3. \A h \in Feeds : e[h] # None => g[h] = e[h]
  BY <1>2
<1>4. \A s : SeenOk(w, e, TRUE, s) => SeenOk(w, g, TRUE, s)
  BY <1>1, <1>3 DEF SeenOk
<1>5. \A v : ViewOk(w, e, TRUE, v) => ViewOk(w, g, TRUE, v)
  <2>1. SUFFICES ASSUME NEW v, ViewOk(w, e, TRUE, v)
                 PROVE  ViewOk(w, g, TRUE, v)
    OBVIOUS
  <2>2. Complete(w, e) /\ v = Full(w, e)
    BY <2>1 DEF ViewOk
  <2>3. Complete(w, g) /\ Full(w, g) = Full(w, e)
    BY <1>3, <2>2 DEF Complete, Full
  <2>4. QED
    BY <2>2, <2>3 DEF ViewOk
<1>6. ASSUME NEW k, AskOk(e, TRUE, n, k), \A r \in DOMAIN k : k[r].feed \in w
      PROVE  AskOk(g, TRUE, n, k)
  BY <1>2, <1>6 DEF AskOk
<1>7. QED
  BY <1>4, <1>5, <1>6

-----------------------------------------------------------------------------
(* The steps.                                                              *)

LEMMA InitInv == Init => Inv
<1> SUFFICES ASSUME Init PROVE Inv
  OBVIOUS
<1>1. Types
  BY SignalsAssumption DEF Init, Types
<1>2. CalmInv
  BY DEF Init, CalmInv
<1>3. QED
  BY <1>1, <1>2 DEF Inv

\* Unless a reader was overtaken, no reply is on its way and nothing cached is asked for.
LEMMA NotOvertaken ==
    ASSUME ~Overtaken
    PROVE  \A u, n : AskOk(entries, u, n, asking)
BY DEF Overtaken, AskOk

LEMMA RequestInv ==
    ASSUME Inv, NEW r \in Requests, Request(r)
    PROVE  Inv'
<1> DEFINE row == [entity |-> r.entity, hint |-> r.hint, calm |-> ~Overtaken,
                   seen |-> [a \in agents |-> <<>>], based |-> <<>>]
<1>1. /\ request = None
      /\ request' = row
      /\ UNCHANGED <<domain, agents, results, entries, up, asking, predictions, faults>>
  BY DEF Request
<1>2. /\ DOMAIN row = RequestFields
      /\ row.seen = [a \in agents |-> <<>>]
      /\ row.based = <<>>
      /\ row.calm = ~Overtaken
  BY DEF RequestFields
<1> HIDE DEF row
<1>3. DOMAIN <<>> = {}
  OBVIOUS
<1>4. Types'
  <2>1. row.calm \in BOOLEAN
    BY <1>2
  <2>2. QED
    BY <1>1, <1>2, <1>3, <2>1 DEF Inv, Types, Wanted
<1>5. CalmInv'
  <2>1. SUFFICES ASSUME row.calm
                 PROVE  /\ \A a \in agents : SeenOk(Wanted, entries, up, row.seen[a])
                        /\ \A b \in DOMAIN row.based :
                               ViewOk(Wanted, entries, up, row.based[b].view)
                        /\ AskOk(entries, up, Len(results), asking)
    BY <1>1 DEF CalmInv, Wanted
  <2>2. AskOk(entries, up, Len(results), asking)
    BY <1>2, <2>1, NotOvertaken
  <2>3. \A a \in agents : SeenOk(Wanted, entries, up, row.seen[a])
    BY <1>2, <1>3 DEF SeenOk
  <2>4. QED
    BY <1>2, <1>3, <2>2, <2>3
<1>6. QED
  BY <1>4, <1>5 DEF Inv
\* What a step does to the request when all it may change of it is whether it is calm.
LEMMA CalmStep ==
    ASSUME Inv, NEW still \in BOOLEAN, request' = Calm(still),
           UNCHANGED <<domain, agents>>, asking' = asking,
           entries' \in [Feeds -> Nat \cup {None}], up' \in BOOLEAN, results' \in Seq(Nat \X Nat),
           still => entries' = entries /\ up' = up /\ ~Overtaken
    PROVE  Inv'
<1> USE DEF Inv
<1>1. CASE request = None
  <2>1. request' = None
    BY <1>1 DEF Calm
  <2>2. Types'
    BY <2>1 DEF Types, Wanted
  <2>3. CalmInv'
    BY <2>1 DEF CalmInv
  <2>4. QED
    BY <2>2, <2>3
<1>2. CASE request # None
  <2>1. request' = [request EXCEPT !.calm = @ /\ still]
    BY <1>2 DEF Calm
  <2>2. /\ DOMAIN request' = RequestFields
        /\ request'.seen = request.seen
        /\ request'.based = request.based
        /\ request'.calm = (request.calm /\ still)
    BY <1>2, <2>1 DEF Types, RequestFields
  <2>3. Types'
    <3>1. request'.calm \in BOOLEAN
      BY <2>2
    <3>2. QED
      BY <1>2, <2>2, <3>1 DEF Types, Wanted
  <2>4. CalmInv'
    BY <1>2, <2>2, NotOvertaken DEF CalmInv, Wanted
  <2>5. QED
    BY <2>3, <2>4
<1>3. QED
  BY <1>1, <1>2

LEMMA ScoreType ==
    ASSUME NEW n \in Nat, n < Len(Fixtures)
    PROVE  Scores[n + 1] \subseteq Nat \X Nat
<1>1. Fixtures \in Seq({pair \in Teams \X Teams : pair[1] # pair[2]})
  BY SignalsAssumption, Zenon
<1>2. DOMAIN Fixtures = 1..Len(Fixtures) /\ Len(Fixtures) \in Nat
  BY <1>1
<1>3. n + 1 \in DOMAIN Fixtures
  BY <1>2
<1>4. Scores \in [DOMAIN Fixtures -> SUBSET (Nat \X Nat)]
  BY SignalsAssumption, Zenon
<1>5. QED
  BY <1>3, <1>4

\* Matches that finish, faults.
LEMMA WorldInv ==
    ASSUME Inv, \/ \E score : Finish(score)
                \/ Toggle
                \/ \E f \in Feeds : Lapse(f)
    PROVE  Inv'
<1>1. ASSUME NEW score, Finish(score)
      PROVE  Inv'
  <2>1. /\ request' = Calm(~Overtaken)
        /\ UNCHANGED <<domain, agents, entries, up>>
        /\ asking' = asking
    BY <1>1 DEF Finish
  <2>2. results' \in Seq(Nat \X Nat)
    <3>1. /\ results \in Seq(Nat \X Nat) /\ Len(results) \in Nat
          /\ Len(results) < Len(Fixtures) /\ score \in Scores[Len(results) + 1]
      BY <1>1 DEF Finish, Inv, Types
    <3>2. score \in Nat \X Nat
      BY <3>1, ScoreType
    <3>3. QED
      BY <1>1, <3>1, <3>2 DEF Finish
  <2>3. /\ entries' \in [Feeds -> Nat \cup {None}]
        /\ up' \in BOOLEAN
        /\ (~Overtaken) \in BOOLEAN
    BY <2>1 DEF Inv, Types
  <2>4. QED
    BY <2>1, <2>2, <2>3, CalmStep
<1>2. CASE Toggle
  <2>1. /\ request' = Calm(FALSE)
        /\ UNCHANGED <<domain, agents>>
        /\ asking' = asking
        /\ results' \in Seq(Nat \X Nat)
        /\ entries' \in [Feeds -> Nat \cup {None}]
    BY <1>2 DEF Toggle, Disturb, Inv, Types
  <2>2. up' \in BOOLEAN
    BY <1>2 DEF Toggle
  <2>3. QED
    BY <2>1, <2>2, CalmStep
<1>3. ASSUME NEW f \in Feeds, Lapse(f)
      PROVE  Inv'
  <2>1. /\ request' = Calm(FALSE)
        /\ UNCHANGED <<domain, agents>>
        /\ asking' = asking
        /\ results' \in Seq(Nat \X Nat)
        /\ entries' \in [Feeds -> Nat \cup {None}]
    BY <1>3 DEF Lapse, Disturb, Inv, Types
  <2>2. up' \in BOOLEAN
    BY <1>3 DEF Lapse, Inv, Types
  <2>3. QED
    BY <2>1, <2>2, CalmStep
<1>4. QED
  BY <1>1, <1>2, <1>3
LEMMA SetSeen ==
    ASSUME Types, request # None, NEW a, NEW s,
           request' = [request EXCEPT !.seen[a] = s]
    PROVE  /\ DOMAIN request' = RequestFields
           /\ request'.calm = request.calm
           /\ request'.based = request.based
           /\ request'.seen = [request.seen EXCEPT ![a] = s]
BY DEF Types, RequestFields

\* Who asks for what is not cached has no reply yet.
LEMMA AsksKeeps ==
    ASSUME Types, NEW a, NEW f \in Wanted, Asks(a, f), entries[f] = None
    PROVE  /\ \A r \in DOMAIN asking' : asking'[r] \in [feed : Wanted, reply : Nat \cup {None}]
           /\ \A u, n : AskOk(entries, u, n, asking) => AskOk(entries, u, n, asking')
<1>1. \A r \in DOMAIN asking' :
          \/ asking'[r] = [feed |-> f, reply |-> None]
          \/ r \in DOMAIN asking /\ asking'[r] = asking[r]
  BY DEF Asks
<1>2. QED
  BY <1>1 DEF Types, AskOk

LEMMA AskInv ==
    ASSUME Inv, NEW a \in agents, Ask(a)
    PROVE  Inv'
<1> DEFINE seen == request.seen[a]
           f == FirstOf(Missing(seen))
           found == IF f = "matches" THEN Wanted \ {f} ELSE {}
           filled == [g \in DOMAIN seen \cup found |-> Filled(seen)[g]]
<1>1. /\ request # None /\ a \notin DOMAIN asking
      /\ Missing(seen) # {}
      /\ Asks(a, f)
      /\ request' = [request EXCEPT !.seen[a] = filled]
      /\ UNCHANGED <<domain, agents, results, entries, up>>
  BY DEF Ask, Runs
<1>2. f \in Missing(seen) /\ (f = "matches" => "table" \notin Missing(seen))
  BY <1>1, WantedFeeds DEF FirstOf, Missing, Feeds
<1>3. f \in Wanted /\ entries[f] = None
  BY <1>2 DEF Missing, Cached
<1>4. SeenOk(Wanted, entries, up, seen) => SeenOk(Wanted, entries, up, filled)
  <2>1. SUFFICES ASSUME SeenOk(Wanted, entries, up, seen)
                 PROVE  \A g \in DOMAIN filled :
                            g \in Wanted /\ filled[g] = entries[g] /\ entries[g] # None
    BY DEF SeenOk
  <2>2. \A g \in DOMAIN seen : g \in Wanted /\ seen[g] = entries[g] /\ entries[g] # None
    BY <1>2, <2>1 DEF SeenOk, Missing
  <2>3. ASSUME NEW g \in found, g \notin DOMAIN seen
        PROVE  g \in Wanted /\ entries[g] # None
    <3>1. f = "matches" /\ g \in Wanted /\ g # f
      BY <2>3
    <3>2. g = "table"
      BY <3>1, WantedFeeds DEF Feeds
    <3>3. QED
      BY <1>2, <2>3, <3>1, <3>2 DEF Missing, Cached
  <2>4. ASSUME NEW g \in DOMAIN seen \cup found
        PROVE  g \in Wanted /\ Filled(seen)[g] = entries[g] /\ entries[g] # None
    BY <2>2, <2>3, WantedFeeds DEF Filled, Cached
  <2>5. QED
    BY <2>4
<1> HIDE DEF filled, f
<1>5. /\ DOMAIN request' = RequestFields
      /\ request'.calm = request.calm
      /\ request'.based = request.based
      /\ request'.seen = [request.seen EXCEPT ![a] = filled]
  BY <1>1, SetSeen DEF Inv
<1>6. Types'
  BY <1>1, <1>3, <1>5, AsksKeeps DEF Inv, Types, Wanted
<1>7. CalmInv'
  <2>1. SUFFICES ASSUME request.calm
                 PROVE  /\ \A b \in agents : SeenOk(Wanted, entries, up, request'.seen[b])
                        /\ \A b \in DOMAIN request.based :
                               ViewOk(Wanted, entries, up, request.based[b].view)
                        /\ AskOk(entries, up, Len(results), asking')
    BY <1>1, <1>5 DEF CalmInv, Wanted
  <2>2. /\ \A b \in agents : SeenOk(Wanted, entries, up, request.seen[b])
        /\ \A b \in DOMAIN request.based :
               ViewOk(Wanted, entries, up, request.based[b].view)
        /\ AskOk(entries, up, Len(results), asking)
    BY <1>1, <2>1 DEF Inv, CalmInv
  <2>3. \A b \in agents : SeenOk(Wanted, entries, up, request'.seen[b])
    BY <1>1, <1>4, <1>5, <2>2 DEF Inv, Types
  <2>4. AskOk(entries, up, Len(results), asking')
    BY <1>1, <1>3, <2>2, AsksKeeps DEF Inv
  <2>5. QED
    BY <2>2, <2>3, <2>4
<1>8. QED
  BY <1>6, <1>7 DEF Inv

\* The API replies with the present version.
LEMMA ReplyInv ==
    ASSUME Inv, NEW r, Reply(r)
    PROVE  Inv'
<1>1. /\ r \in DOMAIN asking /\ up
      /\ asking' = [asking EXCEPT ![r].reply = Len(results)]
      /\ UNCHANGED <<domain, agents, results, entries, up, request>>
  BY DEF Reply
<1>2. Len(results) \in Nat /\ up = TRUE
  BY <1>1 DEF Inv, Types
<1>3. /\ DOMAIN asking' = DOMAIN asking
      /\ \A q \in DOMAIN asking : q # r => asking'[q] = asking[q]
      /\ asking'[r] = [asking[r] EXCEPT !.reply = Len(results)]
  BY <1>1
<1>4. asking[r] \in [feed : Wanted, reply : Nat \cup {None}]
  BY <1>1 DEF Inv, Types
<1>5. /\ asking'[r] \in [feed : Wanted, reply : Nat \cup {None}]
      /\ asking'[r].feed = asking[r].feed /\ asking'[r].reply = Len(results)
  BY <1>2, <1>3, <1>4
<1>6. Types'
  <2>1. \A q \in DOMAIN asking' : asking'[q] \in [feed : Wanted, reply : Nat \cup {None}]
    BY <1>3, <1>5 DEF Inv, Types
  <2>2. QED
    BY <1>1, <2>1 DEF Inv, Types, Wanted
<1>7. ASSUME AskOk(entries, up, Len(results), asking)
      PROVE  AskOk(entries, up, Len(results), asking')
  BY <1>2, <1>3, <1>5, <1>7 DEF AskOk
<1>8. CalmInv'
  BY <1>1, <1>7 DEF Inv, CalmInv, Wanted
<1>9. QED
  BY <1>6, <1>8 DEF Inv

\* Those who go on waiting when one has its reply, or none.
LEMMA AskedKeeps ==
    ASSUME Types, NEW r, Asked(r)
    PROVE  /\ \A q \in DOMAIN asking' : asking'[q] \in [feed : Wanted, reply : Nat \cup {None}]
           /\ \A e, u, n : AskOk(e, u, n, asking) => AskOk(e, u, n, asking')
<1>1. \A q \in DOMAIN asking' : q \in DOMAIN asking /\ asking'[q] = asking[q]
  BY DEF Asked
<1>2. QED
  BY <1>1 DEF Types, AskOk

\* What caching a reply does to those who wait and to those who have theirs.
LEMMA StoredKeeps ==
    ASSUME Types, NEW r \in DOMAIN asking, Stored(r), UNCHANGED <<domain, results, up>>,
           AskOk(entries, up, Len(results), asking)
    PROVE  /\ \A s : SeenOk(Wanted, entries, up, s) => SeenOk(Wanted, entries', up, s)
           /\ \A v : ViewOk(Wanted, entries, up, v) => ViewOk(Wanted, entries', up, v)
           /\ AskOk(entries', up, Len(results), asking')
<1> DEFINE n == Len(results)
           f == asking[r].feed
<1>1. n \in Nat /\ f \in Wanted /\ Wanted \in SUBSET Feeds
  BY WantedFeeds DEF Types
<1>2. up = TRUE /\ asking[r].reply = n
  BY DEF Stored, AskOk
<1>3. entries' = [entries EXCEPT ![f] = n]
  BY <1>2 DEF Stored
<1>4. entries[f] \in {None, n}
  BY DEF AskOk
<1>5. entries \in [Feeds -> Nat \cup {None}] /\ \A q \in DOMAIN asking : asking[q].feed \in Wanted
  BY DEF Types
<1> HIDE DEF n, f
<1>6. /\ \A s : SeenOk(Wanted, entries, TRUE, s) => SeenOk(Wanted, entries', TRUE, s)
      /\ \A v : ViewOk(Wanted, entries, TRUE, v) => ViewOk(Wanted, entries', TRUE, v)
      /\ \A k : AskOk(entries, TRUE, n, k) /\ (\A q \in DOMAIN k : k[q].feed \in Wanted)
                   => AskOk(entries', TRUE, n, k)
  BY <1>1, <1>3, <1>4, <1>5, ReplyDisturbsNobody
<1>7. AskOk(entries', TRUE, n, asking)
  BY <1>2, <1>5, <1>6 DEF n
<1>8. AskOk(entries', TRUE, n, asking')
  BY <1>7, AskedKeeps DEF Stored
<1>9. QED
  BY <1>2, <1>6, <1>8 DEF n

LEMMA StoredTypes ==
    ASSUME Types, NEW r \in DOMAIN asking, Stored(r)
    PROVE  entries' \in [Feeds -> Nat \cup {None}]
<1>1. asking[r].reply \in Nat
  BY DEF Stored, Types
<1>2. QED
  BY <1>1 DEF Stored, Types

LEMMA StoreInv ==
    ASSUME Inv, NEW a \in agents, Store(a)
    PROVE  Inv'
<1> DEFINE seen == request.seen[a]
           f == asking[a].feed
           n == asking[a].reply
           new == [g \in DOMAIN seen \cup {f} |-> IF g = f THEN n ELSE seen[g]]
<1>1. /\ request # None /\ a \in DOMAIN asking
      /\ Stored(a)
      /\ request' = [request EXCEPT !.seen[a] = new]
      /\ UNCHANGED <<domain, agents, results, up>>
  BY DEF Store, Stored
<1>2. f \in Wanted /\ Wanted \in SUBSET Feeds /\ n \in Nat /\ n # None
  BY <1>1, WantedFeeds DEF Inv, Types, Stored
<1>3. ASSUME AskOk(entries, up, Len(results), asking), SeenOk(Wanted, entries, up, seen)
      PROVE  SeenOk(Wanted, entries', up, new)
  <2>1. up = TRUE
    BY <1>1, <1>2, <1>3 DEF AskOk
  <2>2. /\ entries' = [entries EXCEPT ![f] = n]
        /\ entries \in [Feeds -> Nat \cup {None}]
    BY <1>1 DEF Stored, Inv, Types
  <2>3. \A g \in DOMAIN seen : g \in Wanted /\ seen[g] = entries[g] /\ entries[g] # None
    BY <1>3, <2>1 DEF SeenOk
  <2> HIDE DEF f, n, seen
  <2>4. \A g \in DOMAIN new : g \in Wanted /\ new[g] = entries'[g] /\ entries'[g] # None
    BY <1>2, <2>2, <2>3
  <2>5. QED
    BY <2>4 DEF SeenOk
<1> HIDE DEF new
<1>4. /\ DOMAIN request' = RequestFields
      /\ request'.calm = request.calm
      /\ request'.based = request.based
      /\ request'.seen = [request.seen EXCEPT ![a] = new]
  BY <1>1, SetSeen DEF Inv
<1>5. Types'
  <2>1. /\ entries' \in [Feeds -> Nat \cup {None}]
        /\ \A q \in DOMAIN asking' : asking'[q] \in [feed : Wanted, reply : Nat \cup {None}]
    BY <1>1, StoredTypes, AskedKeeps DEF Inv, Stored
  <2>2. QED
    BY <1>1, <1>4, <2>1 DEF Inv, Types, Wanted
<1>6. CalmInv'
  <2>1. SUFFICES ASSUME request.calm
                 PROVE  /\ \A b \in agents : SeenOk(Wanted, entries', up, request'.seen[b])
                        /\ \A b \in DOMAIN request.based :
                               ViewOk(Wanted, entries', up, request.based[b].view)
                        /\ AskOk(entries', up, Len(results), asking')
    BY <1>1, <1>4 DEF CalmInv, Wanted
  <2>2. /\ \A b \in agents : SeenOk(Wanted, entries, up, request.seen[b])
        /\ \A b \in DOMAIN request.based :
               ViewOk(Wanted, entries, up, request.based[b].view)
        /\ AskOk(entries, up, Len(results), asking)
    BY <1>1, <2>1 DEF Inv, CalmInv
  <2>3. /\ \A s : SeenOk(Wanted, entries, up, s) => SeenOk(Wanted, entries', up, s)
        /\ \A v : ViewOk(Wanted, entries, up, v) => ViewOk(Wanted, entries', up, v)
        /\ AskOk(entries', up, Len(results), asking')
    BY <1>1, <2>2, StoredKeeps DEF Inv
  <2>4. \A b \in agents : SeenOk(Wanted, entries', up, request'.seen[b])
    BY <1>1, <1>3, <1>4, <2>2, <2>3 DEF Inv, Types
  <2>5. QED
    BY <2>2, <2>3, <2>4
<1>7. QED
  BY <1>5, <1>6 DEF Inv

\* Without a reply an agent has no data, and neither will the others.
LEMMA FailInv ==
    ASSUME Inv, NEW a \in agents, Fail(a)
    PROVE  Inv'
<1> DEFINE new == [f \in Wanted |-> None]
<1>1. /\ request # None /\ a \in DOMAIN asking /\ ~up /\ Asked(a)
      /\ request' = [request EXCEPT !.seen[a] = new]
      /\ UNCHANGED <<domain, agents, results, entries, up>>
  BY DEF Fail, Unanswered
<1>2. up = FALSE /\ asking[a].feed \in Wanted
  BY <1>1 DEF Inv, Types
<1>3. ASSUME AskOk(entries, up, Len(results), asking)
      PROVE  SeenOk(Wanted, entries, up, new)
  <2>1. entries[asking[a].feed] = None
    BY <1>1, <1>2, <1>3 DEF AskOk
  <2>2. QED
    BY <1>2, <2>1 DEF SeenOk, Complete
<1> HIDE DEF new
<1>4. /\ DOMAIN request' = RequestFields
      /\ request'.calm = request.calm
      /\ request'.based = request.based
      /\ request'.seen = [request.seen EXCEPT ![a] = new]
  BY <1>1, SetSeen DEF Inv
<1>5. Types'
  BY <1>1, <1>4, AskedKeeps DEF Inv, Types, Wanted
<1>6. CalmInv'
  <2>1. SUFFICES ASSUME request.calm
                 PROVE  /\ \A b \in agents : SeenOk(Wanted, entries, up, request'.seen[b])
                        /\ \A b \in DOMAIN request.based :
                               ViewOk(Wanted, entries, up, request.based[b].view)
                        /\ AskOk(entries, up, Len(results), asking')
    BY <1>1, <1>4 DEF CalmInv, Wanted
  <2>2. /\ \A b \in agents : SeenOk(Wanted, entries, up, request.seen[b])
        /\ \A b \in DOMAIN request.based :
               ViewOk(Wanted, entries, up, request.based[b].view)
        /\ AskOk(entries, up, Len(results), asking)
    BY <1>1, <2>1 DEF Inv, CalmInv
  <2>3. \A b \in agents : SeenOk(Wanted, entries, up, request'.seen[b])
    BY <1>1, <1>3, <1>4, <2>2 DEF Inv, Types
  <2>4. AskOk(entries, up, Len(results), asking')
    BY <1>1, <2>2, AskedKeeps DEF Inv
  <2>5. QED
    BY <2>2, <2>3, <2>4
<1>7. QED
  BY <1>5, <1>6 DEF Inv

\* An agent that misses nothing judges by what is cached, or by nothing.
LEMMA JudgesByCache ==
    ASSUME Types, NEW seen, Missing(seen) = {}, SeenOk(Wanted, entries, up, seen)
    PROVE  ViewOk(Wanted, entries, up, Filled(seen))
<1>1. CASE \A f \in DOMAIN seen :
               f \in Wanted /\ seen[f] = entries[f] /\ entries[f] # None
  <2>1. \A f \in Wanted : entries[f] # None
    BY <1>1 DEF Missing, Cached
  <2>2. \A f \in Feeds : Filled(seen)[f] = IF f \in Wanted THEN entries[f] ELSE None
    BY <1>1 DEF Filled, Cached
  <2>3. Filled(seen) = Full(Wanted, entries)
    BY <2>2 DEF Filled, Full
  <2>4. QED
    BY <2>1, <2>3 DEF ViewOk, Complete
<1>2. CASE up = FALSE /\ ~Complete(Wanted, entries) /\ seen = [f \in Wanted |-> None]
  <2>1. Filled(seen) = [f \in Feeds |-> None]
    BY <1>2 DEF Filled
  <2>2. QED
    BY <1>2, <2>1 DEF ViewOk
<1>3. QED
  BY <1>1, <1>2 DEF SeenOk

LEMMA AnalyseInv ==
    ASSUME Inv, NEW a \in agents, NEW reply, Analyse(a, reply)
    PROVE  Inv'
<1> DEFINE seen == request.seen[a]
           view == Filled(seen)
           analysed == [view |-> view, basis |->
                        Basis(a, MatchupOf(request.entity, view), request.hint, reply)]
           based == [b \in DOMAIN request.based \cup {a} |->
                        IF b = a THEN analysed ELSE request.based[b]]
<1>1. /\ request # None
      /\ Missing(seen) = {}
      /\ request' = [request EXCEPT !.seen[a] = <<>>, !.based = based]
      /\ UNCHANGED <<domain, agents, results, entries, up, asking>>
  BY DEF Analyse, Runs
<1>2. analysed.view = view
  OBVIOUS
<1> HIDE DEF analysed
<1>3. /\ DOMAIN based = DOMAIN request.based \cup {a}
      /\ based[a].view = view
      /\ \A b \in DOMAIN request.based : b # a => based[b] = request.based[b]
  BY <1>2
<1> HIDE DEF based, view
<1>4. /\ DOMAIN request' = RequestFields
      /\ request'.calm = request.calm
      /\ request'.based = based
      /\ request'.seen = [request.seen EXCEPT ![a] = <<>>]
  BY <1>1 DEF Inv, Types, RequestFields
<1>5. Types'
  BY <1>1, <1>3, <1>4 DEF Inv, Types, Wanted
<1>6. CalmInv'
  <2>1. SUFFICES ASSUME request.calm
                 PROVE  /\ \A b \in agents : SeenOk(Wanted, entries, up, request'.seen[b])
                        /\ \A b \in DOMAIN based : ViewOk(Wanted, entries, up, based[b].view)
                        /\ AskOk(entries, up, Len(results), asking)
    BY <1>1, <1>4 DEF CalmInv, Wanted
  <2>2. /\ \A b \in agents : SeenOk(Wanted, entries, up, request.seen[b])
        /\ \A b \in DOMAIN request.based :
               ViewOk(Wanted, entries, up, request.based[b].view)
        /\ AskOk(entries, up, Len(results), asking)
    BY <1>1, <2>1 DEF Inv, CalmInv
  <2>3. ViewOk(Wanted, entries, up, view)
    BY <1>1, <2>2, JudgesByCache DEF Inv, view
  <2>4. SeenOk(Wanted, entries, up, <<>>)
    BY DEF SeenOk
  <2>5. QED
    BY <1>3, <1>4, <2>2, <2>3, <2>4 DEF Inv, Types
<1>7. QED
  BY <1>5, <1>6 DEF Inv

LEMMA PersistInv ==
    ASSUME Inv, Persist
    PROVE  Inv'
<1>1. /\ request' = None
      /\ entries' = [f \in Feeds |-> IF f \in Wanted THEN View[f] ELSE entries[f]]
      /\ UNCHANGED <<domain, agents, results, up, asking>>
  BY DEF Persist
<1>2. Len(results) \in Nat
  BY DEF Inv, Types
<1>3. \A f \in Feeds : entries'[f] \in Nat \cup {None}
  BY <1>1, <1>2 DEF View, Filled, Inv, Types
<1>4. Types'
  BY <1>1, <1>3 DEF Inv, Types, Wanted
<1>5. CalmInv'
  BY <1>1 DEF CalmInv
<1>6. QED
  BY <1>4, <1>5 DEF Inv

\* The pass shares its request for a feed with nobody, only what it caches.
LEMMA IngestInv ==
    ASSUME Inv, Ingest
    PROVE  Inv'
<1>1. /\ domain = "worldcup"
      /\ UNCHANGED <<domain, agents, results, entries, up, request>>
  BY DEF Ingest
<1>2. CASE asking' = asking
  BY <1>1, <1>2 DEF Inv, Types, CalmInv, Wanted
<1>3. CASE /\ Cached("matches") = None
           /\ Asks(Pass, "matches")
  <2>1. "matches" \in Wanted /\ entries["matches"] = None
    BY <1>1, <1>3 DEF Wanted, Cached
  <2>2. Types'
    BY <1>1, <1>3, <2>1, AsksKeeps DEF Inv, Types, Wanted
  <2>3. \A n : AskOk(entries, up, n, asking) => AskOk(entries, up, n, asking')
    BY <1>3, <2>1, AsksKeeps DEF Inv
  <2>4. CalmInv'
    BY <1>1, <2>3 DEF Inv, CalmInv, Wanted
  <2>5. QED
    BY <2>2, <2>4 DEF Inv
<1>4. QED
  BY <1>2, <1>3 DEF Ingest

LEMMA IngestReplyInv ==
    ASSUME Inv, IngestReply
    PROVE  Inv'
<1>1. /\ Pass \in DOMAIN asking
      /\ Stored(Pass)
      /\ UNCHANGED <<domain, agents, results, up, request>>
  BY DEF IngestReply, Stored
<1>2. Types'
  <2>1. /\ entries' \in [Feeds -> Nat \cup {None}]
        /\ \A q \in DOMAIN asking' : asking'[q] \in [feed : Wanted, reply : Nat \cup {None}]
    BY <1>1, StoredTypes, AskedKeeps DEF Inv, Stored
  <2>2. QED
    BY <1>1, <2>1 DEF Inv, Types, Wanted
<1>3. CalmInv'
  <2>1. SUFFICES ASSUME request # None, request.calm
                 PROVE  /\ \A b \in agents : SeenOk(Wanted, entries', up, request.seen[b])
                        /\ \A b \in DOMAIN request.based :
                               ViewOk(Wanted, entries', up, request.based[b].view)
                        /\ AskOk(entries', up, Len(results), asking')
    BY <1>1 DEF CalmInv, Wanted
  <2>2. QED
    BY <1>1, <2>1, StoredKeeps DEF Inv, CalmInv
<1>4. QED
  BY <1>2, <1>3 DEF Inv

LEMMA IngestNothingInv ==
    ASSUME Inv, IngestNothing
    PROVE  Inv'
<1>1. Asked(Pass) /\ UNCHANGED <<domain, agents, results, entries, up, request>>
  BY DEF IngestNothing, Unanswered
<1>2. Types'
  BY <1>1, AskedKeeps DEF Inv, Types, Wanted
<1>3. CalmInv'
  BY <1>1, AskedKeeps DEF Inv, CalmInv, Wanted
<1>4. QED
  BY <1>2, <1>3 DEF Inv

LEMMA StepInv == Inv /\ [Next]_vars => Inv'
<1> SUFFICES ASSUME Inv, [Next]_vars PROVE Inv'
  OBVIOUS
<1>1. CASE \/ \E score : Finish(score)
           \/ Toggle
           \/ \E f \in Feeds : Lapse(f)
  BY <1>1, WorldInv
<1>2. ASSUME NEW r \in Requests, Request(r)
      PROVE  Inv'
  BY <1>2, RequestInv
<1>3. ASSUME NEW a \in agents, Ask(a)
      PROVE  Inv'
  BY <1>3, AskInv
<1>4. ASSUME NEW a \in agents, Store(a) \/ Fail(a)
      PROVE  Inv'
  BY <1>4, StoreInv, FailInv
<1>5. ASSUME NEW a \in agents, NEW reply \in {"none", "telling", "neutral"},
             Analyse(a, reply)
      PROVE  Inv'
  BY <1>5, AnalyseInv
<1>6. CASE Persist
  BY <1>6, PersistInv
<1>7. CASE Ingest
  BY <1>7, IngestInv
<1>8. CASE IngestReply \/ IngestNothing
  BY <1>8, IngestReplyInv, IngestNothingInv
<1>9. ASSUME NEW r, Reply(r)
      PROVE  Inv'
  BY <1>9, ReplyInv
<1>10. CASE UNCHANGED vars
  BY <1>10 DEF vars, Inv, Types, CalmInv, Wanted
<1>11. QED
  BY <1>1, <1>2, <1>3, <1>4, <1>5, <1>6, <1>7, <1>8, <1>9, <1>10 DEF Next

LEMMA Invariant == Spec => []Inv
BY InitInv, StepInv, PTL DEF Spec

\* All that agents have judged by is the one view of the cache.
LEMMA ViewsAgree == Inv => OneView
<1> SUFFICES ASSUME Inv, request # None, request.calm,
                    NEW a \in DOMAIN request.based, NEW b \in DOMAIN request.based
             PROVE  request.based[a].view = request.based[b].view
  BY DEF OneView
<1>1. /\ ViewOk(Wanted, entries, up, request.based[a].view)
      /\ ViewOk(Wanted, entries, up, request.based[b].view)
  BY DEF Inv, CalmInv
<1>2. QED
  BY <1>1 DEF ViewOk

\* The agents of one prediction see the same feeds, except through the race and
\* the faults OneView names (_get of both connectors, football_matchup).
THEOREM ViewsAreOne == Spec => []OneView
BY Invariant, ViewsAgree, PTL
-----------------------------------------------------------------------------
(* Rows.                                                                   *)

RowFields == {"entity", "line", "outcome"}

\* The rows are a sequence, each with its columns.
RowsInv ==
    /\ \E n \in Nat : predictions = [k \in 1..n |-> predictions[k]]
    /\ \A k \in DOMAIN predictions : DOMAIN predictions[k] = RowFields

LEMMA MaxExists ==
    ASSUME NEW n \in Nat, NEW T \in SUBSET (1..n), T # {}
    PROVE  Max(T) \in T /\ \A y \in T : Max(T) >= y
<1> DEFINE U == {n - x : x \in T}
<1>1. U \in SUBSET Nat /\ U # {}
  <2>1. \A x \in T : n - x \in Nat
    OBVIOUS
  <2>2. PICK x \in T : TRUE
    OBVIOUS
  <2>3. n - x \in U
    OBVIOUS
  <2>4. QED
    BY <2>1, <2>3
<1>2. PICK u \in U : \A v \in U : u <= v
  BY <1>1, LeastNat
<1>3. n - u \in T /\ \A y \in T : n - u >= y
  <2>1. \A y \in T : n - y \in U
    OBVIOUS
  <2>2. QED
    BY <1>2, <2>1
<1>4. QED
  BY <1>3 DEF Max

LEMMA RowAppended ==
    ASSUME NEW n \in Nat, NEW f, f = [i \in 1..n |-> f[i]], NEW e
    PROVE  Append(f, e) = [i \in 1..(n + 1) |-> IF i = n + 1 THEN e ELSE f[i]]
<1> DEFINE S == {f[i] : i \in 1..n} \cup {e}
<1>1. f \in Seq(S) /\ Len(f) = n
  BY SMT
<1> HIDE DEF S
<1>2. e \in S
  BY DEF S
<1>3. QED
  BY <1>1, <1>2, AppendProperties, LenProperties, SMT

\* A pass writes outcomes and nothing else.
LEMMA IngestedRows ==
    ASSUME RowsInv, NEW n, predictions' = Ingested(n)
    PROVE  /\ RowsInv'
           /\ DOMAIN predictions' = DOMAIN predictions
           /\ \A k \in DOMAIN predictions :
                  /\ predictions'[k].entity = predictions[k].entity
                  /\ predictions'[k].line = predictions[k].line
                  /\ LET matches == FinishedResults(<<predictions[k].entity.home,
                                                      predictions[k].entity.away>>, n)
                     IN  \/ predictions'[k].outcome = predictions[k].outcome
                         \/ matches # {} /\ predictions'[k].outcome = Max(matches)
<1> DEFINE Of(p) == IF p.outcome # None THEN {}
                    ELSE FinishedResults(<<p.entity.home, p.entity.away>>, n)
<1>1. predictions' = [k \in DOMAIN predictions |->
             IF Of(predictions[k]) = {} THEN predictions[k]
             ELSE [predictions[k] EXCEPT !.outcome = Max(Of(predictions[k]))]]
  BY DEF Ingested
<1>2. PICK N \in Nat : predictions = [k \in 1..N |-> predictions[k]]
  BY DEF RowsInv
<1>3. predictions' = [k \in 1..N |-> predictions'[k]]
  <2> HIDE DEF Of
  <2> QED BY <1>1, <1>2
<1>4. ASSUME NEW k \in DOMAIN predictions
      PROVE  /\ DOMAIN predictions'[k] = RowFields
             /\ predictions'[k].entity = predictions[k].entity
             /\ predictions'[k].line = predictions[k].line
             /\ \/ predictions'[k].outcome = predictions[k].outcome
                \/ Of(predictions[k]) # {} /\ predictions'[k].outcome = Max(Of(predictions[k]))
  <2> HIDE DEF Of
  <2>1. DOMAIN predictions[k] = RowFields
    BY DEF RowsInv
  <2>2. CASE Of(predictions[k]) = {}
    BY <1>1, <2>1, <2>2
  <2>3. CASE Of(predictions[k]) # {}
    <3>1. predictions'[k] = [predictions[k] EXCEPT !.outcome = Max(Of(predictions[k]))]
      BY <1>1, <2>3
    <3>2. QED
      BY <2>1, <2>3, <3>1 DEF RowFields
  <2>4. QED
    BY <2>2, <2>3
<1>5. \A k \in DOMAIN predictions :
          Of(predictions[k]) # {} =>
              Of(predictions[k]) = FinishedResults(<<predictions[k].entity.home,
                                                     predictions[k].entity.away>>, n)
  OBVIOUS
<1>6. DOMAIN predictions' = DOMAIN predictions
  <2> HIDE DEF Of
  <2> QED BY <1>1
<1> HIDE DEF Of
<1>7. RowsInv'
  BY <1>3, <1>4, <1>6 DEF RowsInv
<1>8. QED
  BY <1>4, <1>5, <1>6, <1>7

LEMMA PersistRows ==
    ASSUME RowsInv, Persist
    PROVE  /\ RowsInv'
           /\ \E n \in Nat :
                  /\ DOMAIN predictions = 1..n /\ DOMAIN predictions' = 1..(n + 1)
                  /\ \A k \in 1..n : predictions'[k] = predictions[k]
                  /\ predictions'[n + 1] =
                         [entity |-> request.entity,
                          line |-> LineOf(MatchupOf(request.entity, View)), outcome |-> None]
<1> DEFINE row == [entity |-> request.entity,
                   line |-> LineOf(MatchupOf(request.entity, View)), outcome |-> None]
<1>1. predictions' = Append(predictions, row)
  BY DEF Persist
<1>2. DOMAIN row = RowFields
  BY DEF RowFields
<1> HIDE DEF row
<1>3. PICK n \in Nat : predictions = [k \in 1..n |-> predictions[k]]
  BY DEF RowsInv
<1>4. predictions' = [k \in 1..(n + 1) |-> IF k = n + 1 THEN row ELSE predictions[k]]
  BY <1>1, <1>3, RowAppended
<1>5. /\ predictions' = [k \in 1..(n + 1) |-> predictions'[k]] /\ n + 1 \in Nat
      /\ DOMAIN predictions = 1..n /\ DOMAIN predictions' = 1..(n + 1)
  BY <1>3, <1>4
<1>6. /\ \A k \in 1..n : predictions'[k] = predictions[k]
      /\ predictions'[n + 1] = row
  BY <1>4
<1>7. \A k \in DOMAIN predictions' : DOMAIN predictions'[k] = RowFields
  <2>1. \A k \in 1..n : DOMAIN predictions[k] = RowFields
    BY <1>5 DEF RowsInv
  <2>2. \A k \in 1..(n + 1) : k \in 1..n \/ k = n + 1
    OBVIOUS
  <2>3. QED
    BY <1>2, <1>5, <1>6, <2>1, <2>2
<1>8. RowsInv'
  BY <1>5, <1>7 DEF RowsInv
<1>9. QED
  BY <1>5, <1>6, <1>8 DEF row

LEMMA StepRows == RowsInv /\ [Next]_vars => RowsInv'
<1> SUFFICES ASSUME RowsInv, [Next]_vars PROVE RowsInv'
  OBVIOUS
<1>1. CASE predictions' = predictions
  BY <1>1 DEF RowsInv
<1>2. CASE Persist
  BY <1>2, PersistRows
<1>3. ASSUME NEW n, predictions' = Ingested(n)
      PROVE  RowsInv'
  BY <1>3, IngestedRows
<1>4. QED
  BY <1>1, <1>2, <1>3
     DEF Next, vars, Finish, Toggle, Lapse, Disturb, Request, Ask, Reply, Store, Fail, Analyse,
         Ingest, IngestReply, IngestNothing
-----------------------------------------------------------------------------
(* Teams and their form.                                                   *)

LEMMA ThousandthsType ==
    ASSUME NEW x \in Int, NEW y \in Nat, y > 0
    PROVE  Thousandths(x, y) \in Int
<1>1. PICK q \in Int : q = (1000 * x) \div y
  OBVIOUS
<1>2. Thousandths(x, y) \in {q, q + 1}
  BY <1>1 DEF Thousandths
<1>3. QED
  BY <1>2

LEMMA PlayedFacts ==
    ASSUME NEW t, NEW n \in Nat
    PROVE  /\ IsFiniteSet(Played(t, n)) /\ IsFiniteSet(Form(t, n))
           /\ Form(t, n) \subseteq Played(t, n)
           /\ Played(t, n) # {} => Form(t, n) # {}
           /\ \A i : Points(t, i) \in {0, 1, 2}
<1>1. Played(t, n) \in SUBSET (1..n) /\ Form(t, n) \subseteq Played(t, n)
  BY DEF Played, Form
<1>2. IsFiniteSet(Played(t, n)) /\ IsFiniteSet(Form(t, n))
  <2>1. IsFiniteSet(1..n)
    BY FS_Interval
  <2>2. QED
    BY <1>1, <2>1, FS_Subset
<1>3. ASSUME Played(t, n) # {} PROVE Form(t, n) # {}
  <2>1. PICK i \in Played(t, n) : \A j \in Played(t, n) : i >= j
    BY <1>1, <1>3, MaxExists
  <2>2. {j \in Played(t, n) : j >= i} = {i}
    BY <1>1, <2>1
  <2>3. Cardinality({i}) = 1
    BY FS_Singleton
  <2>4. i \in Form(t, n)
    BY <2>1, <2>2, <2>3 DEF Form
  <2>5. QED
    BY <2>4
<1>4. \A i : Points(t, i) \in {0, 1, 2}
  BY DEF Points
<1>5. QED
  BY <1>1, <1>2, <1>3, <1>4

\* A team that has played has a momentum.
LEMMA MomentumType ==
    ASSUME NEW t, NEW n \in Nat
    PROVE  /\ Momentum(t, n) \in Int \cup {None}
           /\ Played(t, n) # {} => Momentum(t, n) # None
<1> DEFINE form == Form(t, n)
           k == Cardinality(form)
           weighted == [i \in form |-> Cardinality({j \in form : j <= i}) * Points(t, i)]
<1>1. IsFiniteSet(form) /\ \A i \in form : Points(t, i) \in {0, 1, 2}
  BY PlayedFacts
<1>2. CASE form = {}
  BY <1>2, PlayedFacts DEF Momentum
<1>3. CASE form # {}
  <2>1. \A i \in form : Cardinality({j \in form : j <= i}) \in Nat
    BY <1>1, FS_Subset, FS_CardinalityType
  <2>2. \A x \in Nat, y \in {0, 1, 2} : x * y \in Int
    OBVIOUS
  <2>3. weighted \in [form -> Int]
    BY <1>1, <2>1, <2>2
  <2>4. k \in Nat /\ k > 0
    BY <1>1, <1>3, FS_CardinalityType, FS_EmptySet
  <2>5. Momentum(t, n) = Thousandths(SumFunction(weighted), k * (k + 1))
    BY <1>3 DEF Momentum
  <2> HIDE DEF form, k, weighted
  <2>6. SumFunction(weighted) \in Int
    BY <1>1, <2>3, SumType
  <2>7. k * (k + 1) \in Nat /\ k * (k + 1) > 0
    BY <2>4
  <2>8. Momentum(t, n) \in Int
    BY <2>5, <2>6, <2>7, ThousandthsType
  <2>9. QED
    BY <2>8, SignalsAssumption
<1>4. QED
  BY <1>2, <1>3

\* The shares of a team that has played.
LEMMA ShareTypes ==
    ASSUME NEW t, NEW n \in Nat, Played(t, n) # {}
    PROVE  /\ WinRate(t, n) \in Int
           /\ TablePoints(t, n) \in Int
           /\ Thousandths(TablePoints(t, n), 3 * Cardinality(Played(t, n))) \in Int
<1> DEFINE P == Played(t, n)
           points == [i \in P |-> IF Points(t, i) = 2 THEN 3 ELSE Points(t, i)]
<1>1. IsFiniteSet(P) /\ \A i \in P : Points(t, i) \in {0, 1, 2}
  BY PlayedFacts
<1>2. Cardinality(P) \in Nat /\ Cardinality(P) > 0
  BY <1>1, FS_CardinalityType, FS_EmptySet
<1>3. Cardinality(Won(t, n)) \in Nat
  <2>1. Won(t, n) \subseteq P
    BY DEF Won
  <2>2. QED
    BY <1>1, <2>1, FS_Subset, FS_CardinalityType
<1>4. points \in [P -> Int] /\ TablePoints(t, n) = SumFunction(points)
  BY <1>1 DEF TablePoints
<1> HIDE DEF P, points
<1>5. TablePoints(t, n) \in Int
  BY <1>1, <1>4, SumType
<1>6. WinRate(t, n) \in Int
  BY <1>2, <1>3, ThousandthsType DEF WinRate, P
<1>7. Thousandths(TablePoints(t, n), 3 * Cardinality(P)) \in Int
  <2>1. 3 * Cardinality(P) \in Nat /\ 3 * Cardinality(P) > 0
    BY <1>2
  <2>2. QED
    BY <1>5, <2>1, ThousandthsType
<1>8. QED
  BY <1>5, <1>6, <1>7 DEF P

LEMMA Constants ==
    /\ \A t \in Teams : Rank[t] \in Nat /\ Rank[t] >= 1 /\ Rank[t] <= 48
    /\ \A t \in Teams : t # None /\ Names[t] = {t}
    /\ \A name \in DOMAIN Names : Names[name] \in SUBSET Teams
    /\ None \notin Int
<1>1. Rank \in [Teams -> 1..48]
  BY SignalsAssumption, Zenon
<1>2. Names \in [DOMAIN Names -> SUBSET Teams]
  BY SignalsAssumption, Zenon
<1>3. \A t \in Teams : Names[t] = {t}
  BY SignalsAssumption, Zenon
<1>4. None \notin Teams \cup Int
  BY SignalsAssumption, Zenon
<1>5. QED
  BY <1>1, <1>2, <1>3, <1>4

LEMMA StrengthType ==
    ASSUME NEW t \in Teams
    PROVE  Strength(t) \in Int /\ Strength(t) >= 100
BY Constants DEF Strength, Between

\* What a name means is a team.
LEMMA SeededType ==
    ASSUME NEW name, name \in DOMAIN Names, Seeded(name) # None
    PROVE  Seeded(name) \in Teams
<1>1. Names[name] \in SUBSET Teams /\ Names[name] # {}
  BY Constants DEF Seeded
<1> DEFINE Ranks == {Rank[t] : t \in Names[name]}
<1>2. Ranks \in SUBSET Nat /\ Ranks # {}
  BY <1>1, Constants
<1>3. PICK r \in Ranks : \A q \in Ranks : r <= q
  BY <1>2, LeastNat
<1>4. \E t \in Names[name] : \A u \in Names[name] : Rank[t] <= Rank[u]
  BY <1>3
<1>5. Seeded(name) \in Names[name]
  BY <1>4 DEF Seeded
<1>6. QED
  BY <1>1, <1>5

LEMMA SeededTeam ==
    ASSUME NEW t \in Teams
    PROVE  Seeded(t) = t
<1>1. Names[t] = {t} /\ t # None /\ Rank[t] <= Rank[t]
  BY Constants
<1>2. Seeded(t) = CHOOSE x \in {t} : \A u \in {t} : Rank[x] <= Rank[u]
  BY <1>1 DEF Seeded
<1>3. QED
  BY <1>1, <1>2

LEMMA TeamInTable ==
    ASSUME NEW t \in Teams, NEW n
    PROVE  InTable(t, n) = t
<1>1. Names[t] = {t} /\ t # None
  BY Constants
<1>2. InTable(t, n) = CHOOSE x \in {t} : \A u \in {t} \ {x} : Above(x, u, n)
  BY <1>1 DEF InTable
<1>3. QED
  BY <1>1, <1>2

LEMMA SeedMetricsType ==
    ASSUME NEW t \in Teams, NEW n \in Nat \cup {None}
    PROVE  /\ SeedMetrics(t, n) \in TeamMetrics
           /\ SeedMetrics(t, n).team = t
           /\ SeedMetrics(t, n).strength = Strength(t)
           /\ SeedMetrics(t, n).momentum # None
           /\ SeedMetrics(t, n).momentum = 0 => n # None /\ Momentum(t, n) = 0
<1>1. Strength(t) \in Int /\ Strength(t) >= 100 /\ None \notin Int
  BY StrengthType, Constants
<1>2. CASE n = None \/ Played(t, n) = {}
  BY <1>1, <1>2 DEF SeedMetrics, TeamMetrics
<1>3. CASE n # None /\ Played(t, n) # {}
  <2>1. n \in Nat
    BY <1>3
  <2>2. WinRate(t, n) \in Int /\ Momentum(t, n) \in Int
    BY <1>3, <2>1, ShareTypes, MomentumType
  <2>3. QED
    BY <1>1, <1>3, <2>2 DEF SeedMetrics, TeamMetrics
<1>4. QED
  BY <1>2, <1>3
-----------------------------------------------------------------------------
(* Matchups.                                                               *)

LEMMA DomainStays == Spec => [](domain \in Domains)
<1>1. Init => domain \in Domains
  BY DEF Init
<1>2. domain \in Domains /\ [Next]_vars => (domain \in Domains)'
  BY DEF Next, vars, Finish, Toggle, Lapse, Disturb, Request, Ask, Reply, Store, Fail, Analyse, Persist,
         Ingest, IngestReply, IngestNothing
<1>3. QED
  BY <1>1, <1>2, PTL DEF Spec

LEMMA ViewType ==
    ASSUME Types
    PROVE  View["table"] \in Nat \cup {None} /\ View["matches"] \in Nat \cup {None}
<1>1. Len(results) \in Nat /\ entries \in [Feeds -> Nat \cup {None}]
  BY DEF Types
<1>2. QED
  BY <1>1, WantedFeeds DEF View, Filled, Cached, Feeds

LEMMA TableMetricsType ==
    ASSUME NEW t \in Teams, NEW v, v["table"] \in Nat, v["matches"] \in Nat,
           TableMetrics(t, v) # None
    PROVE  TableMetrics(t, v) \in TeamMetrics
<1>1. InTable(t, v["table"]) = t /\ Played(t, v["table"]) # {}
  BY TeamInTable, Constants DEF TableMetrics
<1>2. TableMetrics(t, v) =
          [team |-> t, win |-> WinRate(t, v["table"]),
           strength |-> Thousandths(TablePoints(t, v["table"]),
                                    3 * Cardinality(Played(t, v["table"]))),
           momentum |-> Momentum(t, v["matches"])]
  BY <1>1, Constants DEF TableMetrics
<1>3. /\ WinRate(t, v["table"]) \in Int
      /\ Thousandths(TablePoints(t, v["table"]), 3 * Cardinality(Played(t, v["table"]))) \in Int
      /\ Momentum(t, v["matches"]) \in Int \cup {None}
  BY <1>1, ShareTypes, MomentumType
<1>4. QED
  BY <1>2, <1>3 DEF TeamMetrics

LEMMA NoMetrics == None \notin TeamMetrics /\ None \notin MatchupMetrics
<1>1. None \notin Teams \cup Int \cup TeamMetrics \cup MatchupMetrics
  BY SignalsAssumption, Zenon
<1>2. QED
  BY <1>1

\* What is more for one side is less for the other, to a thousandth.
LEMMA RelativeFacts ==
    ASSUME NEW h \in Int, NEW a \in Int
    PROVE  Relative(h, a) \in Int /\ Relative(h, a) + Relative(a, h) \in 999..1001
<1> DEFINE p == 1000 + h - a
           q == 1000 + a - h
           up1 == IF p % 2 = 1 /\ <<h, a>> \in RoundsUp THEN 1 ELSE 0
           up2 == IF q % 2 = 1 /\ <<a, h>> \in RoundsUp THEN 1 ELSE 0
<1>1. /\ Relative(h, a) = Between(0, p \div 2 + up1, 1000)
      /\ Relative(a, h) = Between(0, q \div 2 + up2, 1000)
  BY DEF Relative
<1>2. p \in Int /\ q \in Int /\ p + q = 2000
  OBVIOUS
<1>3. PICK x \in Int, y \in Int : x = p \div 2 + up1 /\ y = q \div 2 + up2
  OBVIOUS
<1>4. x + y \in 999..1001
  <2>1. up1 \in {0, 1} /\ up2 \in {0, 1} /\ (p % 2 # 1 => up1 = 0) /\ (q % 2 # 1 => up2 = 0)
    OBVIOUS
  <2> HIDE DEF p, q, up1, up2
  <2>2. CASE p % 2 = 1
    BY <1>2, <1>3, <2>1, <2>2
  <2>3. CASE p % 2 # 1
    BY <1>2, <1>3, <2>1, <2>3
  <2>4. QED
    BY <2>2, <2>3
<1>5. Relative(h, a) = Between(0, x, 1000) /\ Relative(a, h) = Between(0, y, 1000)
  BY <1>1, <1>3
<1>6. QED
  BY <1>4, <1>5 DEF Between

\* Two sides that are known: what is more for one is less for the other.
LEMMA Mirrored ==
    ASSUME NEW h \in TeamMetrics, NEW a \in TeamMetrics
    PROVE  LET m == Matchup(h, a)
               w == Matchup(a, h)
           IN  /\ Opposite(m.win, w.win) /\ Opposite(m.strength, w.strength)
               /\ \/ Opposite(m.momentum, w.momentum)
                  \/ domain # "worldcup" /\ (h.momentum = None) # (a.momentum = None)
               /\ m.home = h /\ m.away = a
<1> DEFINE m == Matchup(h, a)
           w == Matchup(a, h)
<1>1. h # None /\ a # None /\ None \notin Int
  BY NoMetrics, Constants
<1>2. /\ h.win \in Int /\ a.win \in Int /\ h.strength \in Int /\ a.strength \in Int
      /\ h.momentum \in Int \cup {None} /\ a.momentum \in Int \cup {None}
  BY DEF TeamMetrics
<1>3. /\ m = [home |-> h, away |-> a, win |-> Relative(h.win, a.win),
               strength |-> Relative(h.strength, a.strength), momentum |-> RelMomentum(h, a)]
      /\ w = [home |-> a, away |-> h, win |-> Relative(a.win, h.win),
               strength |-> Relative(a.strength, h.strength), momentum |-> RelMomentum(a, h)]
  BY <1>1 DEF Matchup
<1>4. \A x, y \in Int : Opposite(Relative(x, y), Relative(y, x))
  BY <1>1, RelativeFacts DEF Opposite
<1>5. Opposite(m.win, w.win) /\ Opposite(m.strength, w.strength)
  BY <1>2, <1>3, <1>4
<1>6. \/ Opposite(m.momentum, w.momentum)
      \/ domain # "worldcup" /\ (h.momentum = None) # (a.momentum = None)
  <2>1. CASE domain = "worldcup"
    <3>1. CASE {h.momentum, a.momentum} \cap {None, 0} # {}
      <4>1. RelMomentum(h, a) = None /\ RelMomentum(a, h) = None
        BY <2>1, <3>1 DEF RelMomentum
      <4>2. QED
        BY <1>3, <4>1 DEF Opposite
    <3>2. CASE {h.momentum, a.momentum} \cap {None, 0} = {}
      <4>1. /\ RelMomentum(h, a) = Relative(h.momentum, a.momentum)
            /\ RelMomentum(a, h) = Relative(a.momentum, h.momentum)
        BY <2>1, <3>2 DEF RelMomentum
      <4>2. h.momentum \in Int /\ a.momentum \in Int
        BY <1>2, <3>2
      <4>3. QED
        BY <1>3, <1>4, <4>1, <4>2
    <3>3. QED
      BY <3>1, <3>2
  <2>2. CASE domain # "worldcup"
    <3>1. CASE h.momentum = None /\ a.momentum = None
      <4>1. RelMomentum(h, a) = None /\ RelMomentum(a, h) = None
        BY <2>2, <3>1 DEF RelMomentum
      <4>2. QED
        BY <1>3, <4>1 DEF Opposite
    <3>2. CASE h.momentum # None /\ a.momentum # None
      <4>1. /\ RelMomentum(h, a) = Relative(h.momentum, a.momentum)
            /\ RelMomentum(a, h) = Relative(a.momentum, h.momentum)
        BY <2>2, <3>2 DEF RelMomentum
      <4>2. h.momentum \in Int /\ a.momentum \in Int
        BY <1>2, <3>2
      <4>3. QED
        BY <1>3, <1>4, <4>1, <4>2
    <3>3. QED
      BY <2>2, <3>1, <3>2
  <2>3. QED
    BY <2>1, <2>2
<1>7. QED
  BY <1>3, <1>5, <1>6

\* Of two teams the World Cup connector knows both, the league's those in the table.
LEMMA Sided ==
    ASSUME Types, NEW t \in Teams, NEW u \in Teams,
           NEW m, m = MatchupOf([home |-> t, away |-> u], View), m # None, m.away # None
    PROVE  /\ domain # "other"
           /\ IF domain = "worldcup"
              THEN m = Matchup(SeedMetrics(t, View["matches"]), SeedMetrics(u, View["matches"]))
              ELSE /\ View["table"] \in Nat /\ View["matches"] \in Nat
                   /\ TableMetrics(t, View) \in TeamMetrics /\ TableMetrics(u, View) \in TeamMetrics
                   /\ m = Matchup(TableMetrics(t, View), TableMetrics(u, View))
<1> DEFINE e == [home |-> t, away |-> u]
<1>1. Seeded(t) = t /\ Seeded(u) = u /\ t # None /\ u # None
  BY SeededTeam, Constants
<1>2. CASE domain = "worldcup"
  BY <1>1, <1>2 DEF MatchupOf
<1>3. CASE domain # "worldcup"
  <2>1. /\ domain # "other" /\ None \notin {View["table"], View["matches"]}
        /\ m = Matchup(TableMetrics(t, View), TableMetrics(u, View))
    BY <1>3 DEF MatchupOf
  <2>2. View["table"] \in Nat /\ View["matches"] \in Nat
    BY <2>1, ViewType
  <2>3. TableMetrics(t, View) # None /\ TableMetrics(u, View) # None
    BY <2>1 DEF Matchup
  <2>4. QED
    BY <1>3, <2>1, <2>2, <2>3, TableMetricsType
<1>4. QED
  BY <1>2, <1>3

\* matchup_from and enrich_matchup_with_form: the pair named the other way round has
\* the opposite signals, to the thousandth that rounding may make, but for a league that
\* has the form of one side only, for any teams, fixtures, results, state of the feeds
\* and any way the floats go at half a thousandth.
THEOREM SignalsAreMirrored == Spec => []MirrorImage
<1>1. Types /\ domain \in Domains => MirrorImage
  <2> SUFFICES ASSUME Types, domain \in Domains, NEW t \in Teams, NEW u \in Teams,
                      NEW m, m = MatchupOf([home |-> t, away |-> u], View), m # None, m.away # None,
                      NEW w, w = MatchupOf([home |-> u, away |-> t], View), w # None, w.away # None
               PROVE  /\ Opposite(m.win, w.win) /\ Opposite(m.strength, w.strength)
                      /\ \/ Opposite(m.momentum, w.momentum)
                         \/ domain = "sports" /\ (m.home.momentum = None) # (m.away.momentum = None)
    BY DEF MirrorImage
  <2>1. PICK h \in TeamMetrics, a \in TeamMetrics : m = Matchup(h, a) /\ w = Matchup(a, h)
    <3>1. CASE domain = "worldcup"
      <4> DEFINE h == SeedMetrics(t, View["matches"])
                 a == SeedMetrics(u, View["matches"])
      <4>1. m = Matchup(h, a) /\ w = Matchup(a, h)
        BY <3>1, Sided
      <4>2. View["matches"] \in Nat \cup {None}
        BY ViewType
      <4>3. h \in TeamMetrics /\ a \in TeamMetrics
        BY <4>2, SeedMetricsType
      <4> HIDE DEF h, a
      <4>4. QED
        BY <4>1, <4>3
    <3>2. CASE domain # "worldcup"
      BY <3>2, Sided
    <3>3. QED
      BY <3>1, <3>2
  <2>2. domain # "other" /\ domain \in {"worldcup", "sports", "other"}
    <3>1. Domains \subseteq {"worldcup", "sports", "other"}
      BY SignalsAssumption, Zenon
    <3>2. QED
      BY <3>1, Sided
  <2>3. QED
    BY <2>1, <2>2, Mirrored
<1>2. QED
  BY Invariant, DomainStays, <1>1, PTL DEF Inv
-----------------------------------------------------------------------------
(* Score lines.                                                            *)

\* The goals of a side by what it is stronger, away or on neutral ground, and at home.
OnNeutral(gap) == Goals(gap, TRUE)
AtHome(gap) == Goals(gap, FALSE)

LEMMA MoreBelow ==
    ASSUME NEW T \in SUBSET Int, IsFiniteSet(T), NEW x \in Int, NEW y \in Int, x <= y
    PROVE  /\ Cardinality({t \in T : x >= t}) \in Nat /\ Cardinality({t \in T : y >= t}) \in Nat
           /\ Cardinality({t \in T : x >= t}) <= Cardinality({t \in T : y >= t})
<1> DEFINE A == {t \in T : x >= t}
           B == {t \in T : y >= t}
<1>1. A \subseteq B /\ A \subseteq T /\ B \subseteq T
  <2>1. ASSUME NEW t \in T, x >= t PROVE y >= t
    <3>1. t \in Int
      OBVIOUS
    <3>2. QED
      BY <2>1, <3>1
  <2>2. QED
    BY <2>1
<1> HIDE DEF A, B
<1>2. IsFiniteSet(A) /\ IsFiniteSet(B)
  BY <1>1, FS_Subset
<1>3. Cardinality(A) \in Nat /\ Cardinality(B) \in Nat /\ Cardinality(A) <= Cardinality(B)
  BY <1>1, <1>2, FS_Subset, FS_CardinalityType
<1>4. QED
  BY <1>3 DEF A, B

LEMMA MoreGoals ==
    \A x, y \in Int : x <= y =>
        /\ OnNeutral(x) \in Nat /\ OnNeutral(y) \in Nat /\ OnNeutral(x) <= OnNeutral(y)
        /\ AtHome(x) \in Nat /\ AtHome(y) \in Nat /\ AtHome(x) <= AtHome(y)
<1>1. Thresholds \in [BOOLEAN -> SUBSET Int] /\ \A b \in BOOLEAN : IsFiniteSet(Thresholds[b])
  BY SignalsAssumption, Zenon
<1>2. /\ Thresholds[TRUE] \in SUBSET Int /\ IsFiniteSet(Thresholds[TRUE])
      /\ Thresholds[FALSE] \in SUBSET Int /\ IsFiniteSet(Thresholds[FALSE])
  BY <1>1
<1>3. SUFFICES ASSUME NEW x \in Int, NEW y \in Int, x <= y
               PROVE  /\ OnNeutral(x) \in Nat /\ OnNeutral(y) \in Nat /\ OnNeutral(x) <= OnNeutral(y)
                      /\ AtHome(x) \in Nat /\ AtHome(y) \in Nat /\ AtHome(x) <= AtHome(y)
  OBVIOUS
<1>4. OnNeutral(x) \in Nat /\ OnNeutral(y) \in Nat /\ OnNeutral(x) <= OnNeutral(y)
  BY <1>2, <1>3, MoreBelow DEF Goals, OnNeutral
<1>5. AtHome(x) \in Nat /\ AtHome(y) \in Nat /\ AtHome(x) <= AtHome(y)
  BY <1>2, <1>3, MoreBelow DEF Goals, AtHome
<1>6. QED
  BY <1>4, <1>5

\* Who is ahead in strength, his ground included, scores as many goals at least.
LEMMA GoalsFollow ==
    ASSUME NEW g \in Int, NEW f \in Int, f = 0 - g, HomeEdgeFits
    PROVE  IF g + HomeEdge >= 0 THEN OnNeutral(f) <= AtHome(g)
           ELSE AtHome(g) <= OnNeutral(f)
<1>1. HomeEdge \in Nat
  BY SignalsAssumption, Zenon
<1>2. PICK k \in Int : k = 0 - HomeEdge
  BY <1>1
<1>3. PICK l \in Int : l = 0 - HomeEdge - 1
  BY <1>1
<1>4. AtHome(l) <= OnNeutral(HomeEdge) /\ OnNeutral(HomeEdge) <= AtHome(k)
  BY <1>2, <1>3 DEF HomeEdgeFits, OnNeutral, AtHome
<1>5. CASE g + HomeEdge >= 0
  <2>1. k <= g /\ f <= HomeEdge
    BY <1>1, <1>2, <1>5
  <2>2. /\ AtHome(k) <= AtHome(g) /\ OnNeutral(f) <= OnNeutral(HomeEdge)
        /\ AtHome(k) \in Nat /\ AtHome(g) \in Nat
        /\ OnNeutral(f) \in Nat /\ OnNeutral(HomeEdge) \in Nat
    BY <1>1, <2>1, MoreGoals
  <2>3. OnNeutral(f) <= AtHome(g)
    BY <1>4, <2>2
  <2>4. QED
    BY <1>5, <2>3
<1>6. CASE ~(g + HomeEdge >= 0)
  <2>1. g <= l /\ HomeEdge <= f
    BY <1>1, <1>3, <1>6
  <2>2. /\ AtHome(g) <= AtHome(l) /\ OnNeutral(HomeEdge) <= OnNeutral(f)
        /\ AtHome(l) \in Nat /\ AtHome(g) \in Nat
        /\ OnNeutral(f) \in Nat /\ OnNeutral(HomeEdge) \in Nat
    BY <1>1, <2>1, MoreGoals
  <2>3. AtHome(g) <= OnNeutral(f)
    BY <1>4, <2>2
  <2>4. QED
    BY <1>6, <2>3
<1>7. QED
  BY <1>5, <1>6

\* A score that is not level is the winner's, on neutral ground the stronger side's.
LEMMA ScoreFacts ==
    ASSUME NEW h \in Int, NEW a \in Int, NEW neutral \in BOOLEAN, neutral \/ HomeEdgeFits,
           NEW s, s = Scoreline(h, a, neutral)
    PROVE  /\ s.goals[1] # s.goals[2] => (s.goals[1] > s.goals[2]) = (s.winner = "home")
           /\ neutral /\ h # a => (h > a) = (s.winner = "home")
<1>1. HomeEdge \in Nat
  BY SignalsAssumption, Zenon
<1>2. PICK g \in Int : g = h - a
  OBVIOUS
<1>3. PICK f \in Int : f = a - h
  OBVIOUS
<1>4. PICK one \in Nat : one = (IF neutral THEN OnNeutral(g) ELSE AtHome(g))
  <2>1. OnNeutral(g) \in Nat /\ AtHome(g) \in Nat
    BY MoreGoals
  <2>2. QED
    BY <2>1
<1>5. PICK two \in Nat : two = OnNeutral(f)
  BY MoreGoals
<1>6. PICK edge \in Nat : edge = IF neutral THEN 0 ELSE HomeEdge
  BY <1>1
<1>7. /\ s.goals[1] = one /\ s.goals[2] = two
      /\ s.winner = IF g + edge >= 0 THEN "home" ELSE "away"
  <2>1. /\ s.goals[1] = Goals(h - a, neutral) /\ s.goals[2] = Goals(a - h, TRUE)
        /\ s.winner = IF h - a + (IF neutral THEN 0 ELSE HomeEdge) >= 0 THEN "home" ELSE "away"
    BY DEF Scoreline
  <2>2. s.goals[1] = one
    BY <1>2, <1>4, <2>1 DEF OnNeutral, AtHome
  <2>3. s.goals[2] = two
    BY <1>3, <1>5, <2>1 DEF OnNeutral
  <2>4. QED
    BY <1>2, <1>6, <2>1, <2>2, <2>3
<1>8. f = 0 - g
  BY <1>2, <1>3
<1>9. IF g + edge >= 0 THEN two <= one ELSE one <= two
  <2>1. CASE neutral
    <3>1. g + edge = g
      BY <1>6, <2>1
    <3>2. CASE g >= 0
      <4>1. f <= g
        BY <1>8, <3>2
      <4>2. two <= one
        BY <1>4, <1>5, <2>1, <4>1, MoreGoals
      <4>3. QED
        BY <3>1, <3>2, <4>2
    <3>3. CASE ~(g >= 0)
      <4>1. g <= f
        BY <1>8, <3>3
      <4>2. one <= two
        BY <1>4, <1>5, <2>1, <4>1, MoreGoals
      <4>3. QED
        BY <3>1, <3>3, <4>2
    <3>4. QED
      BY <3>2, <3>3
  <2>2. CASE ~neutral
    <3>1. edge = HomeEdge /\ one = AtHome(g)
      BY <1>4, <1>6, <2>2
    <3>2. QED
      BY <1>5, <1>8, <2>2, <3>1, GoalsFollow
  <2>3. QED
    BY <2>1, <2>2
<1>10. neutral => g + edge = g
  BY <1>6
<1>11. CASE g + edge >= 0
  <2>1. s.winner = "home" /\ two <= one
    BY <1>7, <1>9, <1>11
  <2>2. s.goals[1] # s.goals[2] => s.goals[1] > s.goals[2]
    BY <1>7, <2>1
  <2>3. neutral /\ h # a => h > a
    BY <1>2, <1>10, <1>11
  <2>4. QED
    BY <2>1, <2>2, <2>3
<1>12. CASE ~(g + edge >= 0)
  <2>1. s.winner = "away" /\ one <= two
    BY <1>7, <1>9, <1>12
  <2>2. ~(s.goals[1] > s.goals[2])
    BY <1>7, <2>1
  <2>3. neutral => ~(h > a)
    BY <1>2, <1>10, <1>12
  <2>4. s.winner # "home"
    BY <2>1
  <2>5. QED
    BY <2>2, <2>3, <2>4
<1>13. QED
  BY <1>11, <1>12

LineOk(l) ==
    /\ l.score.goals[1] # l.score.goals[2] =>
           (l.score.goals[1] > l.score.goals[2]) = (l.score.winner = "home")
    /\ domain = "worldcup" /\ Strength(l.home) # Strength(l.away) =>
           (Strength(l.home) > Strength(l.away)) = (l.score.winner = "home")

Named(e) == e.home \in DOMAIN Names /\ e.away \in DOMAIN Names \cup {None}

\* The sides of a line have strengths, in the World Cup those of the seed.
LEMMA LineSides ==
    ASSUME Types, NEW e, Named(e), NEW m, m = MatchupOf(e, View), m # None, m.away # None
    PROVE  /\ domain # "other"
           /\ m.home.strength \in Int /\ m.away.strength \in Int
           /\ domain = "worldcup" => /\ m.home.strength = Strength(m.home.team)
                                     /\ m.away.strength = Strength(m.away.team)
<1> DEFINE n == View["matches"]
           seed(name) == IF Seeded(name) = None THEN None ELSE SeedMetrics(Seeded(name), n)
<1>1. CASE domain = "worldcup"
  <2>1. m = Matchup(seed(e.home), seed(e.away))
    BY <1>1 DEF MatchupOf
  <2>2. Seeded(None) = None
    BY DEF Seeded
  <2>3. ASSUME NEW name \in {e.home, e.away}, seed(name) # None
        PROVE  seed(name).strength \in Int /\ seed(name).strength = Strength(seed(name).team)
    <3>1. Seeded(name) # None /\ seed(name) = SeedMetrics(Seeded(name), n)
      BY <2>3
    <3>2. Seeded(name) \in Teams
      BY <2>2, <3>1, SeededType DEF Named
    <3>3. n \in Nat \cup {None}
      BY ViewType
    <3>4. QED
      BY <3>1, <3>2, <3>3, SeedMetricsType, StrengthType
  <2> HIDE DEF seed
  <2>4. /\ seed(e.home) # None /\ seed(e.away) # None
        /\ m.home = seed(e.home) /\ m.away = seed(e.away)
    BY <2>1 DEF Matchup
  <2>5. QED
    BY <1>1, <2>3, <2>4
<1>2. CASE domain # "worldcup"
  <2>1. /\ domain # "other" /\ None \notin {View["table"], View["matches"]}
        /\ m = Matchup(TableMetrics(e.home, View), TableMetrics(e.away, View))
    BY <1>2 DEF MatchupOf
  <2>2. View["table"] \in Nat
    BY <2>1, ViewType
  <2>3. ASSUME NEW name, TableMetrics(name, View) # None
        PROVE  TableMetrics(name, View).strength \in Int
    <3>1. Played(InTable(name, View["table"]), View["table"]) # {}
      BY <2>3 DEF TableMetrics
    <3>2. TableMetrics(name, View).strength =
              Thousandths(TablePoints(InTable(name, View["table"]), View["table"]),
                          3 * Cardinality(Played(InTable(name, View["table"]), View["table"])))
      BY <2>3 DEF TableMetrics
    <3>3. QED
      BY <2>2, <3>1, <3>2, ShareTypes
  <2>4. /\ TableMetrics(e.home, View) # None /\ TableMetrics(e.away, View) # None
        /\ m.home = TableMetrics(e.home, View) /\ m.away = TableMetrics(e.away, View)
    BY <2>1 DEF Matchup
  <2>5. QED
    BY <1>2, <2>1, <2>3, <2>4
<1>3. QED
  BY <1>1, <1>2

LEMMA LineFacts ==
    ASSUME Types, domain \in Domains, "sports" \notin Domains \/ HomeEdgeFits,
           NEW e, Named(e), NEW l, l = LineOf(MatchupOf(e, View)), l # None
    PROVE  LineOk(l)
<1> DEFINE m == MatchupOf(e, View)
           s == Scoreline(m.home.strength, m.away.strength, domain = "worldcup")
<1>1. /\ m # None /\ m.away # None
      /\ l = [home |-> m.home.team, away |-> m.away.team, score |-> s]
  BY DEF LineOf
<1>2. /\ domain # "other"
      /\ m.home.strength \in Int /\ m.away.strength \in Int
      /\ domain = "worldcup" => /\ m.home.strength = Strength(m.home.team)
                                /\ m.away.strength = Strength(m.away.team)
  BY <1>1, LineSides
<1>3. domain = "worldcup" \/ HomeEdgeFits
  <2>1. Domains \subseteq {"worldcup", "sports", "other"}
    BY SignalsAssumption, Zenon
  <2>2. QED
    BY <1>2, <2>1
<1> HIDE DEF m
<1>4. PICK neutral \in BOOLEAN : neutral = (domain = "worldcup")
  OBVIOUS
<1>5. /\ s.goals[1] # s.goals[2] => (s.goals[1] > s.goals[2]) = (s.winner = "home")
      /\ neutral /\ m.home.strength # m.away.strength =>
             (m.home.strength > m.away.strength) = (s.winner = "home")
  <2>1. s = Scoreline(m.home.strength, m.away.strength, neutral)
    BY <1>4
  <2>2. neutral \/ HomeEdgeFits
    BY <1>3, <1>4
  <2> HIDE DEF s
  <2>3. QED
    BY <1>2, <2>1, <2>2, ScoreFacts
<1> HIDE DEF s
<1>6. l.score = s /\ l.home = m.home.team /\ l.away = m.away.team
  BY <1>1
<1>7. QED
  BY <1>2, <1>4, <1>5, <1>6 DEF LineOk
-----------------------------------------------------------------------------
(* Requests, and the lines of the predictions they become.                 *)

\* A step keeps the request's entity, and what agents have said unless one speaks.
LEMMA RequestSteps ==
    ASSUME Types, [Next]_vars, request' # None
    PROVE  \/ /\ request # None /\ request'.entity = request.entity
              /\ \/ request'.based = request.based
                 \/ \E a \in agents : \E reply \in {"none", "telling", "neutral"} : Analyse(a, reply)
           \/ /\ request = None /\ request'.based = <<>>
              /\ \E r \in Requests : request'.entity = r.entity
<1> DEFINE Kept == request # None /\ request'.entity = request.entity /\ request'.based = request.based
<1>1. request # None => DOMAIN request = RequestFields
  BY DEF Types
<1>2. ASSUME NEW still, request' = Calm(still)
      PROVE  Kept
  <2>1. request # None /\ request' = [request EXCEPT !.calm = @ /\ still]
    BY <1>2 DEF Calm
  <2>2. QED
    BY <1>1, <2>1 DEF RequestFields
<1>3. CASE \/ \E score : Finish(score)
           \/ Toggle
           \/ \E f \in Feeds : Lapse(f)
  BY <1>2, <1>3 DEF Finish, Toggle, Lapse, Disturb
<1>4. ASSUME NEW r \in Requests, Request(r)
      PROVE  request = None /\ request'.based = <<>> /\ request'.entity = r.entity
  BY <1>4 DEF Request
<1>5. ASSUME NEW a \in agents, Ask(a) \/ Store(a) \/ Fail(a)
      PROVE  Kept
  <2>1. request # None /\ \E s : request' = [request EXCEPT !.seen[a] = s]
    BY <1>5 DEF Ask, Store, Fail, Runs
  <2>2. QED
    BY <1>1, <2>1 DEF RequestFields
<1>6. ASSUME NEW a \in agents, NEW reply \in {"none", "telling", "neutral"}, Analyse(a, reply)
      PROVE  request # None /\ request'.entity = request.entity
  <2>1. request # None /\ \E b : request' = [request EXCEPT !.seen[a] = <<>>, !.based = b]
    BY <1>6 DEF Analyse, Runs
  <2>2. QED
    BY <1>1, <2>1 DEF RequestFields
<1>7. CASE Persist
  BY <1>7 DEF Persist
<1>8. CASE Ingest \/ IngestReply \/ IngestNothing \/ (\E r : Reply(r)) \/ UNCHANGED vars
  BY <1>8 DEF Ingest, IngestReply, IngestNothing, Reply, vars
<1>9. QED
  BY <1>3, <1>4, <1>5, <1>6, <1>7, <1>8 DEF Next

LEMMA RequestsNamed == \A r \in Requests : Named(r.entity)
<1>1. Requests \subseteq [entity : [home : DOMAIN Names, away : DOMAIN Names \cup {None}],
                         hint : BOOLEAN]
  BY SignalsAssumption, Zenon
<1>2. QED
  BY <1>1 DEF Named

\* What the request and the rows are, and that the lines are as they should be.
LinesInv ==
    /\ request # None => Named(request.entity)
    /\ \A k \in DOMAIN predictions :
           predictions[k].line # None => LineOk(predictions[k].line)

LEMMA PersistLines ==
    ASSUME Types, domain \in Domains, RowsInv, LinesInv, Persist,
           "sports" \notin Domains \/ HomeEdgeFits
    PROVE  LinesInv'
<1> DEFINE line == LineOf(MatchupOf(request.entity, View))
<1>1. request # None /\ request' = None /\ domain' = domain
  BY DEF Persist
<1>2. Named(request.entity)
  BY <1>1 DEF LinesInv
<1>3. line # None => LineOk(line)
  BY <1>2, LineFacts
<1>4. PICK n \in Nat :
          /\ DOMAIN predictions = 1..n /\ DOMAIN predictions' = 1..(n + 1)
          /\ \A k \in 1..n : predictions'[k] = predictions[k]
          /\ predictions'[n + 1] = [entity |-> request.entity, line |-> line, outcome |-> None]
  BY PersistRows
<1> HIDE DEF line
<1>7. predictions'[n + 1].line = line
  BY <1>4
<1>5. ASSUME NEW k \in DOMAIN predictions', predictions'[k].line # None
      PROVE  LineOk(predictions'[k].line)
  <2>1. CASE k = n + 1
    BY <1>3, <1>5, <1>7, <2>1
  <2>2. CASE k # n + 1
    <3>1. k \in DOMAIN predictions /\ predictions'[k] = predictions[k]
      BY <1>4, <2>2
    <3>2. QED
      BY <1>5, <3>1 DEF LinesInv
  <2>3. QED
    BY <2>1, <2>2
<1>6. QED
  BY <1>1, <1>5 DEF LinesInv, LineOk, Strength

LEMMA StepLines ==
    ASSUME "sports" \notin Domains \/ HomeEdgeFits,
           Types, domain \in Domains, RowsInv, LinesInv, [Next]_vars
    PROVE  LinesInv'
<1>1. domain' = domain
  BY DEF Next, vars, Finish, Toggle, Lapse, Disturb, Request, Ask, Reply, Store, Fail, Analyse, Persist,
         Ingest, IngestReply, IngestNothing
<1>2. request' # None => Named(request'.entity)
  BY RequestsNamed, RequestSteps DEF LinesInv
<1>3. CASE Persist
  BY <1>3, PersistLines
<1>4. CASE predictions' = predictions
  BY <1>1, <1>2, <1>4 DEF LinesInv, LineOk
<1>5. ASSUME NEW n, predictions' = Ingested(n)
      PROVE  LinesInv'
  <2>1. /\ DOMAIN predictions' = DOMAIN predictions
        /\ \A k \in DOMAIN predictions : predictions'[k].line = predictions[k].line
    BY <1>5, IngestedRows
  <2>2. QED
    BY <1>1, <1>2, <2>1 DEF LinesInv, LineOk
<1>6. QED
  BY <1>3, <1>4, <1>5
     DEF Next, vars, Finish, Toggle, Lapse, Disturb, Request, Ask, Reply, Store, Fail, Analyse, Ingest,
         IngestReply, IngestNothing

\* _scoreline_for and predict_scoreline: the favourite of a World Cup match advances,
\* whichever side is named first, and a score that is not level is the winner's; the
\* latter in a league too, where the score model is level at the worth of the home ground.
THEOREM FavouritesAdvance ==
    ASSUME "sports" \notin Domains \/ HomeEdgeFits
    PROVE  Spec => []FavouriteAdvances
<1>1. Init => LinesInv
  BY DEF Init, LinesInv
<1>2. Inv /\ domain \in Domains /\ RowsInv /\ LinesInv /\ [Next]_vars => LinesInv'
  BY StepLines DEF Inv
<1>3. Init => RowsInv
  BY DEF Init, RowsInv
<1>4. LinesInv => FavouriteAdvances
  BY DEF LinesInv, LineOk, FavouriteAdvances
<1>5. QED
  BY Invariant, DomainStays, StepRows, <1>1, <1>2, <1>3, <1>4, PTL DEF Spec
-----------------------------------------------------------------------------
(* What the agents rest on.                                                *)

\* A version of a feed is one of those there have been, up to k.
Version(n, k) == n = None \/ n \in 0..k

Versions(seen, k) == DOMAIN seen \subseteq Feeds /\ \A f \in DOMAIN seen : Version(seen[f], k)

VersionsInv ==
    /\ \A f \in Feeds : Version(entries[f], Len(results))
    /\ request # None =>
           /\ \A a \in agents : Versions(request.seen[a], Len(results))
           /\ \A b \in DOMAIN request.based :
                  Version(request.based[b].view["matches"], Len(results))

\* Replies are versions too, and only the World Cup has a pass.
RepliesInv ==
    /\ Len(results) <= Len(Fixtures)
    /\ \A r \in DOMAIN asking : Version(asking[r].reply, Len(results))
    /\ Pass \in DOMAIN asking => domain = "worldcup"

\* Matches that have been played stay as they were.
Grows ==
    /\ Len(results) <= Len(results') /\ Len(results') \in Nat
    /\ \A i \in 1..Len(results) : results'[i] = results[i]

LEMMA ResultsGrow == Types /\ [Next]_vars => Grows
<1> SUFFICES ASSUME Types, [Next]_vars PROVE Grows
  OBVIOUS
<1>1. results \in Seq(Nat \X Nat) /\ Len(results) \in Nat
  BY DEF Types
<1>2. ASSUME NEW score, Finish(score)
      PROVE  Grows
  BY <1>1, <1>2, AppendProperties DEF Finish, Grows
<1>3. CASE results' = results
  BY <1>1, <1>3 DEF Grows
<1>4. QED
  BY <1>2, <1>3
     DEF Next, vars, Toggle, Lapse, Disturb, Request, Ask, Reply, Store, Fail, Analyse, Persist, Ingest,
         IngestReply, IngestNothing

LEMMA VersionsStay ==
    ASSUME Types, Grows
    PROVE  /\ \A n : Version(n, Len(results)) => Version(n, Len(results'))
           /\ \A seen : Versions(seen, Len(results)) => Versions(seen, Len(results'))
<1>1. Len(results) \in Nat
  BY DEF Types
<1>2. \A n : Version(n, Len(results)) => Version(n, Len(results'))
  BY <1>1 DEF Version, Grows
<1>3. QED
  BY <1>2 DEF Versions

LEMMA FilledVersions ==
    ASSUME VersionsInv, NEW seen, Versions(seen, Len(results))
    PROVE  \A f \in Feeds : Version(Filled(seen)[f], Len(results))
BY DEF VersionsInv, Versions, Filled, Cached, Version

LEMMA InitReplies == Init => RepliesInv
<1>1. Fixtures \in Seq({pair \in Teams \X Teams : pair[1] # pair[2]})
  BY SignalsAssumption, Zenon
<1>2. Len(Fixtures) \in Nat
  BY <1>1
<1>3. QED
  BY <1>2 DEF Init, RepliesInv

LEMMA StepReplies == Inv /\ RepliesInv /\ [Next]_vars => RepliesInv'
<1> SUFFICES ASSUME Inv, RepliesInv, [Next]_vars PROVE RepliesInv'
  OBVIOUS
<1>1. Types /\ Grows /\ Len(results) \in Nat /\ domain' = domain
  <2>1. Types /\ Grows
    BY ResultsGrow DEF Inv
  <2>2. domain' = domain
    BY DEF Next, vars, Finish, Toggle, Lapse, Disturb, Request, Ask, Reply, Store, Fail, Analyse,
           Persist, Ingest, IngestReply, IngestNothing
  <2>3. QED
    BY <2>1, <2>2 DEF Types
<1>2. Len(Fixtures) \in Nat
  <2>1. Fixtures \in Seq({pair \in Teams \X Teams : pair[1] # pair[2]})
    BY SignalsAssumption, Zenon
  <2>2. QED
    BY <2>1
<1>3. Len(results') <= Len(Fixtures)
  <2>1. ASSUME NEW score, Finish(score) PROVE Len(results') <= Len(Fixtures)
    <3>1. results' = Append(results, score) /\ Len(results) < Len(Fixtures)
      BY <2>1 DEF Finish
    <3>2. results \in Seq(Nat \X Nat)
      BY <1>1 DEF Types
    <3>3. score \in Nat \X Nat
      BY <1>1, <2>1, <3>1, ScoreType DEF Finish
    <3>4. Len(results') = Len(results) + 1
      BY <3>1, <3>2, <3>3
    <3>5. QED
      BY <1>1, <1>2, <3>1, <3>4
  <2>2. CASE results' = results
    BY <2>2 DEF RepliesInv
  <2>3. QED
    BY <2>1, <2>2
       DEF Next, vars, Toggle, Lapse, Disturb, Request, Ask, Reply, Store, Fail, Analyse, Persist,
           Ingest, IngestReply, IngestNothing
<1>4. ASSUME \A r \in DOMAIN asking' : Version(asking'[r].reply, Len(results)),
             Pass \in DOMAIN asking' => domain = "worldcup"
      PROVE  RepliesInv'
  <2>1. \A r \in DOMAIN asking' : Version(asking'[r].reply, Len(results'))
    BY <1>1, <1>4, VersionsStay
  <2>2. QED
    BY <1>1, <1>3, <1>4, <2>1 DEF RepliesInv
<1>5. CASE asking' = asking
  BY <1>4, <1>5 DEF RepliesInv
<1>6. ASSUME NEW a, NEW f, Asks(a, f), a = Pass => domain = "worldcup"
      PROVE  RepliesInv'
  <2>1. \A r \in DOMAIN asking' :
            \/ r = a /\ asking'[r] = [feed |-> f, reply |-> None]
            \/ r \in DOMAIN asking /\ asking'[r] = asking[r]
    BY <1>6 DEF Asks
  <2>2. \A r \in DOMAIN asking' : Version(asking'[r].reply, Len(results))
    BY <2>1 DEF RepliesInv, Version
  <2>3. QED
    BY <1>4, <1>6, <2>1, <2>2 DEF RepliesInv
<1>7. ASSUME NEW r, Asked(r)
      PROVE  RepliesInv'
  <2>1. \A q \in DOMAIN asking' : q \in DOMAIN asking /\ asking'[q] = asking[q]
    BY <1>7 DEF Asked
  <2>2. QED
    BY <1>4, <2>1 DEF RepliesInv
<1>8. ASSUME NEW r, Reply(r)
      PROVE  RepliesInv'
  <2>1. r \in DOMAIN asking /\ asking' = [asking EXCEPT ![r].reply = Len(results)]
    BY <1>8 DEF Reply
  <2>2. asking[r] \in [feed : Wanted, reply : Nat \cup {None}]
    BY <1>1, <2>1 DEF Types
  <2>3. asking'[r] = [asking[r] EXCEPT !.reply = Len(results)]
    BY <2>1
  <2>4. asking'[r].reply = Len(results)
    BY <2>2, <2>3
  <2>5. DOMAIN asking' = DOMAIN asking /\ \A q \in DOMAIN asking : q # r => asking'[q] = asking[q]
    BY <2>1
  <2>6. \A q \in DOMAIN asking' : Version(asking'[q].reply, Len(results))
    BY <1>1, <2>4, <2>5 DEF RepliesInv, Version
  <2>7. QED
    BY <1>4, <2>5, <2>6 DEF RepliesInv
<1>9. ASSUME NEW a \in agents, Ask(a)
      PROVE  RepliesInv'
  <2>1. a # Pass
    BY <1>1 DEF Types, Analytical, Pass
  <2>2. \E f : Asks(a, f)
    BY <1>9 DEF Ask
  <2>3. QED
    BY <1>6, <2>1, <2>2
<1>10. CASE Ingest
  BY <1>5, <1>6, <1>10 DEF Ingest
<1>11. QED
  BY <1>5, <1>7, <1>8, <1>9, <1>10
     DEF Next, vars, Finish, Toggle, Lapse, Disturb, Request, Store, Stored, Fail, Unanswered,
         Analyse, Persist, IngestReply, IngestNothing

\* What a step puts in the cache, or lets agents see, are versions.
LEMMA StepVersions == Inv /\ RepliesInv /\ VersionsInv /\ [Next]_vars => VersionsInv'
<1> SUFFICES ASSUME Inv, RepliesInv, VersionsInv, [Next]_vars PROVE VersionsInv'
  OBVIOUS
<1>1. Types /\ Grows
  BY ResultsGrow DEF Inv
<1>2. /\ Len(results) \in Nat /\ entries \in [Feeds -> Nat \cup {None}]
      /\ request # None => DOMAIN request = RequestFields /\ DOMAIN request.seen = agents
      /\ agents' = agents
  <2>1. agents' = agents
    BY DEF Next, vars, Finish, Toggle, Lapse, Disturb, Request, Ask, Reply, Store, Fail, Analyse, Persist,
           Ingest, IngestReply, IngestNothing
  <2>2. QED
    BY <1>1, <2>1 DEF Types
<1>3. Version(Len(results), Len(results)) /\ Version(None, Len(results))
  BY <1>2 DEF Version
<1> DEFINE EntriesOk == \A f \in Feeds : Version(entries'[f], Len(results))
           SeenKept == request'.seen = request.seen
           BasedKept == request'.based = request.based
<1>4. ASSUME EntriesOk,
             request' # None =>
                 /\ \A a \in agents : Versions(request'.seen[a], Len(results))
                 /\ \A b \in DOMAIN request'.based : Version(request'.based[b].view["matches"], Len(results))
      PROVE  VersionsInv'
  <2>1. \A f \in Feeds : Version(entries'[f], Len(results'))
    BY <1>1, <1>4, VersionsStay
  <2>2. request' # None =>
            /\ \A a \in agents : Versions(request'.seen[a], Len(results'))
            /\ \A b \in DOMAIN request'.based :
                   Version(request'.based[b].view["matches"], Len(results'))
    BY <1>1, <1>4, VersionsStay
  <2>3. QED
    BY <1>2, <2>1, <2>2 DEF VersionsInv
<1>5. ASSUME EntriesOk, request' # None => request # None /\ SeenKept /\ BasedKept
      PROVE  VersionsInv'
  BY <1>4, <1>5 DEF VersionsInv
<1>6. ASSUME NEW still, request' = Calm(still)
      PROVE  request' # None => request # None /\ SeenKept /\ BasedKept
  <2>1. SUFFICES ASSUME request # None
                 PROVE  SeenKept /\ BasedKept
    BY <1>6 DEF Calm
  <2>2. request' = [request EXCEPT !.calm = @ /\ still]
    BY <1>6, <2>1 DEF Calm
  <2>3. QED
    BY <1>2, <2>1, <2>2 DEF RequestFields
<1>7. ASSUME entries' = entries PROVE EntriesOk
  BY <1>7 DEF VersionsInv
<1>8. ASSUME NEW r, Stored(r) PROVE EntriesOk
  BY <1>2, <1>8 DEF Stored, VersionsInv, RepliesInv
<1>9. ASSUME NEW score, Finish(score) PROVE VersionsInv'
  <2>1. entries' = entries /\ request' = Calm(~Overtaken)
    BY <1>9 DEF Finish
  <2>2. QED
    BY <1>5, <1>6, <1>7, <2>1
<1>10. CASE Toggle
  <2>1. entries' = entries /\ request' = Calm(FALSE)
    BY <1>10 DEF Toggle, Disturb
  <2>2. QED
    BY <1>5, <1>6, <1>7, <2>1
<1>11. ASSUME NEW f \in Feeds, Lapse(f) PROVE VersionsInv'
  <2>1. entries' = [entries EXCEPT ![f] = None] /\ request' = Calm(FALSE)
    BY <1>11 DEF Lapse, Disturb
  <2>2. EntriesOk
    BY <1>2, <1>3, <2>1 DEF VersionsInv
  <2>3. QED
    BY <1>5, <1>6, <2>1, <2>2
<1>12. ASSUME NEW r \in Requests, Request(r) PROVE VersionsInv'
  <2>1. /\ entries' = entries
        /\ request'.seen = [a \in agents |-> <<>>] /\ request'.based = <<>>
    BY <1>12 DEF Request
  <2>2. Versions(<<>>, Len(results))
    BY DEF Versions
  <2>3. QED
    BY <1>4, <1>7, <2>1, <2>2
<1>13. ASSUME NEW a \in agents, NEW s, Versions(s, Len(results)), EntriesOk, request # None,
              request' = [request EXCEPT !.seen[a] = s]
       PROVE  VersionsInv'
  <2>1. BasedKept /\ request'.seen = [request.seen EXCEPT ![a] = s]
    BY <1>1, <1>13, SetSeen
  <2>2. \A b \in agents : Versions(request'.seen[b], Len(results))
    BY <1>2, <1>13, <2>1 DEF VersionsInv
  <2>3. QED
    BY <1>4, <1>13, <2>1, <2>2 DEF VersionsInv
<1>14. ASSUME NEW a \in agents, Ask(a) PROVE VersionsInv'
  <2> DEFINE seen == request.seen[a]
             f == FirstOf(Missing(seen))
             found == IF f = "matches" THEN Wanted \ {f} ELSE {}
             filled == [g \in DOMAIN seen \cup found |-> Filled(seen)[g]]
  <2>1. request # None /\ request' = [request EXCEPT !.seen[a] = filled] /\ entries' = entries
    BY <1>14 DEF Ask, Runs
  <2>2. Versions(seen, Len(results))
    BY <2>1 DEF VersionsInv
  <2>3. \A g \in Feeds : Version(Filled(seen)[g], Len(results))
    BY <2>2, FilledVersions
  <2>4. DOMAIN seen \cup found \subseteq Feeds
    BY <2>2, WantedFeeds DEF Versions
  <2> HIDE DEF seen, found
  <2>5. Versions(filled, Len(results))
    BY <2>3, <2>4 DEF Versions
  <2> HIDE DEF filled
  <2>6. QED
    BY <1>7, <1>13, <2>1, <2>5
<1>15. ASSUME NEW a \in agents, Store(a) PROVE VersionsInv'
  <2> DEFINE seen == request.seen[a]
             f == asking[a].feed
             new == [g \in DOMAIN seen \cup {f} |->
                        IF g = f THEN asking[a].reply ELSE seen[g]]
  <2>1. /\ request # None /\ a \in DOMAIN asking /\ Stored(a)
        /\ request' = [request EXCEPT !.seen[a] = new]
    BY <1>15 DEF Store, Stored
  <2>2. Versions(seen, Len(results)) /\ f \in Feeds
    BY <1>1, <2>1, WantedFeeds DEF VersionsInv, Types
  <2>3. Version(asking[a].reply, Len(results))
    BY <2>1 DEF RepliesInv
  <2>4. Versions(new, Len(results))
    <3> HIDE DEF seen, f
    <3> QED BY <2>2, <2>3 DEF Versions
  <2> HIDE DEF new
  <2>5. QED
    BY <1>8, <1>13, <2>1, <2>4
<1>21. ASSUME NEW a \in agents, Fail(a) PROVE VersionsInv'
  <2>1. /\ request # None /\ entries' = entries
        /\ request' = [request EXCEPT !.seen[a] = [f \in Wanted |-> None]]
    BY <1>21 DEF Fail
  <2>2. Versions([f \in Wanted |-> None], Len(results))
    BY <1>3, WantedFeeds DEF Versions
  <2>3. QED
    BY <1>7, <1>13, <2>1, <2>2
<1>16. ASSUME NEW a \in agents, NEW reply \in {"none", "telling", "neutral"}, Analyse(a, reply)
       PROVE  VersionsInv'
  <2> DEFINE view == Filled(request.seen[a])
             analysed == [view |-> view, basis |->
                          Basis(a, MatchupOf(request.entity, view), request.hint, reply)]
             based == [b \in DOMAIN request.based \cup {a} |->
                          IF b = a THEN analysed ELSE request.based[b]]
  <2>1. /\ request # None /\ entries' = entries
        /\ request' = [request EXCEPT !.seen[a] = <<>>, !.based = based]
    BY <1>16 DEF Analyse, Runs
  <2>2. Version(view["matches"], Len(results))
    BY <2>1, FilledVersions DEF VersionsInv, Feeds
  <2>3. analysed.view = view
    OBVIOUS
  <2> HIDE DEF analysed, view
  <2>4. \A b \in DOMAIN based : Version(based[b].view["matches"], Len(results))
    BY <2>1, <2>2, <2>3 DEF VersionsInv
  <2> HIDE DEF based
  <2>5. request'.based = based /\ request'.seen = [request.seen EXCEPT ![a] = <<>>]
    BY <1>2, <2>1 DEF RequestFields
  <2>6. Versions(<<>>, Len(results))
    BY DEF Versions
  <2>7. \A b \in agents : Versions(request'.seen[b], Len(results))
    BY <1>2, <2>1, <2>5, <2>6 DEF VersionsInv
  <2>8. QED
    BY <1>4, <1>7, <2>1, <2>4, <2>5, <2>7
<1>17. CASE Persist
  <2>1. /\ request' = None
        /\ entries' = [f \in Feeds |-> IF f \in Wanted THEN View[f] ELSE entries[f]]
    BY <1>17 DEF Persist
  <2>2. \A f \in Wanted : Version(View[f], Len(results))
    BY <1>2, <1>3, WantedFeeds DEF View, Filled, VersionsInv
  <2>3. EntriesOk
    BY <2>1, <2>2 DEF VersionsInv
  <2>4. QED
    BY <1>5, <2>1, <2>3
<1>18. CASE Ingest \/ IngestReply \/ IngestNothing \/ \E r : Reply(r)
  <2>1. request' = request /\ EntriesOk
    BY <1>7, <1>8, <1>18 DEF Ingest, IngestReply, IngestNothing, Reply
  <2>2. QED
    BY <1>5, <2>1
<1>19. CASE UNCHANGED vars
  <2>1. request' = request /\ entries' = entries
    BY <1>19 DEF vars
  <2>2. QED
    BY <1>5, <1>7, <2>1
<1>20. QED
  BY <1>9, <1>10, <1>11, <1>12, <1>14, <1>15, <1>16, <1>17, <1>18, <1>19, <1>21 DEF Next

\* What a version of the feed says of a team's form does not change.
LEMMA FormStays ==
    ASSUME Types, Grows, NEW t, NEW n \in 0..Len(results)
    PROVE  Momentum(t, n)' = Momentum(t, n)
<1>1. n \in Nat /\ n <= Len(results) /\ Len(results) \in Nat
  BY DEF Types
<1>2. \A i \in 1..n : results'[i] = results[i]
  BY <1>1 DEF Grows
<1>3. \A i \in 1..n : Points(t, i)' = Points(t, i)
  BY <1>2 DEF Points, Margin
<1>4. Form(t, n)' = Form(t, n) /\ Form(t, n) \subseteq 1..n
  BY DEF Form, Played
<1> DEFINE form == Form(t, n)
           weight == [i \in form |-> Cardinality({j \in form : j <= i})]
<1>5. [i \in form |-> weight[i] * Points(t, i)'] = [i \in form |-> weight[i] * Points(t, i)]
  BY <1>3, <1>4
<1>6. QED
  BY <1>4, <1>5 DEF Momentum

LEMMA NoMomentumStays ==
    ASSUME Types, Grows, NEW name, NEW n, Version(n, Len(results)), NoMomentum(name, n)
    PROVE  NoMomentum(name, n)'
<1>1. n # None /\ n \in 0..Len(results)
  BY DEF NoMomentum, Version
<1>2. Momentum(Seeded(name), n)' = Momentum(Seeded(name), n)
  BY <1>1, FormStays
<1>3. QED
  BY <1>1, <1>2 DEF NoMomentum

\* Both sides of a World Cup match that are known have a matchup.
LEMMA KnownMatchup ==
    ASSUME domain = "worldcup", NEW e, Named(e), None \notin {Seeded(e.home), Seeded(e.away)},
           NEW view, view["matches"] \in Nat \cup {None}, NEW m, m = MatchupOf(e, view)
    PROVE  /\ m # None /\ m.away # None
           /\ m.home.team = Seeded(e.home) /\ m.away.team = Seeded(e.away)
           /\ m.momentum = None =>
                  NoMomentum(e.home, view["matches"]) \/ NoMomentum(e.away, view["matches"])
<1> DEFINE n == view["matches"]
           h == SeedMetrics(Seeded(e.home), n)
           a == SeedMetrics(Seeded(e.away), n)
<1>1. Seeded(None) = None
  BY DEF Seeded
<1>2. Seeded(e.home) \in Teams /\ Seeded(e.away) \in Teams
  BY <1>1, SeededType DEF Named
<1>3. m = Matchup(h, a)
  BY DEF MatchupOf
<1>4. /\ h \in TeamMetrics /\ a \in TeamMetrics
      /\ h.team = Seeded(e.home) /\ a.team = Seeded(e.away)
      /\ h.momentum # None /\ h.momentum = 0 => NoMomentum(e.home, n)
      /\ a.momentum # None /\ a.momentum = 0 => NoMomentum(e.away, n)
  BY <1>2, SeedMetricsType DEF NoMomentum
<1> HIDE DEF h, a, n
<1>5. /\ h # None /\ a # None /\ None \notin Int /\ None \notin MatchupMetrics
      /\ h.win \in Int /\ a.win \in Int /\ h.strength \in Int /\ a.strength \in Int
      /\ h.momentum \in Int \cup {None} /\ a.momentum \in Int \cup {None}
  BY <1>4, NoMetrics, Constants DEF TeamMetrics
<1>6. m = [home |-> h, away |-> a, win |-> Relative(h.win, a.win),
           strength |-> Relative(h.strength, a.strength), momentum |-> RelMomentum(h, a)]
  BY <1>3, <1>5 DEF Matchup
<1>7. \A x, y \in Int : Relative(x, y) \in Int
  BY RelativeFacts
<1>8. RelMomentum(h, a) \in Int \cup {None}
  <2>1. CASE {h.momentum, a.momentum} \cap {None, 0} # {}
    BY <2>1 DEF RelMomentum
  <2>2. CASE {h.momentum, a.momentum} \cap {None, 0} = {}
    BY <1>5, <1>7, <2>2 DEF RelMomentum
  <2>3. QED
    BY <2>1, <2>2
<1>9. m \in MatchupMetrics
  BY <1>4, <1>5, <1>6, <1>7, <1>8 DEF MatchupMetrics
<1>10. ASSUME m.momentum = None PROVE NoMomentum(e.home, n) \/ NoMomentum(e.away, n)
  <2>1. RelMomentum(h, a) = None
    BY <1>6, <1>10
  <2>2. {h.momentum, a.momentum} \cap {None, 0} # {}
    BY <1>5, <1>7, <2>1 DEF RelMomentum
  <2>3. QED
    BY <1>4, <2>2
<1>11. QED
  BY <1>4, <1>5, <1>6, <1>9, <1>10 DEF n

-----------------------------------------------------------------------------
(* Outcomes.                                                               *)

\* The line of two names that are known is about their teams, and an outcome is a match
\* of the pair as it was written.
RowOk(d, p) ==
    /\ d = "worldcup" /\ None \notin {Seeded(p.entity.home), Seeded(p.entity.away)} =>
           p.line.home = Seeded(p.entity.home) /\ p.line.away = Seeded(p.entity.away)
    /\ p.outcome # None =>
           /\ d = "worldcup" /\ p.outcome \in DOMAIN Fixtures
           /\ Fixtures[p.outcome] = <<p.entity.home, p.entity.away>>

OutcomesInv ==
    /\ request # None => Named(request.entity)
    /\ \A k \in DOMAIN predictions : RowOk(domain, predictions[k])

\* A pair of teams is written as the fixtures write it.
LEMMA FixtureTeams ==
    /\ Len(Fixtures) \in Nat /\ DOMAIN Fixtures = 1..Len(Fixtures)
    /\ \A i \in DOMAIN Fixtures : Fixtures[i] \in Teams \X Teams
<1>1. Fixtures \in Seq({pair \in Teams \X Teams : pair[1] # pair[2]})
  BY SignalsAssumption, Zenon
<1>2. QED
  BY <1>1

LEMMA OutcomesFollow == OutcomesInv => OutcomeOfTheLine
<1>1. SUFFICES ASSUME OutcomesInv, NEW k \in DOMAIN predictions, NEW p, p = predictions[k],
                      p.outcome # None
               PROVE  Fixtures[p.outcome] = <<p.line.home, p.line.away>>
  BY DEF OutcomeOfTheLine
<1>2. RowOk(domain, p)
  BY <1>1 DEF OutcomesInv
<1>3. /\ domain = "worldcup" /\ p.outcome \in DOMAIN Fixtures
      /\ Fixtures[p.outcome] = <<p.entity.home, p.entity.away>>
  BY <1>1, <1>2 DEF RowOk
<1>4. p.entity.home \in Teams /\ p.entity.away \in Teams
  BY <1>3, FixtureTeams
<1>5. Seeded(p.entity.home) = p.entity.home /\ Seeded(p.entity.away) = p.entity.away
  BY <1>4, SeededTeam
<1>6. None \notin Teams
  BY SignalsAssumption
<1>7. p.line.home = p.entity.home /\ p.line.away = p.entity.away
  BY <1>2, <1>3, <1>4, <1>5, <1>6 DEF RowOk
<1>8. QED
  BY <1>3, <1>7

LEMMA IngestedOutcomes ==
    ASSUME RowsInv, OutcomesInv, domain = "worldcup", UNCHANGED <<domain, request>>,
           NEW n \in 0..Len(Fixtures), predictions' = Ingested(n)
    PROVE  OutcomesInv'
<1>1. ASSUME NEW k \in DOMAIN predictions,
             predictions'[k].outcome # predictions[k].outcome
      PROVE  LET e == predictions[k].entity
             IN  /\ predictions'[k].outcome \in DOMAIN Fixtures
                 /\ Fixtures[predictions'[k].outcome] = <<e.home, e.away>>
  <2> DEFINE e == predictions[k].entity
             matches == FinishedResults(<<e.home, e.away>>, n)
  <2>1. matches # {} /\ predictions'[k].outcome = Max(matches)
    BY <1>1, IngestedRows
  <2>3. matches \in SUBSET (1..n) /\ n \in Nat
    BY FixtureTeams DEF FinishedResults
  <2>4. Max(matches) \in matches
    BY <2>1, <2>3, MaxExists
  <2>5. Max(matches) \in 1..n /\ Fixtures[Max(matches)] = <<e.home, e.away>>
    BY <2>3, <2>4 DEF FinishedResults
  <2>6. Max(matches) \in DOMAIN Fixtures
    BY <2>5, FixtureTeams
  <2>7. QED
    BY <2>1, <2>5, <2>6
<1>2. /\ DOMAIN predictions' = DOMAIN predictions
      /\ \A k \in DOMAIN predictions :
             /\ predictions'[k].entity = predictions[k].entity
             /\ predictions'[k].line = predictions[k].line
  BY IngestedRows
<1>3. ASSUME NEW k \in DOMAIN predictions
      PROVE  RowOk(domain, predictions'[k])
  <2>1. RowOk(domain, predictions[k])
    BY DEF OutcomesInv
  <2>2. QED
    BY <1>1, <1>2, <2>1 DEF RowOk
<1>4. QED
  BY <1>2, <1>3 DEF OutcomesInv, Named

LEMMA PersistOutcomes ==
    ASSUME Types, RowsInv, OutcomesInv, Persist
    PROVE  OutcomesInv'
<1> DEFINE e == request.entity
           m == MatchupOf(e, View)
<1>1. request # None /\ request' = None /\ domain' = domain /\ Named(e)
  BY DEF Persist, OutcomesInv
<1>2. ASSUME domain = "worldcup", None \notin {Seeded(e.home), Seeded(e.away)}
      PROVE  LineOf(m).home = Seeded(e.home) /\ LineOf(m).away = Seeded(e.away)
  <2>1. View["matches"] \in Nat \cup {None}
    BY ViewType
  <2>2. /\ m # None /\ m.away # None
        /\ m.home.team = Seeded(e.home) /\ m.away.team = Seeded(e.away)
    BY <1>1, <1>2, <2>1, KnownMatchup
  <2> HIDE DEF m, e
  <2>3. QED
    BY <2>2 DEF LineOf
<1>3. PICK n \in Nat :
          /\ DOMAIN predictions = 1..n /\ DOMAIN predictions' = 1..(n + 1)
          /\ \A k \in 1..n : predictions'[k] = predictions[k]
          /\ predictions'[n + 1] = [entity |-> e, line |-> LineOf(m), outcome |-> None]
  BY PersistRows
<1> HIDE DEF m, e
<1>4. /\ predictions'[n + 1].entity = e /\ predictions'[n + 1].line = LineOf(m)
      /\ predictions'[n + 1].outcome = None
  BY <1>3
<1>5. \A k \in DOMAIN predictions' : k = n + 1 \/ k \in DOMAIN predictions
  BY <1>3
<1>6. RowOk(domain, predictions'[n + 1])
  BY <1>2, <1>4 DEF RowOk
<1>7. \A k \in DOMAIN predictions : RowOk(domain, predictions'[k])
  BY <1>3 DEF OutcomesInv
<1>8. QED
  BY <1>1, <1>5, <1>6, <1>7 DEF OutcomesInv

LEMMA StepOutcomes == Inv /\ RowsInv /\ RepliesInv /\ VersionsInv /\ OutcomesInv /\ [Next]_vars
                          => OutcomesInv'
<1> SUFFICES ASSUME Inv, RowsInv, RepliesInv, VersionsInv, OutcomesInv, [Next]_vars
             PROVE  OutcomesInv'
  OBVIOUS
<1>1. domain' = domain /\ Types
  BY DEF Inv, Next, vars, Finish, Toggle, Lapse, Disturb, Request, Ask, Reply, Store, Fail, Analyse,
         Persist, Ingest, IngestReply, IngestNothing
<1>2. request' # None => Named(request'.entity)
  BY <1>1, RequestsNamed, RequestSteps DEF OutcomesInv
<1>3. CASE predictions' = predictions
  BY <1>1, <1>2, <1>3 DEF OutcomesInv
<1>4. CASE Persist
  BY <1>1, <1>4, PersistOutcomes
<1>5. Len(results) \in Nat /\ Len(results) <= Len(Fixtures) /\ Len(Fixtures) \in Nat
  BY <1>1, FixtureTeams DEF Types, RepliesInv
<1>6. CASE Ingest /\ Cached("matches") # None
  <2>1. /\ predictions' = Ingested(Cached("matches")) /\ domain = "worldcup"
        /\ UNCHANGED <<domain, request>>
    BY <1>6 DEF Ingest
  <2>2. Cached("matches") \in 0..Len(Fixtures)
    BY <1>5, <1>6 DEF Cached, VersionsInv, Version, Feeds
  <2>3. QED
    BY <2>1, <2>2, IngestedOutcomes
<1>7. CASE IngestReply
  <2>1. /\ Pass \in DOMAIN asking /\ asking[Pass].reply # None
        /\ predictions' = Ingested(asking[Pass].reply) /\ UNCHANGED <<domain, request>>
    BY <1>7 DEF IngestReply, Stored
  <2>2. asking[Pass].reply \in 0..Len(Fixtures) /\ domain = "worldcup"
    BY <1>5, <2>1 DEF RepliesInv, Version
  <2>3. QED
    BY <2>1, <2>2, IngestedOutcomes
<1>8. QED
  BY <1>3, <1>4, <1>6, <1>7
     DEF Next, vars, Finish, Toggle, Lapse, Disturb, Request, Ask, Reply, Store, Fail, Analyse, Ingest,
         IngestNothing

\* finished_results, ingest_worldcup_outcomes: a prediction is judged by a match of the
\* teams its own score line names, the sides in the same order, whatever the names of the
\* teams may be taken for, the fixtures repeat and the cache and the API do meanwhile.
THEOREM OutcomesAreTheirs == Spec => []OutcomeOfTheLine
<1>1. Init => RowsInv /\ OutcomesInv
  BY DEF Init, RowsInv, OutcomesInv
<1>2. Init => RepliesInv /\ VersionsInv
  BY InitReplies DEF Init, VersionsInv, Version
<1>3. QED
  BY Invariant, StepRows, StepReplies, StepVersions, StepOutcomes, OutcomesFollow, <1>1,
     <1>2, PTL DEF Spec

-----------------------------------------------------------------------------
(* Noise.                                                                  *)

\* In the World Cup the demo source does not speak, only real servers do.
LEMMA SnippetIsReal ==
    ASSUME domain = "worldcup", NEW reply, Snippet(reply) # None
    PROVE  Snippet(reply) \in {"sentiment", "hash"} /\ RealServer
<1> DEFINE yields == {i \in DOMAIN Sources : Yields(Sources[i], reply)}
           Kinds == [transport : {"builtin", "stdio"}, role : {"contextual", "other"}]
<1>1. DOMAIN Sources \subseteq Nat /\ \A i \in DOMAIN Sources : Sources[i] \in Kinds
  <2>1. Sources \in Seq(Kinds)
    BY SignalsAssumption, Zenon
  <2> HIDE DEF Kinds
  <2>2. DOMAIN Sources = 1..Len(Sources) /\ Len(Sources) \in Nat
    BY <2>1
  <2>3. \A i \in 1..Len(Sources) : Sources[i] \in Kinds
    BY <2>1
  <2>4. QED
    BY <2>2, <2>3
<1>2. yields \in SUBSET Nat /\ yields # {}
  BY <1>1 DEF Snippet
<1>3. \E x \in yields : \A y \in yields : x <= y
  BY <1>2, LeastNat
<1>4. Min(yields) \in yields
  BY <1>3 DEF Min
<1>5. PICK i \in DOMAIN Sources : i = Min(yields) /\ Yields(Sources[i], reply)
  BY <1>4
<1>6. Sources[i].transport # "builtin" /\ Sources[i].role = "contextual"
  BY <1>5 DEF Yields
<1>7. RealServer
  BY <1>1, <1>5, <1>6 DEF RealServer
<1>8. QED
  BY <1>2, <1>5, <1>6, <1>7 DEF Snippet

\* NoNoise of one agent's answer.
Telling(e, b, r) ==
    r.basis \in {"demo", "derived", "hash"} =>
        \/ /\ b = "trend" /\ r.basis = "derived"
           /\ NoMomentum(e.home, r.view["matches"]) \/ NoMomentum(e.away, r.view["matches"])
        \/ /\ b = "contextual" /\ r.basis = "hash" /\ RealServer
           /\ (Seeded(e.home) \in Hosts) = (Seeded(e.away) \in Hosts)

\* Unless exactly one side is a host, a source or a hint speaks, or nobody does.
LEMMA ContextualFacts ==
    ASSUME domain = "worldcup", NEW m, m # None, m.away # None, NEW hint, NEW reply
    PROVE  /\ Contextual(m, hint, reply) \notin {"demo", "derived"}
           /\ Contextual(m, hint, reply) = "hash" =>
                  RealServer /\ (m.home.team \in Hosts) = (m.away.team \in Hosts)
<1>1. CASE HostEdge(m)
  BY <1>1 DEF Contextual
<1>2. CASE ~HostEdge(m) /\ Snippet(reply) # None
  <2>1. Contextual(m, hint, reply) = Snippet(reply)
    BY <1>2 DEF Contextual
  <2>2. (m.home.team \in Hosts) = (m.away.team \in Hosts)
    BY <1>2 DEF HostEdge
  <2>3. QED
    BY <1>2, <2>1, <2>2, SnippetIsReal
<1>3. CASE ~HostEdge(m) /\ Snippet(reply) = None
  BY <1>3 DEF Contextual, Connected
<1>4. QED
  BY <1>1, <1>2, <1>3

LEMMA NoiseFacts ==
    ASSUME domain = "worldcup", NEW a \in Analytical, NEW hint, NEW reply,
           NEW e, Named(e), None \notin {Seeded(e.home), Seeded(e.away)},
           NEW r, r.view["matches"] \in Nat \cup {None},
           r.basis = Basis(a, MatchupOf(e, r.view), hint, reply)
    PROVE  Telling(e, a, r)
<1> DEFINE m == MatchupOf(e, r.view)
<1>1. /\ m # None /\ m.away # None
      /\ m.home.team = Seeded(e.home) /\ m.away.team = Seeded(e.away)
      /\ m.momentum = None =>
             NoMomentum(e.home, r.view["matches"]) \/ NoMomentum(e.away, r.view["matches"])
  BY KnownMatchup
<1>2. r.basis = Basis(a, m, hint, reply)
  OBVIOUS
<1> HIDE DEF m
<1>3. CASE a \in {"historical", "market"}
  BY <1>1, <1>2, <1>3 DEF Basis, Telling
<1>4. CASE a = "trend"
  BY <1>1, <1>2, <1>4 DEF Basis, Telling
<1>5. CASE a = "contextual"
  <2>1. r.basis = Contextual(m, hint, reply)
    BY <1>2, <1>5 DEF Basis
  <2>2. QED
    BY <1>1, <1>5, <2>1, ContextualFacts DEF Telling
<1>6. CASE a = "risk"
  BY <1>1, <1>2, <1>6 DEF Basis, Risk, Telling
<1>7. QED
  BY <1>3, <1>4, <1>5, <1>6 DEF Analytical

LEMMA AnalyseNoise ==
    ASSUME Types, domain = "worldcup", VersionsInv, NEW e, e = request.entity, Named(e),
           None \notin {Seeded(e.home), Seeded(e.away)},
           NEW a \in agents, NEW reply, Analyse(a, reply),
           NEW b \in DOMAIN request'.based
    PROVE  \/ b \in DOMAIN request.based /\ request'.based[b] = request.based[b]
           \/ Telling(e, b, request'.based[b])
<1> DEFINE view == Filled(request.seen[a])
           basis == Basis(a, MatchupOf(e, view), request.hint, reply)
           analysed == [view |-> view, basis |-> basis]
           based == [c \in DOMAIN request.based \cup {a} |->
                        IF c = a THEN analysed ELSE request.based[c]]
<1>1. request # None /\ request' = [request EXCEPT !.seen[a] = <<>>, !.based = based]
  BY DEF Analyse, Runs
<1>2. DOMAIN request = RequestFields /\ a \in Analytical /\ Len(results) \in Nat
  BY <1>1 DEF Types
<1>3. view["matches"] \in Nat \cup {None}
  <2>1. Versions(request.seen[a], Len(results))
    BY <1>1 DEF VersionsInv
  <2>2. Version(view["matches"], Len(results))
    BY <2>1, FilledVersions DEF Feeds
  <2>3. QED
    BY <1>2, <2>2 DEF Version
<1>4. analysed.view = view /\ analysed.basis = basis
  OBVIOUS
<1> HIDE DEF analysed, view
<1>5. Telling(e, a, analysed)
  BY <1>2, <1>3, <1>4, NoiseFacts
<1> HIDE DEF basis
<1>6. request'.based = based
  BY <1>1, <1>2 DEF RequestFields
<1>7. CASE b = a
  <2>1. request'.based[b] = analysed
    BY <1>6, <1>7
  <2>2. QED
    BY <1>5, <1>7, <2>1
<1>8. CASE b # a
  BY <1>6, <1>8
<1>9. QED
  BY <1>7, <1>8

LEMMA StepNoise ==
    ASSUME Inv, RepliesInv, VersionsInv, request # None => Named(request.entity), NoNoise,
           [Next]_vars
    PROVE  NoNoise'
<1>1. Types /\ domain' = domain /\ Grows /\ VersionsInv'
  BY ResultsGrow, StepVersions
     DEF Inv, Next, vars, Finish, Toggle, Lapse, Disturb, Request, Ask, Reply, Store, Fail, Analyse, Persist,
         Ingest, IngestReply, IngestNothing
<1>2. SUFFICES ASSUME request' # None, domain = "worldcup",
                      NEW e, e = request'.entity, None \notin {Seeded(e.home), Seeded(e.away)},
                      NEW b, b \in DOMAIN request'.based, NEW r, r = request'.based[b]
               PROVE  Telling(e, b, r)'
  BY <1>1 DEF NoNoise, Telling
<1>3. PICK n : n = r.view["matches"]
  OBVIOUS
<1>4. ASSUME Telling(e, b, r), Version(n, Len(results))
      PROVE  Telling(e, b, r)'
  <2>1. \A name : NoMomentum(name, n) => NoMomentum(name, n)'
    BY <1>1, <1>4, NoMomentumStays
  <2>2. QED
    BY <1>3, <1>4, <2>1 DEF Telling
<1>5. ASSUME request # None, request'.entity = request.entity,
             b \in DOMAIN request.based, request.based[b] = r
      PROVE  Telling(e, b, r)'
  <2>1. Telling(e, b, r)
    BY <1>2, <1>5 DEF NoNoise, Telling
  <2>2. Version(n, Len(results))
    BY <1>3, <1>5 DEF VersionsInv
  <2>3. QED
    BY <1>4, <2>1, <2>2
<1>6. ASSUME NEW a \in agents, NEW reply \in {"none", "telling", "neutral"}, Analyse(a, reply),
             request # None, request'.entity = request.entity
      PROVE  Telling(e, b, r)'
  <2>1. e = request.entity /\ Named(e) /\ results' = results
    BY <1>2, <1>6 DEF Analyse
  <2>2. CASE b \in DOMAIN request.based /\ request'.based[b] = request.based[b]
    BY <1>2, <1>5, <1>6, <2>2
  <2>3. CASE Telling(e, b, r)
    <3>1. Version(n, Len(results))
      BY <1>1, <1>2, <1>3, <2>1 DEF VersionsInv
    <3>2. QED
      BY <1>4, <2>3, <3>1
  <2>4. \/ b \in DOMAIN request.based /\ request'.based[b] = request.based[b]
        \/ Telling(e, b, r)
    BY <1>1, <1>2, <1>6, <2>1, AnalyseNoise DEF Telling
  <2>5. QED
    BY <2>2, <2>3, <2>4
<1>7. CASE request # None /\ request'.entity = request.entity /\ request'.based = request.based
  BY <1>2, <1>5, <1>7
<1>8. CASE request'.based = <<>>
  BY <1>2, <1>8
<1>9. QED
  BY <1>1, <1>2, <1>6, <1>7, <1>8, RequestSteps

\* BaseAgent.analyze, fetch_context, "never fed synthetic sentiment" (contextual.py):
\* once the two teams of a World Cup match are known no agent answers with noise, the
\* demo source's, a hash of the entity or a sentiment hashed from a text, but trend, for
\* a side whose momentum is 0, and contextual, where a real server's reply has no word of
\* the lexicon and not exactly one side is a host; whatever the feeds do meanwhile.
THEOREM NobodyMakesNoise == Spec => []NoNoise
<1> DEFINE EntityInv == request # None => Named(request.entity)
<1>1. Init => EntityInv /\ NoNoise
  BY DEF Init, NoNoise
<1>2. Init => VersionsInv /\ RepliesInv
  BY InitReplies DEF Init, VersionsInv, Version
<1>3. Inv /\ EntityInv /\ [Next]_vars => EntityInv'
  BY RequestsNamed, RequestSteps DEF Inv
<1>4. Inv /\ RepliesInv /\ VersionsInv /\ EntityInv /\ NoNoise /\ [Next]_vars => NoNoise'
  BY StepNoise
<1> HIDE DEF EntityInv
<1>5. QED
  BY Invariant, StepReplies, StepVersions, <1>1, <1>2, <1>3, <1>4, PTL DEF Spec
=============================================================================
