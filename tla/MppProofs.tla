----------------------------- MODULE MppProofs -----------------------------
(***************************************************************************)
(* Proofs about MppAuth and MppCron, for any number of runners, tokens,    *)
(* passes, matches, revocations and failures: the rotation of the tokens   *)
(* is never lost by the code, every match of a pass is accounted for once, *)
(* failures stay with their match, and passes that do not overlap never    *)
(* replace a forecast by an older one.                                     *)
(*                                                                         *)
(* The invariants about the rotation hold of a cache that keeps an entry   *)
(* with ttl=0, and an Auth0 that rotates at every grant.                   *)
(***************************************************************************)
EXTENDS MppAuth, MppCron, TLAPS

-----------------------------------------------------------------------------
(* The tokens: MppAuth.                                                    *)

\* Without a seed nothing is ever stored and no request gets past its load.
SeedInv ==
    seed = None => store = None /\ \A r \in Runners : pc[r] \in {"idle", "load"}

\* A runner at the exchange, not overlapped, has the newest refresh token and
\* no other runner has one to store.
SoloInv ==
    \A r \in Runners :
        (pc[r] = "exchange" /\ ~lost /\ ~overlapped[r]) =>
            held[r].refresh = live /\ Holders = {}

\* While a runner has the newest refresh token to store, neither the store nor
\* a runner at the exchange has it.
HolderInv ==
    (~lost /\ seed # None /\ Holders # {}) =>
        /\ Loaded.refresh # live
        /\ \A r \in Runners : pc[r] = "exchange" => held[r].refresh # live

\* After a 401 the tokens a runner got are not those that were rejected.
RetryInv ==
    \A r \in Runners :
        (pc[r] \in {"store", "call"} /\ rejected[r] # None) => held[r].access # rejected[r]

Durable == AlwaysRotates /\ ZeroTtlKept

LEMMA LoadedType ==
    ASSUME TypeOK, Loaded.refresh # None
    PROVE  Loaded \in Pair
<1>1. CASE store = None
  <2>1. Loaded = [access |-> None, refresh |-> seed] /\ seed # None
    BY <1>1 DEF Loaded
  <2>2. QED
    BY <2>1, AuthAssumption DEF TypeOK, Pair
<1>2. CASE store # None
  BY <1>2 DEF TypeOK, Loaded
<1>3. QED
  BY <1>1, <1>2

LEMMA InitInv == Init => TypeOK /\ SeedInv /\ ChainUnbroken /\ SoloInv /\ HolderInv /\ RetryInv
<1> SUFFICES ASSUME Init
             PROVE  TypeOK /\ SeedInv /\ ChainUnbroken /\ SoloInv /\ HolderInv /\ RetryInv
  OBVIOUS
<1> USE AuthAssumption DEF Init
<1>1. TypeOK
  BY DEF TypeOK
<1>2. SeedInv /\ SoloInv /\ RetryInv
  BY DEF SeedInv, SoloInv, RetryInv
<1>3. Holders = {}
  BY DEF Holders
<1>4. ChainUnbroken /\ HolderInv
  BY <1>3 DEF ChainUnbroken, HolderInv, Loaded
<1>5. QED
  BY <1>1, <1>2, <1>4

LEMMA StepType ==
    ASSUME TypeOK, [Next]_vars
    PROVE  TypeOK'
<1> USE AuthAssumption DEF TypeOK, auth0
<1>1. CASE UNCHANGED vars
  BY <1>1 DEF vars
<1>2. ASSUME NEW r \in Runners, StartRequest(r) PROVE TypeOK'
  BY <1>2 DEF StartRequest
<1>3. ASSUME NEW r \in Runners, LoadTokens(r) PROVE TypeOK'
  BY <1>3, LoadedType DEF LoadTokens
<1>4. ASSUME NEW r \in Runners, NoRefreshToken(r) \/ Refused(r) \/ Succeed(r) \/ GiveUp(r)
      PROVE TypeOK'
  BY <1>4 DEF NoRefreshToken, Refused, Succeed, GiveUp, End
<1>5. ASSUME NEW r \in Runners, NEW t \in Tokens, NEW b \in BOOLEAN, Granted(r, t, b)
      PROVE TypeOK'
  BY <1>5 DEF Granted, Grant, NewRefresh, Pair
<1>6. ASSUME NEW r \in Runners, NEW t \in Tokens, NEW b \in BOOLEAN, GrantLost(r, t, b)
      PROVE TypeOK'
  BY <1>6 DEF GrantLost, Grant, End
<1>7. ASSUME NEW r \in Runners, StoreTokens(r) PROVE TypeOK'
  BY <1>7 DEF StoreTokens, Stored
<1>8. ASSUME NEW r \in Runners, Crash(r) PROVE TypeOK'
  BY <1>8 DEF Crash, End
<1>9. ASSUME NEW r \in Runners, Unauthorized(r) PROVE TypeOK'
  <2>1. held[r].access \in Tokens \cup {None}
    BY <1>9 DEF Unauthorized, Pair
  <2>2. QED
    BY <1>9, <2>1 DEF Unauthorized
<1>10. ASSUME NEW t \in Tokens, Age(t) \/ Expire(t) \/ Revoke(t) PROVE TypeOK'
  BY <1>10 DEF Age, Expire, Revoke
<1>11. QED
  BY <1>1, <1>2, <1>3, <1>4, <1>5, <1>6, <1>7, <1>8, <1>9, <1>10 DEF Next, Advance

LEMMA StepSeed ==
    ASSUME TypeOK, SeedInv, [Next]_vars
    PROVE  SeedInv'
<1> USE DEF TypeOK, SeedInv, auth0
<1>1. CASE UNCHANGED vars
  BY <1>1 DEF vars
<1>2. ASSUME NEW r \in Runners, StartRequest(r) \/ LoadTokens(r) PROVE SeedInv'
  BY <1>2 DEF StartRequest, LoadTokens, Loaded
<1>3. ASSUME NEW r \in Runners, NoRefreshToken(r) \/ Refused(r) \/ Succeed(r) \/ GiveUp(r) \/ Crash(r)
      PROVE SeedInv'
  BY <1>3 DEF NoRefreshToken, Refused, Succeed, GiveUp, Crash, End
<1>4. ASSUME NEW r \in Runners, NEW t \in Tokens, NEW b \in BOOLEAN,
             Granted(r, t, b) \/ GrantLost(r, t, b)
      PROVE SeedInv'
  BY <1>4 DEF Granted, GrantLost, Grant, End
<1>5. ASSUME NEW r \in Runners, StoreTokens(r) \/ Unauthorized(r) PROVE SeedInv'
  BY <1>5 DEF StoreTokens, Unauthorized
<1>6. ASSUME NEW t \in Tokens, Age(t) \/ Expire(t) \/ Revoke(t) PROVE SeedInv'
  BY <1>6 DEF Age, Expire, Revoke
<1>7. QED
  BY <1>1, <1>2, <1>3, <1>4, <1>5, <1>6 DEF Next, Advance

LEMMA StepRetry ==
    ASSUME TypeOK, RetryInv, [Next]_vars
    PROVE  RetryInv'
<1> USE DEF TypeOK, RetryInv, auth0
<1>1. CASE UNCHANGED vars
  BY <1>1 DEF vars
<1>2. ASSUME NEW r \in Runners, StartRequest(r) PROVE RetryInv'
  BY <1>2 DEF StartRequest
<1>3. ASSUME NEW r \in Runners, LoadTokens(r) PROVE RetryInv'
  BY <1>3 DEF LoadTokens, NeedsRefresh
<1>4. ASSUME NEW r \in Runners, NoRefreshToken(r) \/ Refused(r) \/ Succeed(r) \/ GiveUp(r) \/ Crash(r)
      PROVE RetryInv'
  BY <1>4 DEF NoRefreshToken, Refused, Succeed, GiveUp, Crash, End
<1>5. ASSUME NEW r \in Runners, NEW t \in Tokens, NEW b \in BOOLEAN, Granted(r, t, b)
      PROVE RetryInv'
  <2>1. t # rejected[r]
    BY <1>5 DEF Granted, Grant, Used
  <2>2. QED
    BY <1>5, <2>1 DEF Granted
<1>6. ASSUME NEW r \in Runners, NEW t \in Tokens, NEW b \in BOOLEAN, GrantLost(r, t, b)
      PROVE RetryInv'
  BY <1>6 DEF GrantLost, Grant, End
<1>7. ASSUME NEW r \in Runners, StoreTokens(r) \/ Unauthorized(r) PROVE RetryInv'
  BY <1>7 DEF StoreTokens, Unauthorized
<1>8. ASSUME NEW t \in Tokens, Age(t) \/ Expire(t) \/ Revoke(t) PROVE RetryInv'
  BY <1>8 DEF Age, Expire, Revoke
<1>9. QED
  BY <1>1, <1>2, <1>3, <1>4, <1>5, <1>6, <1>7, <1>8 DEF Next, Advance

\* The invariants of the rotation, together.
ChainInv == SeedInv /\ ChainUnbroken /\ SoloInv /\ HolderInv

\* A grant makes its runner the only holder: were another runner about to
\* store the newest refresh token, this one would have been refused.
LEMMA GrantChain ==
    ASSUME Durable, TypeOK, ChainInv,
           NEW r \in Runners, NEW t \in Tokens, NEW b \in BOOLEAN, Granted(r, t, b)
    PROVE  ChainInv'
<1> USE DEF TypeOK, Durable, ChainInv, Holders, Granted, Grant, auth0
<1>1. SeedInv'
  BY DEF SeedInv
<1>2. b /\ held'[r].refresh = t /\ live' = t /\ Holders' = Holders \cup {r}
  BY DEF NewRefresh
<1>3. seed # None
  BY DEF SeedInv
<1>4. lost \/ Holders = {}
  BY <1>3 DEF HolderInv
<1>5. ChainUnbroken'
  BY <1>2, <1>4 DEF ChainUnbroken
<1>6. SoloInv'
  BY <1>2 DEF SoloInv
<1>7. Loaded.refresh # t
  <2>1. CASE Loaded.refresh = None
    BY <2>1, AuthAssumption
  <2>2. CASE Loaded.refresh # None
    <3>1. Loaded # None
      BY <2>2, LoadedType, AuthAssumption
    <3>2. Loaded.refresh \in Names(Loaded)
      BY <3>1 DEF Names
    <3>3. QED
      BY <3>2 DEF Used
  <2>3. QED
    BY <2>1, <2>2
<1>8. \A q \in Runners : pc'[q] = "exchange" => held'[q].refresh # t
  <2>1. ASSUME NEW q \in Runners, pc'[q] = "exchange" PROVE held'[q].refresh # t
    <3>1. q # r /\ pc[q] = "exchange" /\ held'[q] = held[q] /\ held[q] \in Pair
      BY <2>1
    <3>2. held[q].refresh \in Names(held[q])
      BY <3>1, AuthAssumption DEF Names
    <3>3. held[q].refresh \in Used
      BY <3>2 DEF Used
    <3>4. QED
      BY <3>1, <3>3
  <2>2. QED
    BY <2>1
<1>9. HolderInv'
  BY <1>2, <1>7, <1>8 DEF HolderInv, Loaded
<1>10. QED
  BY <1>1, <1>5, <1>6, <1>9

LEMMA StepChain ==
    ASSUME Durable, TypeOK, ChainInv, [Next]_vars
    PROVE  ChainInv'
<1> USE DEF TypeOK, Durable, ChainInv, ChainUnbroken, SoloInv, HolderInv, Holders, auth0
<1>0. SeedInv'
  BY StepSeed
<1>1. CASE UNCHANGED vars
  BY <1>0, <1>1 DEF vars, Loaded
<1>2. ASSUME NEW r \in Runners, StartRequest(r) PROVE ChainInv'
  BY <1>0, <1>2 DEF StartRequest, Loaded
<1>3. ASSUME NEW r \in Runners, LoadTokens(r) PROVE ChainInv'
  <2>1. seed # None
    BY <1>3 DEF LoadTokens, Loaded, SeedInv
  <2>2. ChainUnbroken'
    BY <1>3 DEF LoadTokens, Loaded
  <2>3. SoloInv'
    BY <1>3, <2>1 DEF LoadTokens
  <2>4. HolderInv'
    BY <1>3 DEF LoadTokens, Loaded
  <2>5. QED
    BY <1>0, <2>2, <2>3, <2>4
<1>4. ASSUME NEW r \in Runners, NoRefreshToken(r) \/ Refused(r) \/ Succeed(r) \/ GiveUp(r)
      PROVE ChainInv'
  BY <1>0, <1>4 DEF NoRefreshToken, Refused, Succeed, GiveUp, End, Loaded
<1>5. ASSUME NEW r \in Runners, NEW t \in Tokens, NEW b \in BOOLEAN, Granted(r, t, b)
      PROVE ChainInv'
  BY <1>5, GrantChain
<1>6. ASSUME NEW r \in Runners, NEW t \in Tokens, NEW b \in BOOLEAN, GrantLost(r, t, b)
      PROVE ChainInv'
  BY <1>0, <1>6 DEF GrantLost, Grant
<1>7. ASSUME NEW r \in Runners, StoreTokens(r) PROVE ChainInv'
  <2>1. store' = held[r] /\ held[r] \in Pair /\ r \in Holders
    BY <1>7 DEF StoreTokens, Stored
  <2>2. Loaded' = held[r]
    BY <2>1, AuthAssumption DEF Loaded
  <2>3. (~lost /\ seed # None) => held[r].refresh = live /\ Holders' = {}
    BY <1>7, <2>1 DEF StoreTokens
  <2>4. ChainUnbroken' /\ HolderInv'
    BY <1>7, <2>2, <2>3 DEF StoreTokens
  <2>5. SoloInv'
    BY <1>7, <2>1 DEF StoreTokens
  <2>6. QED
    BY <1>0, <2>4, <2>5
<1>8. ASSUME NEW r \in Runners, Crash(r) PROVE ChainInv'
  BY <1>0, <1>8 DEF Crash, End, Loaded
<1>9. ASSUME NEW r \in Runners, Unauthorized(r) PROVE ChainInv'
  BY <1>0, <1>9 DEF Unauthorized, Loaded
<1>10. ASSUME NEW t \in Tokens, Age(t) \/ Expire(t) \/ Revoke(t)
       PROVE ChainInv'
  BY <1>0, <1>10 DEF Age, Expire, Revoke, Loaded
<1>11. QED
  BY <1>1, <1>2, <1>3, <1>4, <1>5, <1>6, <1>7, <1>8, <1>9, <1>10 DEF Next, Advance

-----------------------------------------------------------------------------
(* Theorems.                                                               *)

\* Requests keep their tokens well formed (get_access_token, _request).
THEOREM TypeCorrect == Spec => []TypeOK
  BY InitInv, StepType, PTL DEF Spec

\* The one retry after a 401 uses an access token that was not just rejected
\* (_request's force_refresh).
THEOREM RetriesAreFresh == Spec => []RetryIsFresh
<1>1. TypeOK /\ RetryInv /\ [Next]_vars => (TypeOK /\ RetryInv)'
  BY StepType, StepRetry
<1>2. RetryInv => RetryIsFresh
  BY DEF RetryInv, RetryIsFresh
<1>3. QED
  BY <1>1, <1>2, InitInv, PTL DEF Spec

\* With rotation at every grant and a cache that keeps the entry, the newest
\* refresh token is never overwritten by an older one, however many runners
\* refresh at the same time (_refresh, _store_tokens).
THEOREM ChainIsUnbroken ==
    ASSUME Durable
    PROVE  Spec => []ChainUnbroken
<1>1. Init => TypeOK /\ ChainInv
  BY InitInv DEF ChainInv
<1>2. TypeOK /\ ChainInv /\ [Next]_vars => (TypeOK /\ ChainInv)'
  BY StepType, StepChain
<1>3. QED
  BY <1>1, <1>2, PTL DEF Spec, ChainInv

\* Under the same assumptions only an overlap with another runner's rotation,
\* or a lost rotation, makes Auth0 refuse a request.
THEOREM SolosAreNotRefused ==
    ASSUME Durable
    PROVE  Spec => []SoloNeverRefused
<1>1. Init => TypeOK /\ ChainInv
  BY InitInv DEF ChainInv
<1>2. TypeOK /\ ChainInv /\ [Next]_vars => (TypeOK /\ ChainInv)'
  BY StepType, StepChain
<1>3. TypeOK /\ ChainInv => SoloNeverRefused
  BY DEF ChainInv, SoloInv, SoloNeverRefused, TypeOK
<1>4. QED
  BY <1>1, <1>2, <1>3, PTL DEF Spec

-----------------------------------------------------------------------------
(* The scheduled pass: MppCron.                                            *)

Phases == {"idle", "refresh", "weeks", "read", "submit", "done"}

Forecast == [match : Matches, fit : Nat]

\* What the argument needs of the types.
FormInv ==
    /\ open \subseteq Matches
    /\ forecasts \in [Matches -> Nat \cup {None}]
    /\ params \in Nat
    /\ phase \in [Ticks -> Phases]
    /\ listed \in [Ticks -> SUBSET Matches]
    /\ todo \in [Ticks -> SUBSET Matches]
    /\ queue \in [Ticks -> SUBSET Forecast]
    /\ submitted \in [Ticks -> SUBSET Matches]
    /\ skipped \in [Ticks -> SUBSET Matches]
    /\ errors \in [Ticks -> SUBSET Matches]
    /\ hurt \in [Ticks -> SUBSET Matches]

Queued(t) == {f.match : f \in queue[t]}

\* Each match listed is to be read, queued or in one part of the summary, and
\* in no second one; no other match is anywhere.
Partition(t) ==
    /\ listed[t] = todo[t] \cup Queued(t) \cup submitted[t] \cup skipped[t] \cup errors[t]
    /\ todo[t] \cap (Queued(t) \cup submitted[t] \cup skipped[t] \cup errors[t]) = {}
    /\ Queued(t) \cap (submitted[t] \cup skipped[t] \cup errors[t]) = {}
    /\ submitted[t] \cap (skipped[t] \cup errors[t]) = {}
    /\ skipped[t] \cap errors[t] = {}

\* A match is queued once, only matches without clubs are skipped, and only
\* those whose own request failed are in error.
Deserved(t) ==
    /\ \A f, g \in queue[t] : f.match = g.match => f = g
    /\ skipped[t] \cap Mapped = {}
    /\ errors[t] \subseteq hurt[t]

Blank(t) ==
    /\ listed[t] = {} /\ todo[t] = {} /\ queue[t] = {}
    /\ submitted[t] = {} /\ skipped[t] = {} /\ errors[t] = {}

\* One pass, by what it has got done.
PassInv(t) ==
    /\ phase[t] \in {"refresh", "weeks"} => Blank(t)
    /\ phase[t] \in {"read", "submit", "done"} => Partition(t) /\ Deserved(t)
    /\ phase[t] \in {"submit", "done"} => todo[t] = {}
    /\ phase[t] = "done" => queue[t] = {}

Active(t) == phase[t] \notin {"idle", "done"}

Newer(f) == forecasts[f.match] # None => forecasts[f.match] <= f.fit

\* No forecast is ahead of the parameters, and while passes have not concurrent
\* what the pass under way is to submit is no older than what MPP has.
OrderInv ==
    /\ \A m \in Matches : forecasts[m] # None => forecasts[m] <= params
    /\ \A t \in Ticks : \A f \in queue[t] : f.fit <= params
    /\ ~concurrent =>
           /\ \A t, u \in Ticks : Active(t) /\ Active(u) => t = u
           /\ \A t \in Ticks : Active(t) => \A f \in queue[t] : Newer(f)

Inv == FormInv /\ (\A t \in Ticks : PassInv(t)) /\ SubmittedIsHeld /\ OrderInv

-----------------------------------------------------------------------------
(* The invariant.                                                          *)

LEMMA CronInitInv == CronInit => Inv
<1> SUFFICES ASSUME CronInit PROVE Inv
  OBVIOUS
<1>1. FormInv
  BY CronAssumption DEF CronInit, FormInv, Phases
<1>2. \A t \in Ticks : PassInv(t)
  BY DEF CronInit, PassInv
<1>3. SubmittedIsHeld /\ OrderInv
  BY DEF CronInit, SubmittedIsHeld, OrderInv, Active
<1>4. QED
  BY <1>1, <1>2, <1>3 DEF Inv

\* A step of one pass leaves the others as they are.
LEMMA OtherPasses ==
    ASSUME Inv, NEW t \in Ticks,
           \A u \in Ticks \ {t} :
               /\ phase'[u] = phase[u] /\ listed'[u] = listed[u] /\ todo'[u] = todo[u]
               /\ queue'[u] = queue[u] /\ submitted'[u] = submitted[u]
               /\ skipped'[u] = skipped[u] /\ errors'[u] = errors[u] /\ hurt'[u] = hurt[u],
           PassInv(t)'
    PROVE  \A u \in Ticks : PassInv(u)'
<1> SUFFICES ASSUME NEW u \in Ticks \ {t} PROVE PassInv(u)'
  OBVIOUS
<1>1. Queued(u)' = Queued(u)
  BY DEF Queued
<1>2. QED
  BY <1>1 DEF Inv, PassInv, Blank, Partition, Deserved

LEMMA KickoffInv ==
    ASSUME Inv, NEW m \in Matches, Kickoff(m)
    PROVE  Inv'
BY DEF Inv, Kickoff, summary, FormInv, PassInv, Blank, Partition, Queued, Deserved,
       SubmittedIsHeld, OrderInv, Active, Newer

LEMMA StartTickInv ==
    ASSUME Inv, NEW t \in Ticks, StartTick(t)
    PROVE  Inv'
<1> USE DEF StartTick, InitialQueue
<1>1. FormInv'
  BY DEF Inv, FormInv, Phases
<1>2. \A u \in Ticks : PassInv(u)'
  <2>1. PassInv(t)'
    BY DEF Inv, FormInv, PassInv, Blank
  <2>2. QED
    BY <2>1, OtherPasses DEF Inv, FormInv
<1>3. SubmittedIsHeld'
  BY DEF Inv, FormInv, SubmittedIsHeld
<1>4. OrderInv'
  <2>1. ASSUME ~concurrent'
        PROVE  ~concurrent /\ \A u \in Ticks \ {t} : ~Active(u)
    BY <2>1 DEF Active
  <2>2. \A u \in Ticks \ {t} : Active(u)' = Active(u)
    BY DEF Inv, FormInv, Active
  <2>3. queue'[t] = {}
    BY DEF Inv, FormInv
  <2>4. QED
    BY <2>1, <2>2, <2>3 DEF Inv, OrderInv, Newer
<1>5. QED
  BY <1>1, <1>2, <1>3, <1>4 DEF Inv

\* A step of a pass that touches neither its queue nor what MPP has.
LEMMA QuietOrder ==
    ASSUME Inv, NEW t \in Ticks, Active(t), NEW k \in Phases, phase' = [phase EXCEPT ![t] = k],
           params' \in Nat, params' >= params, UNCHANGED <<forecasts, queue, concurrent>>
    PROVE  OrderInv'
<1>1. \A u \in Ticks : Active(u)' => Active(u)
  BY DEF Inv, FormInv, Active
<1>2. \A m \in Matches : forecasts'[m] # None => forecasts'[m] <= params'
  BY DEF Inv, FormInv, OrderInv
<1>3. \A u \in Ticks : \A f \in queue'[u] : f.fit <= params'
  <2>1. \A u \in Ticks : \A f \in queue[u] : f.fit \in Nat
    BY DEF Inv, FormInv, Forecast
  <2>2. QED
    BY <2>1 DEF Inv, FormInv, OrderInv
<1>4. QED
  BY <1>1, <1>2, <1>3 DEF Inv, OrderInv, Newer

LEMMA RefreshInv ==
    ASSUME Inv, NEW t \in Ticks, Refresh(t)
    PROVE  Inv'
<1>1. PICK k \in {"weeks", "done"} : phase' = [phase EXCEPT ![t] = k]
  BY DEF Refresh
<1>2. params' \in Nat /\ params' >= params
  BY DEF Refresh, Inv, FormInv
<1>3. FormInv'
  BY <1>1, <1>2 DEF Refresh, summary, Inv, FormInv, Phases
<1>4. \A u \in Ticks : PassInv(u)'
  <2>1. Blank(t) /\ Blank(t)'
    BY DEF Refresh, summary, Inv, PassInv, Blank
  <2>2. PassInv(t)'
    BY <1>1, <2>1 DEF Refresh, summary, Inv, FormInv, PassInv, Blank, Partition, Deserved, Queued
  <2>3. QED
    BY <1>1, <2>2, OtherPasses DEF Refresh, summary, Inv, FormInv
<1>5. SubmittedIsHeld' /\ OrderInv'
  <2>1. Active(t) /\ k \in Phases
    BY DEF Refresh, Active, Phases
  <2>2. QED
    BY <1>1, <1>2, <2>1, QuietOrder DEF Refresh, summary, Inv, SubmittedIsHeld
<1>6. QED
  BY <1>3, <1>4, <1>5 DEF Inv

\* ReadWeeks, WeeksFail: the pass takes the matches of the week, or none.
LEMMA WeeksInv ==
    ASSUME Inv, NEW t \in Ticks, ReadWeeks(t) \/ WeeksFail(t)
    PROVE  Inv'
<1>1. PICK k \in {"read", "done"}, S \in SUBSET Matches :
          /\ phase' = [phase EXCEPT ![t] = k]
          /\ listed' = [listed EXCEPT ![t] = S] /\ todo' = [todo EXCEPT ![t] = S]
          /\ k = "done" => S = {}
  <2>1. Blank(t)
    BY DEF ReadWeeks, WeeksFail, Inv, PassInv
  <2>2. CASE ReadWeeks(t)
    BY <2>2 DEF ReadWeeks, WeekMatches, Inv, FormInv
  <2>3. CASE WeeksFail(t)
    <3>1. listed' = [listed EXCEPT ![t] = {}] /\ todo' = [todo EXCEPT ![t] = {}]
      BY <2>1, <2>3 DEF WeeksFail, Blank, Inv, FormInv
    <3>2. QED
      BY <2>3, <3>1 DEF WeeksFail
  <2>4. QED
    BY <2>2, <2>3
<1>2. /\ phase[t] = "weeks"
      /\ UNCHANGED <<open, forecasts, params, queue, submitted, skipped, errors, hurt, concurrent>>
  BY DEF ReadWeeks, WeeksFail, summary
<1>3. FormInv'
  BY <1>1, <1>2 DEF Inv, FormInv, Phases
<1>4. \A u \in Ticks : PassInv(u)'
  <2>1. Blank(t)
    BY <1>2 DEF Inv, PassInv
  <2>2. PassInv(t)'
    BY <1>1, <1>2, <2>1 DEF Inv, FormInv, PassInv, Blank, Partition, Deserved, Queued
  <2>3. QED
    BY <1>1, <1>2, <2>2, OtherPasses DEF Inv, FormInv
<1>5. SubmittedIsHeld' /\ OrderInv'
  <2>1. Active(t) /\ k \in Phases
    BY <1>2 DEF Active, Phases
  <2>2. params' \in Nat /\ params' >= params
    BY <1>2 DEF Inv, FormInv
  <2>3. QED
    BY <1>1, <1>2, <2>1, <2>2, QuietOrder DEF Inv, SubmittedIsHeld
<1>6. QED
  BY <1>3, <1>4, <1>5 DEF Inv

LEMMA ReadMatchInv ==
    ASSUME Inv, NEW t \in Ticks, NEW m \in Matches, ReadMatch(t, m)
    PROVE  Inv'
<1> DEFINE f == [match |-> m, fit |-> params]
<1>1. f \in Forecast /\ f.match = m
  BY DEF Inv, FormInv, Forecast
<1>2. FormInv'
  <2>1. ForecastsOf(m) \subseteq Forecast
    BY <1>1 DEF ForecastsOf
  <2>2. QED
    BY <2>1 DEF ReadMatch, Inv, FormInv
<1>3. PassInv(t)'
  <2>1. Partition(t) /\ Deserved(t) /\ phase'[t] = "read" /\ m \in todo[t]
    BY DEF ReadMatch, Inv, PassInv
  <2>2. /\ listed'[t] = listed[t] /\ submitted'[t] = submitted[t] /\ errors'[t] = errors[t]
        /\ hurt'[t] = hurt[t] /\ todo'[t] = todo[t] \ {m}
    BY DEF ReadMatch, Inv, FormInv
  <2>3. m \notin Queued(t)
    BY <2>1 DEF Partition
  <2>4. CASE m \in Mapped
    <3>1. queue'[t] = queue[t] \cup {f} /\ skipped'[t] = skipped[t]
      BY <2>4 DEF ReadMatch, ForecastsOf, Inv, FormInv
    <3>2. Queued(t)' = Queued(t) \cup {m}
      BY <1>1, <3>1 DEF Queued
    <3>3. Partition(t)'
      BY <2>1, <2>2, <2>3, <3>1, <3>2 DEF Partition
    <3>4. Deserved(t)'
      BY <1>1, <2>1, <2>2, <2>3, <3>1 DEF Deserved, Queued
    <3>5. QED
      BY <2>1, <3>3, <3>4 DEF PassInv
  <2>5. CASE m \notin Mapped
    <3>1. queue'[t] = queue[t] /\ skipped'[t] = skipped[t] \cup {m}
      BY <2>5 DEF ReadMatch, ForecastsOf, Inv, FormInv
    <3>2. Queued(t)' = Queued(t)
      BY <3>1 DEF Queued
    <3>3. Partition(t)'
      BY <2>1, <2>2, <2>3, <3>1, <3>2 DEF Partition
    <3>4. Deserved(t)'
      BY <2>1, <2>2, <2>5, <3>1 DEF Deserved
    <3>5. QED
      BY <2>1, <3>3, <3>4 DEF PassInv
  <2>6. QED
    BY <2>4, <2>5
<1>4. \A u \in Ticks : PassInv(u)'
  BY <1>3, OtherPasses DEF ReadMatch, Inv, FormInv
<1>5. SubmittedIsHeld'
  BY DEF ReadMatch, Inv, SubmittedIsHeld
<1>6. OrderInv'
  <2>1. \A u \in Ticks : Active(u)' = Active(u)
    BY DEF ReadMatch, Active
  <2>2. (forecasts[m] # None => forecasts[m] <= params) /\ f.fit <= params
    BY DEF Inv, FormInv, OrderInv
  <2>3. \A u \in Ticks : \A g \in queue'[u] : g \in queue[u] \/ g = f
    BY DEF ReadMatch, ForecastsOf, Inv, FormInv
  <2>4. QED
    BY <1>1, <2>1, <2>2, <2>3 DEF ReadMatch, Inv, OrderInv, Newer
<1>7. QED
  BY <1>2, <1>4, <1>5, <1>6 DEF Inv

LEMMA ReadMatchFailsInv ==
    ASSUME Inv, NEW t \in Ticks, NEW m \in Matches, ReadMatchFails(t, m)
    PROVE  Inv'
<1>1. FormInv'
  BY DEF ReadMatchFails, Inv, FormInv
<1>2. PassInv(t)'
  <2>1. Partition(t) /\ Deserved(t) /\ phase'[t] = "read" /\ m \in todo[t]
    BY DEF ReadMatchFails, Inv, PassInv
  <2>2. /\ listed'[t] = listed[t] /\ submitted'[t] = submitted[t] /\ skipped'[t] = skipped[t]
        /\ queue'[t] = queue[t] /\ todo'[t] = todo[t] \ {m}
        /\ errors'[t] = errors[t] \cup {m} /\ hurt'[t] = hurt[t] \cup {m}
    BY DEF ReadMatchFails, Inv, FormInv
  <2>3. Queued(t)' = Queued(t)
    BY <2>2 DEF Queued
  <2>4. Partition(t)'
    BY <2>1, <2>2, <2>3 DEF Partition
  <2>5. Deserved(t)'
    BY <2>1, <2>2 DEF Deserved
  <2>6. QED
    BY <2>1, <2>4, <2>5 DEF PassInv
<1>3. \A u \in Ticks : PassInv(u)'
  BY <1>2, OtherPasses DEF ReadMatchFails, Inv, FormInv
<1>4. SubmittedIsHeld' /\ OrderInv'
  BY DEF ReadMatchFails, Inv, SubmittedIsHeld, OrderInv, Active, Newer
<1>5. QED
  BY <1>1, <1>3, <1>4 DEF Inv

\* StartSubmit, FinishTick, CutOff: only the phase of the pass changes.
LEMMA PhaseInv ==
    ASSUME Inv, NEW t \in Ticks, StartSubmit(t) \/ FinishTick(t) \/ CutOff(t)
    PROVE  Inv'
<1>1. PICK k \in {"submit", "done", "idle"} :
          /\ phase' = [phase EXCEPT ![t] = k]
          /\ k = "submit" => phase[t] = "read" /\ todo[t] = {}
          /\ k = "done" => phase[t] \in {"read", "submit"} /\ todo[t] = {} /\ queue[t] = {}
  <2>1. CASE StartSubmit(t)
    BY <2>1 DEF StartSubmit
  <2>2. CASE FinishTick(t)
    BY <2>2 DEF FinishTick, Inv, PassInv
  <2>3. CASE CutOff(t)
    BY <2>3 DEF CutOff
  <2>4. QED
    BY <2>1, <2>2, <2>3
<1>2. UNCHANGED <<open, forecasts, params, listed, todo, queue, summary, hurt, concurrent>>
  BY DEF StartSubmit, FinishTick, CutOff
<1>3. FormInv'
  BY <1>1, <1>2 DEF summary, Inv, FormInv, Phases
<1>4. PassInv(t)'
  BY <1>1, <1>2 DEF summary, Inv, FormInv, PassInv, Partition, Deserved, Queued
<1>5. \A u \in Ticks : PassInv(u)'
  BY <1>1, <1>2, <1>4, OtherPasses DEF summary, Inv, FormInv
<1>6. SubmittedIsHeld' /\ OrderInv'
  <2>1. Active(t) /\ k \in Phases
    BY DEF StartSubmit, FinishTick, CutOff, Active, Phases
  <2>2. params' \in Nat /\ params' >= params
    BY <1>2 DEF Inv, FormInv
  <2>3. QED
    BY <1>1, <1>2, <2>1, <2>2, QuietOrder DEF summary, Inv, SubmittedIsHeld
<1>7. QED
  BY <1>3, <1>5, <1>6 DEF Inv

\* What a submission finds: it is in the queue of a pass, once.
LEMMA SubmitInv ==
    ASSUME Inv, NEW t \in Ticks, NEW f \in queue[t], NEW applied \in BOOLEAN, NEW ok \in BOOLEAN,
           ok => applied, Submit(t, f, applied, ok)
    PROVE  Inv'
<1> USE DEF Submit, Remaining, Counted
<1>1. f \in Forecast /\ f.match \in Matches /\ f.fit \in Nat
  BY DEF Inv, FormInv, Forecast
<1>2. FormInv'
  BY <1>1 DEF Inv, FormInv
<1>3. PassInv(t)'
  <2>1. Partition(t) /\ Deserved(t) /\ todo[t] = {} /\ phase'[t] = "submit"
    BY DEF Inv, PassInv
  <2>2. /\ listed'[t] = listed[t] /\ skipped'[t] = skipped[t] /\ todo'[t] = todo[t]
        /\ queue'[t] = queue[t] \ {f}
    BY DEF Inv, FormInv
  <2>3. /\ submitted'[t] = submitted[t] \cup (IF ok THEN {f.match} ELSE {})
        /\ errors'[t] = errors[t] \cup (IF ok THEN {} ELSE {f.match})
        /\ hurt'[t] = hurt[t] \cup (IF ok THEN {} ELSE {f.match})
    BY DEF Inv, FormInv
  <2>4. Queued(t)' = Queued(t) \ {f.match} /\ f.match \in Queued(t)
    BY <2>1, <2>2 DEF Queued, Deserved
  <2>5. Partition(t)'
    BY <2>1, <2>2, <2>3, <2>4 DEF Partition
  <2>6. Deserved(t)'
    BY <2>1, <2>2, <2>3 DEF Deserved
  <2>7. QED
    BY <2>1, <2>2, <2>5, <2>6 DEF PassInv
<1>4. \A u \in Ticks : PassInv(u)'
  BY <1>3, OtherPasses DEF Inv, FormInv
<1>5. \A m \in Matches : forecasts'[m] = IF applied /\ m = f.match THEN f.fit ELSE forecasts[m]
  BY <1>1 DEF Inv, FormInv
<1>6. SubmittedIsHeld'
  <2>1. f.fit # None
    BY <1>1, CronAssumption
  <2>2. \A u \in Ticks : submitted'[u] \subseteq Matches
    BY <1>2 DEF FormInv
  <2>3. \A u \in Ticks : \A m \in submitted'[u] :
            m \in submitted[u] \/ (ok /\ m = f.match)
    BY DEF Inv, FormInv
  <2>4. QED
    BY <1>5, <2>1, <2>2, <2>3 DEF Inv, SubmittedIsHeld
<1>7. OrderInv'
  <2>1. \A u \in Ticks : Active(u)' = Active(u)
    BY DEF Active
  <2>2. \A u \in Ticks : \A g \in queue'[u] : g \in queue[u] /\ (u = t => g # f)
    BY DEF Inv, FormInv
  <2>3. \A m \in Matches : forecasts'[m] # None => forecasts'[m] <= params'
    BY <1>5 DEF Inv, OrderInv
  <2>4. ASSUME ~concurrent', NEW u \in Ticks, Active(u)', NEW g \in queue'[u]
        PROVE  Newer(g)'
    <3>1. Active(u) /\ Active(t) /\ ~concurrent
      BY <2>1, <2>4 DEF Active
    <3>2. u = t /\ g \in queue[t] /\ g # f /\ Newer(g)
      BY <2>2, <2>4, <3>1 DEF Inv, OrderInv
    <3>3. g.match # f.match /\ g.match \in Matches
      BY <3>2 DEF Inv, FormInv, Forecast, PassInv, Deserved
    <3>4. QED
      BY <1>5, <3>2, <3>3 DEF Newer
  <2>5. QED
    BY <2>1, <2>2, <2>3, <2>4 DEF Inv, OrderInv
<1>8. QED
  BY <1>2, <1>4, <1>6, <1>7 DEF Inv

LEMMA StepInv == Inv /\ [CronNext]_cronVars => Inv'
<1> SUFFICES ASSUME Inv, [CronNext]_cronVars PROVE Inv'
  OBVIOUS
<1>1. CASE UNCHANGED cronVars
  BY <1>1 DEF cronVars, summary, Inv, FormInv, PassInv, Blank, Partition, Queued, Deserved,
              SubmittedIsHeld, OrderInv, Active, Newer
<1>2. ASSUME NEW t \in Ticks, Proceed(t) PROVE Inv'
  <2>1. ASSUME NEW f \in queue[t], SubmitForecast(t, f) \/ SubmitRefused(t, f) PROVE Inv'
    BY <2>1, SubmitInv DEF SubmitForecast, SubmitRefused
  <2>2. QED
    BY <1>2, <2>1, RefreshInv, WeeksInv, ReadMatchInv, PhaseInv DEF Proceed
<1>3. ASSUME NEW t \in Ticks, Fault(t) PROVE Inv'
  <2>1. ASSUME NEW f \in queue[t], NEW applied \in BOOLEAN, SubmitFails(t, f, applied) PROVE Inv'
    BY <2>1, SubmitInv DEF SubmitFails
  <2>2. QED
    BY <1>3, <2>1, WeeksInv, ReadMatchFailsInv, PhaseInv DEF Fault
<1>4. QED
  BY <1>1, <1>2, <1>3, StartTickInv, KickoffInv DEF CronNext

LEMMA Invariant == CronSpec => []Inv
BY CronInitInv, StepInv, PTL DEF CronSpec

-----------------------------------------------------------------------------
(* The properties.                                                         *)

\* run_cron_tick: the summary of a finished pass counts each match it listed
\* exactly once, whatever failed and however passes overlap, for any number of
\* passes, matches and failures.
THEOREM EveryMatchAccounted == CronSpec => []Accounted
<1>1. Inv => Accounted
  <2> SUFFICES ASSUME Inv, NEW t \in Ticks, phase[t] = "done"
               PROVE  /\ submitted[t] \cup skipped[t] \cup errors[t] = listed[t]
                      /\ submitted[t] \cap skipped[t] = {}
                      /\ submitted[t] \cap errors[t] = {}
                      /\ skipped[t] \cap errors[t] = {}
    BY DEF Accounted
  <2>1. Partition(t) /\ todo[t] = {} /\ queue[t] = {}
    BY DEF Inv, PassInv
  <2>2. Queued(t) = {}
    BY <2>1 DEF Queued
  <2>3. QED
    BY <2>1, <2>2 DEF Partition
<1>2. QED
  BY Invariant, <1>1, PTL

\* run_cron_tick, submit_forecasts: a match with known clubs is submitted by a
\* finished pass unless a request for this very match failed.
THEOREM FailuresStayIsolated == CronSpec => []FailuresIsolated
<1>1. Inv => FailuresIsolated
  <2> SUFFICES ASSUME Inv, NEW t \in Ticks, phase[t] = "done"
               PROVE  (listed[t] \cap Mapped) \ hurt[t] \subseteq submitted[t]
    BY DEF FailuresIsolated
  <2>1. Partition(t) /\ Deserved(t) /\ todo[t] = {} /\ queue[t] = {}
    BY DEF Inv, PassInv
  <2>2. Queued(t) = {}
    BY <2>1 DEF Queued
  <2>3. QED
    BY <2>1, <2>2 DEF Partition, Deserved
<1>2. QED
  BY Invariant, <1>1, PTL

\* submit_forecasts: what a pass counts as submitted, MPP has.
THEOREM SubmittedAreHeld == CronSpec => []SubmittedIsHeld
<1>1. Inv => SubmittedIsHeld
  BY DEF Inv
<1>2. QED
  BY Invariant, <1>1, PTL

\* A submission of a pass that nothing concurrent.
LEMMA SubmitNeverOlder ==
    ASSUME Inv, ~concurrent', NEW t \in Ticks, NEW f \in queue[t], NEW applied, NEW ok,
           Submit(t, f, applied, ok), NEW m \in Matches, forecasts[m] # None
    PROVE  forecasts'[m] # None /\ forecasts'[m] >= forecasts[m]
<1>1. f.match \in Matches /\ f.fit \in Nat /\ f.fit # None /\ forecasts[m] \in Nat
  BY CronAssumption DEF Inv, FormInv, Forecast
<1>2. Newer(f)
  <2>1. Active(t) /\ ~concurrent
    BY DEF Submit, Active
  <2>2. QED
    BY <2>1 DEF Inv, OrderInv
<1>3. forecasts'[m] = forecasts[m] \/ (m = f.match /\ forecasts'[m] = f.fit)
  BY <1>1 DEF Submit, Inv, FormInv
<1>4. QED
  BY <1>1, <1>2, <1>3 DEF Newer

\* submit_forecasts: as long as no two passes overlap, no step replaces a forecast
\* MPP has by one of an older fit, however passes fail or are cut off.
THEOREM ForecastsNeverOlder == CronSpec => NeverOlder
<1> DEFINE Kept == \A m \in Matches :
               forecasts[m] # None => forecasts'[m] # None /\ forecasts'[m] >= forecasts[m]
<1>1. Inv /\ [CronNext]_cronVars => [~concurrent' => Kept]_cronVars
  <2> SUFFICES ASSUME Inv, CronNext, ~concurrent' PROVE Kept
    OBVIOUS
  <2>1. CASE UNCHANGED forecasts
    BY <2>1 DEF Inv, FormInv
  <2>2. CASE \E t \in Ticks : \E f \in queue[t], applied, ok \in BOOLEAN : Submit(t, f, applied, ok)
    BY <2>2, SubmitNeverOlder
  <2>3. UNCHANGED forecasts
            \/ \E t \in Ticks : \E f \in queue[t], applied, ok \in BOOLEAN : Submit(t, f, applied, ok)
    BY DEF CronNext, StartTick, Proceed, Fault, Kickoff, Refresh, ReadWeeks, StartSubmit, FinishTick,
           ReadMatch, SubmitForecast, SubmitRefused, WeeksFail, CutOff, ReadMatchFails, SubmitFails
  <2>4. QED
    BY <2>1, <2>2, <2>3
<1>2. QED
  BY Invariant, <1>1, PTL DEF CronSpec, NeverOlder

=============================================================================
