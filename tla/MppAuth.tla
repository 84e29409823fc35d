------------------------------ MODULE MppAuth ------------------------------
(***************************************************************************)
(* Authenticated requests to Mon Petit Prono (app/mpp/auth.py and          *)
(* MppClient._request of app/mpp/client.py): concurrent runners share one  *)
(* stored token entry, exchange its refresh token at Auth0 for an access   *)
(* token, and retry a request once when MPP answers 401.                   *)
(*                                                                         *)
(* Auth0 rotates: a granted exchange may replace the refresh token, and    *)
(* only the newest one is good.  Tokens are names; a grant takes a name    *)
(* nobody refers to, so requests need no bound.                            *)
(***************************************************************************)
EXTENDS Naturals, Nothing

CONSTANTS
    Runners,          \* processes that issue requests (overlapping ticks)
    Tokens,           \* names for access and refresh tokens
    Seed,             \* settings.mpp_refresh_token, when it is configured
    AlwaysRotates,    \* Auth0 replaces the refresh token in every grant
    ZeroTtlKept,      \* cache.set(..., ttl=0) keeps the entry (kv_store does;
                      \* Redis refuses EX 0, and the process memory it falls
                      \* back to is not read while Redis answers)
    MaxFaults,        \* bound on crashes and lost answers
    MaxRevocations    \* bound on access tokens MPP drops before they expire

\* What a token entry says: the access token, if there is one, and the
\* refresh token.
Pair == [access: Tokens \cup {None}, refresh: Tokens]

ASSUME AuthAssumption ==
    /\ Seed \in Tokens
    /\ None \notin Tokens \cup Pair
    /\ AlwaysRotates \in BOOLEAN
    /\ ZeroTtlKept \in BOOLEAN
    /\ MaxFaults \in Nat
    /\ MaxRevocations \in Nat

VARIABLES
    seed,        \* the configured refresh token, or None
    store,       \* cache entry "mpp:tokens", or None
    live,        \* the refresh token Auth0 accepts
    accepted,    \* access tokens MPP accepts
    fresh,       \* access tokens more than 90 s from their expires_at
    pc,          \* where each runner's request is
    held,        \* the tokens a runner works with, or None
    rejected,    \* access token the first attempt failed with: attempt is 1
                 \* when set, else 0
    outcome,     \* how the latest request of a runner ended
    faults,
    revocations,
    lost,        \* history: a granted refresh token never reached the store
    overlapped   \* history: another runner's rotation was under way or came
                 \* in since this runner loaded its tokens

auth0 == <<live, accepted, fresh>>
vars == <<seed, store, live, accepted, fresh, pc, held, rejected, outcome,
          faults, revocations, lost, overlapped>>

\* _load_tokens: the entry, or the configured seed without an access token.
Loaded == IF store = None THEN [access |-> None, refresh |-> seed] ELSE store

Names(p) == IF p = None THEN {} ELSE {p.access, p.refresh}

\* Names in use; a grant never hands one of them out again.
Used == {live} \cup Names(Loaded) \cup
            UNION {Names(held[r]) \cup {rejected[r]} : r \in Runners}

\* The name of the next token, if one is left; which one makes no difference.
Unused == CHOOSE t \in Tokens : t \notin Used

Init ==
    /\ seed \in {Seed, None}
    /\ store = None
    /\ live = Seed
    /\ accepted = {}
    /\ fresh = {}
    /\ pc = [r \in Runners |-> "idle"]
    /\ held = [r \in Runners |-> None]
    /\ rejected = [r \in Runners |-> None]
    /\ outcome = [r \in Runners |-> "none"]
    /\ faults = 0
    /\ revocations = 0
    /\ lost = FALSE
    /\ overlapped = [r \in Runners |-> FALSE]

-----------------------------------------------------------------------------
(* One request.                                                            *)

StartRequest(r) ==
    /\ pc[r] = "idle"
    /\ pc' = [pc EXCEPT ![r] = "load"]
    /\ outcome' = [outcome EXCEPT ![r] = "none"]
    /\ UNCHANGED <<seed, store, auth0, held, rejected, faults, revocations, lost, overlapped>>

\* The request is over: what the runner held is forgotten.
End(r, how) ==
    /\ pc' = [pc EXCEPT ![r] = "idle"]
    /\ held' = [held EXCEPT ![r] = None]
    /\ rejected' = [rejected EXCEPT ![r] = None]
    /\ overlapped' = [overlapped EXCEPT ![r] = FALSE]
    /\ outcome' = [outcome EXCEPT ![r] = how]

\* Mutated form of NeedsRefresh: the second attempt does not force a refresh.
NeedsRefreshUnforced(r) == Loaded.access = None \/ Loaded.access \notin fresh

\* force_refresh, no access token, or one within 90 seconds of its expiry.
NeedsRefresh(r) ==
    \/ rejected[r] # None
    \/ Loaded.access = None
    \/ Loaded.access \notin fresh

LoadTokens(r) ==
    /\ pc[r] = "load"
    /\ Loaded.refresh # None
    /\ held' = [held EXCEPT ![r] = Loaded]
    /\ pc' = [pc EXCEPT ![r] = IF NeedsRefresh(r) THEN "exchange" ELSE "call"]
    /\ overlapped' = [overlapped EXCEPT ![r] = \E q \in Runners \ {r} : pc[q] = "store"]
    /\ UNCHANGED <<seed, store, auth0, rejected, outcome, faults, revocations, lost>>

\* AuthError: nothing stored and no seed configured.
NoRefreshToken(r) ==
    /\ pc[r] = "load"
    /\ Loaded.refresh = None
    /\ End(r, "failed")
    /\ UNCHANGED <<seed, store, auth0, faults, revocations, lost>>

\* Auth0 answers a good refresh token with the access token t and, when it
\* rotates, the refresh token t.  Tokens nobody can send again are forgotten.
Grant(r, t, rotates) ==
    /\ pc[r] = "exchange"
    /\ held[r].refresh = live
    /\ t \in Tokens \ Used
    /\ t = Unused
    /\ rotates \/ ~AlwaysRotates
    /\ live' = IF rotates THEN t ELSE live
    /\ accepted' = (accepted \cap Used) \cup {t}
    /\ fresh' = (fresh \cap Used) \cup {t}

\* Mutated form of NewRefresh: the refresh token that was sent is kept.
NewRefreshOld(r, t, rotates) == held[r].refresh

\* data.get("refresh_token") or refresh_token.
NewRefresh(r, t, rotates) == IF rotates THEN t ELSE held[r].refresh

Granted(r, t, rotates) ==
    /\ Grant(r, t, rotates)
    /\ held' = [held EXCEPT ![r] = [access |-> t, refresh |-> NewRefresh(r, t, rotates)]]
    /\ pc' = [pc EXCEPT ![r] = "store"]
    /\ overlapped' = [q \in Runners |-> overlapped[q] \/ (q # r /\ pc[q] = "exchange")]
    /\ UNCHANGED <<seed, store, rejected, outcome, faults, revocations, lost>>

\* The answer to a granted exchange is lost: httpx raises, the request fails.
GrantLost(r, t, rotates) ==
    /\ Grant(r, t, rotates)
    /\ faults < MaxFaults
    /\ faults' = faults + 1
    /\ lost' = (lost \/ rotates)
    /\ End(r, "failed")
    /\ UNCHANGED <<seed, store, revocations>>

\* Auth0 refuses a replaced refresh token: raise_for_status ends the request.
Refused(r) ==
    /\ pc[r] = "exchange"
    /\ held[r].refresh # live
    /\ End(r, "failed")
    /\ UNCHANGED <<seed, store, auth0, faults, revocations, lost>>

\* Mutated form of Stored: a present entry is left as it is.
StoredFirst(r) == IF store = None THEN held[r] ELSE store

\* Mutated form of Stored: the answer is stored without the refresh token.
StoredAnswer(r) == [access |-> held[r].access, refresh |-> None]

\* What the entry is after _store_tokens.
Stored(r) == IF ZeroTtlKept THEN held[r] ELSE store

StoreTokens(r) ==
    /\ pc[r] = "store"
    /\ store' = Stored(r)
    /\ pc' = [pc EXCEPT ![r] = "call"]
    /\ UNCHANGED <<seed, auth0, held, rejected, outcome, faults, revocations, lost, overlapped>>

\* The process dies, or a call of the request raises.
Crash(r) ==
    /\ pc[r] # "idle"
    /\ faults < MaxFaults
    /\ faults' = faults + 1
    /\ lost' = (lost \/ pc[r] = "store")
    /\ End(r, "failed")
    /\ UNCHANGED <<seed, store, auth0, revocations>>

Succeed(r) ==
    /\ pc[r] = "call"
    /\ held[r].access \in accepted
    /\ End(r, "ok")
    /\ UNCHANGED <<seed, store, auth0, faults, revocations, lost>>

\* A 401 on the first attempt: once more, with force_refresh.
Unauthorized(r) ==
    /\ pc[r] = "call"
    /\ held[r].access \notin accepted
    /\ rejected[r] = None
    /\ rejected' = [rejected EXCEPT ![r] = held[r].access]
    /\ held' = [held EXCEPT ![r] = None]
    /\ pc' = [pc EXCEPT ![r] = "load"]
    /\ UNCHANGED <<seed, store, auth0, outcome, faults, revocations, lost, overlapped>>

\* A 401 on the second attempt: MppApiError.
GiveUp(r) ==
    /\ pc[r] = "call"
    /\ held[r].access \notin accepted
    /\ rejected[r] # None
    /\ End(r, "failed")
    /\ UNCHANGED <<seed, store, auth0, faults, revocations, lost>>

-----------------------------------------------------------------------------
(* Access tokens outside the program.                                      *)

\* A token enters the last 90 seconds before its expires_at.
Age(t) ==
    /\ t \in fresh
    /\ fresh' = fresh \ {t}
    /\ UNCHANGED <<seed, store, live, accepted, pc, held, rejected, outcome, faults,
                   revocations, lost, overlapped>>

InUse(t) == \E r \in Runners : pc[r] \in {"store", "call"} /\ held[r].access = t

\* A token that is no longer fresh expires.  Its last 90 seconds outlast the
\* request (15 s) of a runner that found it fresh.
Expire(t) ==
    /\ t \in accepted \ fresh
    /\ ~InUse(t)
    /\ accepted' = accepted \ {t}
    /\ UNCHANGED <<seed, store, live, fresh, pc, held, rejected, outcome, faults,
                   revocations, lost, overlapped>>

\* MPP drops a token that its expires_at still calls fresh.
Revoke(t) ==
    /\ t \in accepted \cap fresh
    /\ revocations < MaxRevocations
    /\ revocations' = revocations + 1
    /\ accepted' = accepted \ {t}
    /\ UNCHANGED <<seed, store, live, fresh, pc, held, rejected, outcome, faults, lost, overlapped>>

-----------------------------------------------------------------------------

Advance(r) ==
    \/ LoadTokens(r) \/ NoRefreshToken(r)
    \/ \E t \in Tokens, rotates \in BOOLEAN : Granted(r, t, rotates)
    \/ Refused(r) \/ StoreTokens(r)
    \/ Succeed(r) \/ Unauthorized(r) \/ GiveUp(r)

Next ==
    \/ \E r \in Runners : StartRequest(r) \/ Advance(r) \/ Crash(r)
    \/ \E r \in Runners, t \in Tokens, rotates \in BOOLEAN : GrantLost(r, t, rotates)
    \/ \E t \in Tokens : Age(t) \/ Expire(t) \/ Revoke(t)

Spec == Init /\ [][Next]_vars

\* Ticks come again and again, and a request under way takes its next step.
FairSpec == Spec /\ \A r \in Runners : WF_vars(StartRequest(r)) /\ WF_vars(Advance(r))

-----------------------------------------------------------------------------
(* Properties.                                                             *)

TypeOK ==
    /\ seed \in {Seed, None}
    /\ store \in Pair \cup {None}
    /\ live \in Tokens
    /\ accepted \subseteq Tokens
    /\ fresh \subseteq Tokens
    /\ pc \in [Runners -> {"idle", "load", "exchange", "store", "call"}]
    /\ held \in [Runners -> Pair \cup {None}]
    /\ \A r \in Runners : pc[r] \in {"exchange", "store", "call"} => held[r] \in Pair
    /\ rejected \in [Runners -> Tokens \cup {None}]
    /\ outcome \in [Runners -> {"none", "ok", "failed"}]
    /\ faults \in Nat
    /\ revocations \in Nat
    /\ lost \in BOOLEAN
    /\ overlapped \in [Runners -> BOOLEAN]

\* The runners between the answer of Auth0 and the write of the store.
Holders == {r \in Runners : pc[r] = "store"}

\* However requests overlap, the newest refresh token is in the store, or in
\* the hands of the one runner that is about to store it; so no write of an
\* older pair follows the write of a newer one (_refresh, _store_tokens).
ChainUnbroken ==
    (~lost /\ seed # None) =>
        \/ Holders = {} /\ Loaded.refresh = live
        \/ \E r \in Holders : Holders = {r} /\ held[r].refresh = live

\* A request is refused by Auth0 only if it overlapped another runner's
\* rotation, or a rotation was lost (_load_tokens then _refresh).
SoloNeverRefused ==
    \A r \in Runners :
        (pc[r] = "exchange" /\ held[r].refresh # live) => (lost \/ overlapped[r])

\* The one retry never repeats the access token that was just rejected.
RetryIsFresh ==
    \A r \in Runners :
        (pc[r] = "call" /\ rejected[r] # None) => held[r].access # rejected[r]

\* Unless a rotation is lost or nothing is configured, requests that refuse
\* each other a refresh never keep all of them from being served.
KeepsServing ==
    (seed # None /\ []~lost) => []<>(\E r \in Runners : outcome[r] = "ok")

\* "Every refresh may return a new refresh_token that invalidates the previous
\* one, so the new token must be persisted durably": with nobody about to
\* write, the next load finds the token Auth0 accepts.
NewestTokenStored ==
    (~lost /\ seed # None /\ Holders = {}) => Loaded.refresh = live
=============================================================================
