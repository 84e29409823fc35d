----------------------------- MODULE MCMppAuth -----------------------------
(* Small instances of MppAuth.                                             *)
EXTENDS MppAuth, TLC

CONSTANTS r1, r2, t0, t1, t2, t3, t4

TwoRunners == {r1, r2}

\* Enough that a grant always finds a name: the newest refresh token, and per
\* runner the tokens it holds and the access token it was refused with.
FiveTokens == {t0, t1, t2, t3, t4}
=============================================================================
