--------------------------- MODULE CacheContract ---------------------------
(***************************************************************************)
(* What app/cache/base.py promises its callers, whichever backend is       *)
(* configured: one entry per key with get, set and delete, each request    *)
(* taking effect at one moment between its call and its return.  This is   *)
(* the entry of one key; keys do not meet.                                 *)
(*                                                                         *)
(* An entry set with a time to live may be missed at any time, and is      *)
(* never returned once that time is over.  An entry set with ttl=0 is      *)
(* never missed.  A write that is overtaken by another one may give way to *)
(* it; a set that is overtaken may fail.                                   *)
(***************************************************************************)
CONSTANTS
    Clients,
    Values,
    None

VARIABLES
    kept,        \* the key is set with ttl=0
    entry,
    request,     \* what each client is asking for, or None
    reply,       \* the answer it is about to return, or None
    overtaken    \* another write took effect since the request was made

vars == <<kept, entry, request, reply, overtaken>>

Requests == [kind: {"get", "delete"}, value: {None}] \cup [kind: {"set"}, value: Values]

Replies == [ok: BOOLEAN, value: Values \cup {None}]

Entry == [value: Values, lapsed: BOOLEAN]

Done == [ok |-> TRUE, value |-> None]

Init ==
    /\ kept \in BOOLEAN
    /\ entry = None
    /\ request = [c \in Clients |-> None]
    /\ reply = [c \in Clients |-> None]
    /\ overtaken = [c \in Clients |-> FALSE]

Pending(c, kind) == request[c] # None /\ reply[c] = None /\ request[c].kind = kind

Call(c, r) ==
    /\ request[c] = None
    /\ request' = [request EXCEPT ![c] = r]
    /\ overtaken' = [overtaken EXCEPT ![c] = FALSE]
    /\ UNCHANGED <<kept, entry, reply>>

Return(c) ==
    /\ reply[c] # None
    /\ request' = [request EXCEPT ![c] = None]
    /\ reply' = [reply EXCEPT ![c] = None]
    /\ UNCHANGED <<kept, entry, overtaken>>

Answer(c, a) ==
    /\ reply' = [reply EXCEPT ![c] = a]
    /\ UNCHANGED <<kept, request>>

Hit(c) ==
    /\ Pending(c, "get")
    /\ entry # None
    /\ ~entry.lapsed
    /\ Answer(c, [ok |-> TRUE, value |-> entry.value])
    /\ UNCHANGED <<entry, overtaken>>

Miss(c) ==
    /\ Pending(c, "get")
    /\ entry = None \/ ~kept
    /\ Answer(c, Done)
    /\ UNCHANGED <<entry, overtaken>>

\* The others that have a request under way are overtaken by the write of c.
Overtake(c) == overtaken' = [d \in Clients |-> overtaken[d] \/ (d # c /\ request[d] # None)]

Write(c) ==
    /\ Pending(c, "set")
    /\ entry' = [value |-> request[c].value, lapsed |-> FALSE]
    /\ Answer(c, Done)
    /\ Overtake(c)

Erase(c) ==
    /\ Pending(c, "delete")
    /\ entry' = None
    /\ Answer(c, Done)
    /\ Overtake(c)

\* The write took effect just before the one that overtook it.
GiveWay(c) ==
    /\ Pending(c, "set") \/ Pending(c, "delete")
    /\ overtaken[c]
    /\ Answer(c, Done)
    /\ UNCHANGED <<entry, overtaken>>

Refuse(c) ==
    /\ Pending(c, "set")
    /\ overtaken[c]
    /\ Answer(c, [ok |-> FALSE, value |-> None])
    /\ UNCHANGED <<entry, overtaken>>

\* The time to live is over.
Lapse ==
    /\ ~kept
    /\ entry # None
    /\ entry' = [entry EXCEPT !.lapsed = TRUE]
    /\ UNCHANGED <<kept, request, reply, overtaken>>

Next ==
    \/ \E c \in Clients, r \in Requests : Call(c, r)
    \/ \E c \in Clients :
           Hit(c) \/ Miss(c) \/ Write(c) \/ Erase(c) \/ GiveWay(c) \/ Refuse(c) \/ Return(c)
    \/ Lapse

Spec == Init /\ [][Next]_vars
=============================================================================
