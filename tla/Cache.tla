------------------------------- MODULE Cache -------------------------------
(***************************************************************************)
(* The three cache backends of app/cache, as the threads of several        *)
(* processes use one key: Redis with its fallback to process memory, the   *)
(* kv_store table, and process memory alone.  CacheContract says what they *)
(* promise; the history variable truth is the entry it speaks of.          *)
(***************************************************************************)
EXTENDS Naturals

CONSTANTS
    Clients,       \* threads that use the cache
    Processes,
    Values,
    MaxCuts,       \* bound on outages of Redis and lost answers
    None

ASSUME CacheAssumption ==
    /\ MaxCuts \in Nat
    /\ None \notin Values \cup [value: Values, lapsed: BOOLEAN]
    /\ None \notin [kind: {"get", "delete"}, value: {None}] \cup [kind: {"set"}, value: Values]
    /\ None \notin [ok: BOOLEAN, value: Values \cup {None}]

VARIABLES
    backend,     \* settings.cache_backend
    kept,        \* the key is set with ttl=0
    home,        \* the process of each thread
    linked,      \* processes whose first use of the cache found Redis up
    started,     \* processes that have used the cache
    up,          \* Redis answers
    row,         \* what is shared: the Redis entry, or the kv_store row
    memory,      \* the dict of each process
    request, reply,
    inside,      \* threads between the two steps of an operation
    seen,        \* the row a session has read
    cuts,
    truth,       \* history: the entry the callers have been promised
    overtaken,   \* history: another write took effect since the call
    diverged     \* history: the latest write went to a memory, not to Redis

config == <<backend, kept, home>>
links == <<linked, started, up, cuts>>
vars == <<backend, kept, home, linked, started, up, row, memory, request, reply, inside, seen,
          cuts, truth, overtaken, diverged>>

C == INSTANCE CacheContract WITH entry <- truth

Init ==
    /\ backend \in {"redis", "postgres", "memory"}
    /\ kept \in BOOLEAN
    /\ home \in [Clients -> Processes]
    /\ backend = "memory" => \A c, d \in Clients : home[c] = home[d]
    /\ linked = {}
    /\ started = {}
    /\ up \in BOOLEAN
    /\ backend # "redis" => up
    /\ row = None
    /\ memory = [p \in Processes |-> None]
    /\ request = [c \in Clients |-> None]
    /\ reply = [c \in Clients |-> None]
    /\ inside = {}
    /\ seen = [c \in Clients |-> None]
    /\ cuts = 0
    /\ truth = None
    /\ overtaken = [c \in Clients |-> FALSE]
    /\ diverged = FALSE

-----------------------------------------------------------------------------

\* get_cache, once per process; RedisCache pings, and never tries again.
Start(p) ==
    /\ p \notin started
    /\ started' = started \cup {p}
    /\ linked' = IF up THEN linked \cup {p} ELSE linked
    /\ UNCHANGED <<config, up, row, memory, request, reply, inside, seen, cuts, truth, overtaken,
                   diverged>>

Call(c, r) ==
    /\ home[c] \in started
    /\ request[c] = None
    /\ request' = [request EXCEPT ![c] = r]
    /\ overtaken' = [overtaken EXCEPT ![c] = FALSE]
    /\ UNCHANGED <<config, links, row, memory, reply, inside, seen, truth, diverged>>

Return(c) ==
    /\ reply[c] # None
    /\ request' = [request EXCEPT ![c] = None]
    /\ reply' = [reply EXCEPT ![c] = None]
    /\ UNCHANGED <<config, links, row, memory, inside, seen, truth, overtaken, diverged>>

Asks(c, store, kind) ==
    backend = store /\ request[c] # None /\ reply[c] = None /\ request[c].kind = kind

New(c) == [value |-> request[c].value, lapsed |-> FALSE]

\* What a get makes of an entry.
Found(e) == IF e = None \/ e.lapsed THEN None ELSE e.value

Answer(c, ok, value) ==
    /\ reply' = [reply EXCEPT ![c] = [ok |-> ok, value |-> value]]
    /\ UNCHANGED <<config, request>>

\* The write of c takes effect.
Effect(c, e) ==
    /\ truth' = e
    /\ overtaken' = [d \in Clients |-> overtaken[d] \/ (d # c /\ request[d] # None)]

NoEffect == UNCHANGED <<truth, overtaken>>

Mine(c) == memory[home[c]]

IntoMemory(c, e) == memory' = [memory EXCEPT ![home[c]] = e]

-----------------------------------------------------------------------------
(* RedisCache: every operation is one step, at Redis or in the memory.     *)

\* Redis answers, and takes the command: it refuses SET with EX 0.
Reaches(c) ==
    /\ up
    /\ home[c] \in linked
    /\ ~(request[c].kind = "set" /\ kept)

RedisGet(c) ==
    /\ Asks(c, "redis", "get")
    /\ Answer(c, TRUE, Found(IF Reaches(c) THEN row ELSE Mine(c)))
    /\ UNCHANGED <<links, row, memory, inside, seen, diverged>> /\ NoEffect

RedisWrite(c, kind, e) ==
    /\ Asks(c, "redis", kind)
    /\ IF Reaches(c) THEN row' = e /\ diverged' = FALSE /\ UNCHANGED memory
                     ELSE IntoMemory(c, e) /\ diverged' = TRUE /\ UNCHANGED row
    /\ Answer(c, TRUE, None)
    /\ Effect(c, e)
    /\ UNCHANGED <<links, inside, seen>>

\* Redis takes the write, the answer is lost, and the memory takes it too.
RedisWriteUnanswered(c, kind, e) ==
    /\ Asks(c, "redis", kind)
    /\ Reaches(c)
    /\ cuts < MaxCuts
    /\ cuts' = cuts + 1
    /\ row' = e
    /\ IntoMemory(c, e)
    /\ diverged' = FALSE
    /\ Answer(c, TRUE, None)
    /\ Effect(c, e)
    /\ UNCHANGED <<linked, started, up, inside, seen>>

RedisSet(c) == RedisWrite(c, "set", New(c)) \/ RedisWriteUnanswered(c, "set", New(c))

RedisDelete(c) == RedisWrite(c, "delete", None) \/ RedisWriteUnanswered(c, "delete", None)

Outage ==
    /\ backend = "redis"
    /\ up
    /\ cuts < MaxCuts
    /\ cuts' = cuts + 1
    /\ up' = FALSE
    /\ UNCHANGED <<config, linked, started, row, memory, request, reply, inside, seen, truth,
                   overtaken, diverged>>

Recover ==
    /\ backend = "redis"
    /\ ~up
    /\ up' = TRUE
    /\ UNCHANGED <<config, linked, started, row, memory, request, reply, inside, seen, cuts, truth,
                   overtaken, diverged>>

-----------------------------------------------------------------------------
(* PostgresCache: set and delete read the row, then flush and commit.      *)

KvGet(c) ==
    /\ Asks(c, "postgres", "get")
    /\ Answer(c, TRUE, Found(row))
    /\ UNCHANGED <<links, row, memory, inside, seen, diverged>> /\ NoEffect

KvRead(c, kind) ==
    /\ Asks(c, "postgres", kind)
    /\ c \notin inside
    /\ inside' = inside \cup {c}
    /\ seen' = [seen EXCEPT ![c] = row]
    /\ UNCHANGED <<config, links, row, memory, request, reply, diverged>> /\ NoEffect

Leave(c) ==
    /\ inside' = inside \ {c}
    /\ seen' = [seen EXCEPT ![c] = None]

\* Only attributes that differ from what was read are in the UPDATE: the value
\* may not be, and with ttl=0 nothing may.
Changed(c) == seen[c].value # request[c].value

Unchanged(c) == seen[c] # None /\ kept /\ ~Changed(c)

\* INSERT of a key that is taken by now, or UPDATE of a row that is gone.
KvConflict(c) == ~Unchanged(c) /\ (seen[c] = None) # (row = None)

Updated(c) ==
    IF seen[c] = None \/ Changed(c) THEN New(c) ELSE [value |-> row.value, lapsed |-> FALSE]

KvSet(c) ==
    /\ Asks(c, "postgres", "set")
    /\ c \in inside
    /\ ~KvConflict(c)
    /\ row' = IF Unchanged(c) THEN row ELSE Updated(c)
    /\ Answer(c, TRUE, None)
    /\ IF row' = New(c) THEN Effect(c, New(c)) ELSE NoEffect
    /\ Leave(c)
    /\ UNCHANGED <<links, memory, diverged>>

\* IntegrityError or StaleDataError, raised to the caller of set.
KvSetFails(c) ==
    /\ Asks(c, "postgres", "set")
    /\ c \in inside
    /\ KvConflict(c)
    /\ Answer(c, FALSE, None)
    /\ Leave(c)
    /\ UNCHANGED <<links, row, memory, diverged>> /\ NoEffect

\* Mutated form of AfterDelete: the session is closed without a commit.
AfterDeleteUncommitted(c) == row

\* The row after a delete: one that was not there when it was read stays.
AfterDelete(c) == IF seen[c] = None THEN row ELSE None

KvDelete(c) ==
    /\ Asks(c, "postgres", "delete")
    /\ c \in inside
    /\ row' = AfterDelete(c)
    /\ Answer(c, TRUE, None)
    /\ IF row' = None THEN Effect(c, None) ELSE NoEffect
    /\ Leave(c)
    /\ UNCHANGED <<links, memory, diverged>>

-----------------------------------------------------------------------------
(* MemoryCache: a get of an expired item takes a second step to pop it.    *)

MemoryGet(c) ==
    /\ Asks(c, "memory", "get")
    /\ c \notin inside
    /\ IF Mine(c) # None /\ Found(Mine(c)) = None
         THEN inside' = inside \cup {c} /\ UNCHANGED <<config, request, reply>>
         ELSE Answer(c, TRUE, Found(Mine(c))) /\ UNCHANGED inside
    /\ UNCHANGED <<links, row, memory, seen, diverged>> /\ NoEffect

MemoryPop(c) ==
    /\ Asks(c, "memory", "get")
    /\ c \in inside
    /\ IntoMemory(c, None)
    /\ Answer(c, TRUE, None)
    /\ Leave(c)
    /\ UNCHANGED <<links, row, diverged>> /\ NoEffect

MemoryWrite(c, kind, e) ==
    /\ Asks(c, "memory", kind)
    /\ IntoMemory(c, e)
    /\ Answer(c, TRUE, None)
    /\ Effect(c, e)
    /\ UNCHANGED <<links, row, inside, seen, diverged>>

-----------------------------------------------------------------------------

Lapsed(e) == IF e = None THEN None ELSE [e EXCEPT !.lapsed = TRUE]

\* A time to live is longer than any operation.  It is kept by Redis and by
\* MemoryCache, not by the memory RedisCache falls back to.
Lapse ==
    /\ ~kept
    /\ inside = {}
    /\ truth # None
    /\ truth' = Lapsed(truth)
    /\ row' = Lapsed(row)
    /\ memory' = IF backend = "memory" THEN [p \in Processes |-> Lapsed(memory[p])] ELSE memory
    /\ UNCHANGED <<config, links, request, reply, inside, seen, overtaken, diverged>>

Next ==
    \/ \E p \in Processes : Start(p)
    \/ \E c \in Clients, r \in C!Requests : Call(c, r)
    \/ \E c \in Clients :
           \/ Return(c)
           \/ RedisGet(c) \/ RedisSet(c) \/ RedisDelete(c)
           \/ KvGet(c) \/ KvRead(c, "set") \/ KvRead(c, "delete")
           \/ KvSet(c) \/ KvSetFails(c) \/ KvDelete(c)
           \/ MemoryGet(c) \/ MemoryPop(c)
           \/ MemoryWrite(c, "set", New(c)) \/ MemoryWrite(c, "delete", None)
    \/ Outage
    \/ Recover
    \/ Lapse

Spec == Init /\ [][Next]_vars

-----------------------------------------------------------------------------
(* Properties.                                                             *)

TypeOK ==
    /\ backend \in {"redis", "postgres", "memory"}
    /\ kept \in BOOLEAN
    /\ home \in [Clients -> Processes]
    /\ linked \subseteq started
    /\ started \subseteq Processes
    /\ up \in BOOLEAN
    /\ row \in C!Entry \cup {None}
    /\ memory \in [Processes -> C!Entry \cup {None}]
    /\ request \in [Clients -> C!Requests \cup {None}]
    /\ reply \in [Clients -> C!Replies \cup {None}]
    /\ inside \subseteq Clients
    /\ seen \in [Clients -> C!Entry \cup {None}]
    /\ cuts \in 0..MaxCuts
    /\ truth \in C!Entry \cup {None}
    /\ overtaken \in [Clients -> BOOLEAN]
    /\ diverged \in BOOLEAN

\* A get that Redis did not answer, for which the memory has an entry.
FallsBackOnOld(c) == RedisGet(c) /\ ~Reaches(c) /\ Mine(c) # None

\* "All cache backends expose the same minimal get/set/delete surface, so callers
\* never care whether state lives in Redis, Postgres or process memory": whatever threads,
\* processes, outages and lost answers do, every step is one of the contract;
\* except between a write that went to a memory and the next one that reaches
\* Redis, and when a memory answers with what such a write left there.
ContractKept ==
    [][\/ diverged'
       \/ \E c \in Clients : FallsBackOnOld(c)
       \/ [C!Next]_(C!vars)]_vars
=============================================================================
