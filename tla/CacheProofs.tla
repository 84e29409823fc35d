---------------------------- MODULE CacheProofs ----------------------------
(***************************************************************************)
(* Proofs about Cache: the backends keep the contract, for any number of   *)
(* threads, processes, values, outages and lost answers.                   *)
(***************************************************************************)
EXTENDS Cache, TLAPS

\* What is shared is what was promised, unless a write went to a memory.
RowInv ==
    /\ ~diverged /\ backend # "memory" => row = truth
    /\ diverged => backend = "redis"

\* An entry set with ttl=0 never lapses, and Redis never has one.
KeptInv ==
    kept => /\ row # None => ~row.lapsed /\ backend # "redis"
            /\ truth # None => ~truth.lapsed
            /\ backend = "memory" => inside = {}

\* A session has read what is in the row, or another write came after, and
\* then the row has not lapsed since.
SeenInv ==
    backend = "postgres" =>
        \A c \in inside : \/ seen[c] = row
                          \/ overtaken[c] /\ (row # None => ~row.lapsed)

\* MemoryCache serves one process, and can only have lost what it promised.
MemoryInv ==
    backend = "memory" => \A c \in Clients :
        /\ \A d \in Clients : home[c] = home[d]
        /\ Mine(c) = truth \/ (Mine(c) = None /\ ~kept)

\* A thread between its two steps has asked for what takes two, and is not
\* answered.
InsideInv ==
    \A c \in inside :
        /\ request[c] # None
        /\ reply[c] = None
        /\ \/ backend = "memory" /\ request[c].kind = "get"
           \/ backend = "postgres" /\ request[c].kind # "get"

Inv == TypeOK /\ InsideInv /\ RowInv /\ KeptInv /\ SeenInv /\ MemoryInv

-----------------------------------------------------------------------------

LEMMA EntryFacts ==
    /\ None \notin Values /\ None \notin C!Entry
    /\ None \notin C!Requests /\ None \notin C!Replies
BY CacheAssumption DEF C!Entry, C!Requests, C!Replies

LEMMA FoundType ==
    ASSUME NEW e \in C!Entry \cup {None}
    PROVE  /\ Found(e) \in Values \cup {None}
           /\ Lapsed(e) \in C!Entry \cup {None}
BY EntryFacts DEF Found, Lapsed, C!Entry

LEMMA NewType ==
    ASSUME TypeOK, NEW c \in Clients, request[c] # None, request[c].kind = "set"
    PROVE  New(c) \in C!Entry /\ ~New(c).lapsed
<1>1. request[c] \in C!Requests
  BY DEF TypeOK
<1>2. request[c].value \in Values
  BY <1>1 DEF C!Requests
<1>3. QED
  BY <1>2 DEF New, C!Entry

LEMMA InitInv == Init => Inv
<1> SUFFICES ASSUME Init PROVE Inv
  OBVIOUS
<1> USE CacheAssumption DEF Init
<1>1. TypeOK
  <2>1. cuts \in 0..MaxCuts
    OBVIOUS
  <2>2. /\ kept \in BOOLEAN /\ up \in BOOLEAN /\ diverged \in BOOLEAN
        /\ overtaken \in [Clients -> BOOLEAN]
    OBVIOUS
  <2>3. QED
    BY <2>1, <2>2, Zenon DEF TypeOK
<1>2. InsideInv /\ RowInv /\ KeptInv /\ SeenInv /\ MemoryInv
  BY DEF InsideInv, RowInv, KeptInv, SeenInv, MemoryInv, Mine
<1>3. QED
  BY <1>1, <1>2 DEF Inv

\* The reply and the entry a write leaves are well typed.
LEMMA AnswerType ==
    ASSUME TypeOK, NEW c \in Clients, NEW ok \in BOOLEAN, NEW v \in Values \cup {None},
           Answer(c, ok, v)
    PROVE  /\ reply' \in [Clients -> C!Replies \cup {None}]
           /\ request' \in [Clients -> C!Requests \cup {None}]
           /\ UNCHANGED <<backend, kept, home>>
BY DEF TypeOK, Answer, C!Replies, config

LEMMA EffectType ==
    ASSUME TypeOK, NEW c \in Clients, NEW e \in C!Entry \cup {None}, Effect(c, e)
    PROVE  truth' \in C!Entry \cup {None} /\ overtaken' \in [Clients -> BOOLEAN]
BY DEF TypeOK, Effect

LEMMA UpdatedType ==
    ASSUME TypeOK, NEW c \in Clients, Asks(c, "postgres", "set"), ~KvConflict(c)
    PROVE  (IF Unchanged(c) THEN row ELSE Updated(c)) \in C!Entry \cup {None}
<1>1. New(c) \in C!Entry
  BY NewType DEF Asks
<1>2. CASE Unchanged(c)
  BY <1>2 DEF TypeOK
<1>3. CASE ~Unchanged(c) /\ (seen[c] = None \/ Changed(c))
  BY <1>1, <1>3 DEF Updated
<1>4. CASE ~Unchanged(c) /\ seen[c] # None /\ ~Changed(c)
  <2>1. row \in C!Entry
    BY <1>4 DEF TypeOK, KvConflict
  <2>2. QED
    BY <1>4, <2>1 DEF Updated, C!Entry
<1>5. QED
  BY <1>2, <1>3, <1>4

LEMMA TypeStep ==
    ASSUME TypeOK, [Next]_vars
    PROVE  TypeOK'
<1> USE CacheAssumption DEF TypeOK
<1>1. CASE UNCHANGED vars
  BY <1>1 DEF vars
<1>2. ASSUME NEW p \in Processes, Start(p) PROVE TypeOK'
  BY <1>2 DEF Start, config
<1>3. ASSUME NEW c \in Clients, NEW r \in C!Requests, Call(c, r) PROVE TypeOK'
  BY <1>3 DEF Call, config, links
<1>4. ASSUME NEW c \in Clients, Return(c) PROVE TypeOK'
  BY <1>4 DEF Return, config, links
<1>5. ASSUME NEW c \in Clients, RedisGet(c) PROVE TypeOK'
  <2>1. (IF Reaches(c) THEN row ELSE Mine(c)) \in C!Entry \cup {None}
    BY DEF Mine
  <2>2. QED
    BY <1>5, <2>1, FoundType, AnswerType DEF RedisGet, NoEffect, links
<1>6. ASSUME NEW c \in Clients, NEW k \in {"set", "delete"}, NEW e \in C!Entry \cup {None},
             RedisWrite(c, k, e) \/ RedisWriteUnanswered(c, k, e)
      PROVE TypeOK'
  <2>1. /\ row' = e \/ row' = row
        /\ IntoMemory(c, e) \/ memory' = memory
    BY <1>6 DEF RedisWrite, RedisWriteUnanswered
  <2>2. memory' \in [Processes -> C!Entry \cup {None}] /\ row' \in C!Entry \cup {None}
    BY <2>1 DEF IntoMemory
  <2>3. diverged' \in BOOLEAN
    BY <1>6, Zenon DEF RedisWrite, RedisWriteUnanswered
  <2>4. cuts' = cuts \/ (cuts < MaxCuts /\ cuts' = cuts + 1)
    BY <1>6 DEF RedisWrite, RedisWriteUnanswered, links
  <2>5. cuts' \in 0..MaxCuts
    BY <2>4
  <2>6. Answer(c, TRUE, None) /\ Effect(c, e) /\ UNCHANGED <<linked, started, up, inside, seen>>
    BY <1>6 DEF RedisWrite, RedisWriteUnanswered, links
  <2>7. QED
    BY <2>2, <2>3, <2>5, <2>6, AnswerType, EffectType
<1>7. ASSUME NEW c \in Clients, RedisSet(c) \/ RedisDelete(c) PROVE TypeOK'
  <2>1. CASE RedisSet(c)
    <3>1. New(c) \in C!Entry
      BY <2>1, NewType DEF RedisSet, RedisWrite, RedisWriteUnanswered, Asks
    <3>2. QED
      BY <1>6, <2>1, <3>1 DEF RedisSet
  <2>2. CASE RedisDelete(c)
    BY <1>6, <2>2 DEF RedisDelete
  <2>3. QED
    BY <1>7, <2>1, <2>2
<1>8. CASE Outage \/ Recover
  <2>1. cuts' = cuts \/ (cuts < MaxCuts /\ cuts' = cuts + 1)
    BY <1>8 DEF Outage, Recover
  <2>2. cuts' \in 0..MaxCuts
    BY <2>1
  <2>3. up' \in BOOLEAN
    BY <1>8 DEF Outage, Recover
  <2>4. QED
    BY <1>8, <2>2, <2>3, Zenon DEF Outage, Recover, config
<1>9. ASSUME NEW c \in Clients, KvGet(c) PROVE TypeOK'
  BY <1>9, FoundType, AnswerType DEF KvGet, NoEffect, links
<1>10. ASSUME NEW c \in Clients, NEW k \in {"set", "delete"}, KvRead(c, k) PROVE TypeOK'
  BY <1>10 DEF KvRead, NoEffect, links, config
<1>11. ASSUME NEW c \in Clients, KvSet(c) PROVE TypeOK'
  <2>1. row' \in C!Entry \cup {None}
    BY <1>11, UpdatedType DEF KvSet
  <2>2. truth' \in C!Entry \cup {None} /\ overtaken' \in [Clients -> BOOLEAN]
    BY <1>11, NewType, EffectType DEF KvSet, Asks, NoEffect
  <2>3. QED
    BY <1>11, <2>1, <2>2, AnswerType DEF KvSet, Leave, links
<1>12. ASSUME NEW c \in Clients, KvSetFails(c) PROVE TypeOK'
  BY <1>12, AnswerType DEF KvSetFails, Leave, NoEffect, links
<1>13. ASSUME NEW c \in Clients, KvDelete(c) PROVE TypeOK'
  <2>1. row' \in C!Entry \cup {None}
    BY <1>13 DEF KvDelete, AfterDelete
  <2>2. truth' \in C!Entry \cup {None} /\ overtaken' \in [Clients -> BOOLEAN]
    BY <1>13, EffectType DEF KvDelete, NoEffect
  <2>3. QED
    BY <1>13, <2>1, <2>2, AnswerType DEF KvDelete, Leave, links
<1>14. ASSUME NEW c \in Clients, MemoryGet(c) PROVE TypeOK'
  <2>1. Mine(c) \in C!Entry \cup {None}
    BY DEF Mine
  <2>2. UNCHANGED <<linked, started, up, cuts, row, memory, seen, diverged, truth, overtaken>>
    BY <1>14 DEF MemoryGet, NoEffect, links
  <2>3. CASE inside' = inside \cup {c} /\ UNCHANGED <<config, request, reply>>
    BY <2>2, <2>3 DEF config
  <2>4. CASE Answer(c, TRUE, Found(Mine(c))) /\ UNCHANGED inside
    <3>1. Found(Mine(c)) \in Values \cup {None}
      BY <2>1, FoundType
    <3>2. /\ reply' \in [Clients -> C!Replies \cup {None}]
          /\ request' \in [Clients -> C!Requests \cup {None}]
          /\ UNCHANGED <<backend, kept, home>>
      BY <2>4, <3>1, AnswerType
    <3>3. QED
      BY <2>2, <2>4, <3>2
  <2>5. QED
    BY <1>14, <2>3, <2>4 DEF MemoryGet
<1>15. ASSUME NEW c \in Clients, MemoryPop(c) PROVE TypeOK'
  BY <1>15, AnswerType DEF MemoryPop, IntoMemory, Leave, NoEffect, links
<1>16. ASSUME NEW c \in Clients, NEW k \in {"set", "delete"}, NEW e \in C!Entry \cup {None},
              MemoryWrite(c, k, e)
       PROVE TypeOK'
  BY <1>16, AnswerType, EffectType DEF MemoryWrite, IntoMemory, links
<1>17. ASSUME NEW c \in Clients, MemoryWrite(c, "set", New(c)) \/ MemoryWrite(c, "delete", None)
       PROVE TypeOK'
  BY <1>16, <1>17, NewType DEF MemoryWrite, Asks
<1>18. CASE Lapse
  <2>1. memory' \in [Processes -> C!Entry \cup {None}]
    BY <1>18, FoundType DEF Lapse
  <2>2. QED
    BY <1>18, <2>1, FoundType DEF Lapse, config, links
<1>19. QED
  BY <1>1, <1>2, <1>3, <1>4, <1>5, <1>7, <1>8, <1>9, <1>10, <1>11, <1>12, <1>13, <1>14, <1>15,
     <1>17, <1>18 DEF Next

\* Answering c leaves the others where they are.
LEMMA InsideAnswered ==
    ASSUME TypeOK, InsideInv, NEW c \in Clients, UNCHANGED <<backend, request>>,
           inside' \subseteq inside, c \notin inside',
           \A d \in Clients \ {c} : reply'[d] = reply[d]
    PROVE  InsideInv'
BY DEF InsideInv, TypeOK

LEMMA InsideStep ==
    ASSUME TypeOK, InsideInv, [Next]_vars
    PROVE  InsideInv'
<1>1. CASE UNCHANGED <<backend, request, reply, inside>>
  BY <1>1 DEF InsideInv
<1>2. CASE UNCHANGED vars \/ Outage \/ Recover \/ Lapse
  BY <1>1, <1>2 DEF vars, Outage, Recover, Lapse, config
<1>3. ASSUME NEW p \in Processes, Start(p) PROVE InsideInv'
  BY <1>1, <1>3 DEF Start, config
<1>4. ASSUME NEW c \in Clients, NEW r \in C!Requests, Call(c, r) PROVE InsideInv'
  BY <1>4 DEF Call, InsideInv, config, TypeOK
<1>5. ASSUME NEW c \in Clients, Return(c) PROVE InsideInv'
  BY <1>5 DEF Return, InsideInv, config, TypeOK
<1>6. ASSUME NEW c \in Clients, NEW ok, NEW v, Answer(c, ok, v), inside' \subseteq inside,
             c \notin inside'
      PROVE InsideInv'
  <2>1. \A d \in Clients \ {c} : reply'[d] = reply[d]
    BY <1>6 DEF Answer, TypeOK
  <2>2. QED
    BY <1>6, <2>1, InsideAnswered DEF Answer, config
<1>7. ASSUME NEW c \in Clients, NEW kind, Asks(c, "redis", kind) PROVE c \notin inside
  BY <1>7 DEF Asks, InsideInv
<1>8. ASSUME NEW c \in Clients, RedisGet(c) PROVE InsideInv'
  BY <1>6, <1>7, <1>8 DEF RedisGet
<1>9. ASSUME NEW c \in Clients, RedisSet(c) \/ RedisDelete(c) PROVE InsideInv'
  BY <1>6, <1>7, <1>9 DEF RedisSet, RedisDelete, RedisWrite, RedisWriteUnanswered
<1>10. ASSUME NEW c \in Clients, KvGet(c) PROVE InsideInv'
  <2>1. c \notin inside
    BY <1>10 DEF KvGet, Asks, InsideInv
  <2>2. QED
    BY <1>6, <1>10, <2>1 DEF KvGet
<1>11. ASSUME NEW c \in Clients, NEW kind \in {"set", "delete"}, KvRead(c, kind) PROVE InsideInv'
  BY <1>11 DEF KvRead, Asks, InsideInv, config
<1>12. ASSUME NEW c \in Clients, KvSet(c) \/ KvSetFails(c) \/ KvDelete(c) \/ MemoryPop(c)
       PROVE InsideInv'
  BY <1>6, <1>12 DEF KvSet, KvSetFails, KvDelete, MemoryPop, Leave
<1>13. ASSUME NEW c \in Clients, MemoryGet(c) PROVE InsideInv'
  <2>1. CASE inside' = inside \cup {c} /\ UNCHANGED <<config, request, reply>>
    BY <1>13, <2>1 DEF MemoryGet, Asks, InsideInv, config
  <2>2. CASE Answer(c, TRUE, Found(Mine(c))) /\ UNCHANGED inside
    BY <1>6, <1>13, <2>2 DEF MemoryGet
  <2>3. QED
    BY <1>13, <2>1, <2>2 DEF MemoryGet
<1>14. ASSUME NEW c \in Clients, NEW kind \in {"set", "delete"}, NEW e, MemoryWrite(c, kind, e)
       PROVE InsideInv'
  <2>1. c \notin inside
    BY <1>14 DEF MemoryWrite, Asks, InsideInv
  <2>2. QED
    BY <1>6, <1>14, <2>1 DEF MemoryWrite
<1>15. ASSUME NEW c \in Clients,
              MemoryWrite(c, "set", New(c)) \/ MemoryWrite(c, "delete", None)
       PROVE InsideInv'
  BY <1>14, <1>15
<1>16. ASSUME NEW c \in Clients, KvRead(c, "set") \/ KvRead(c, "delete") PROVE InsideInv'
  BY <1>11, <1>16
<1>17. QED
  BY <1>2, <1>4, <1>8, <1>9, <1>10, <1>12, <1>13, <1>15, <1>16, <1>3, <1>5 DEF Next

-----------------------------------------------------------------------------
(* RedisCache.                                                             *)

Rest == RowInv /\ KeptInv /\ SeenInv /\ MemoryInv

\* A step of the contract, or one the contract does not speak of.
Promised ==
    \/ diverged'
    \/ \E c \in Clients : FallsBackOnOld(c)
    \/ [C!Next]_(C!vars)

\* A step that takes no effect on what the other invariants speak of.
LEMMA CalmStep ==
    ASSUME Inv, UNCHANGED <<backend, kept, home, row, memory, truth, diverged>>,
           \A c \in inside' : /\ c \in inside \/ seen'[c] = row
                              /\ c \in inside => seen'[c] = seen[c] /\ overtaken'[c] = overtaken[c],
           kept /\ backend = "memory" => inside' = {}
    PROVE  Rest'
<1> USE DEF Inv, Rest
<1>1. RowInv' /\ KeptInv'
  BY DEF RowInv, KeptInv
<1>2. SeenInv'
  BY DEF SeenInv
<1>3. MemoryInv'
  BY DEF MemoryInv, Mine
<1>4. QED
  BY <1>1, <1>2, <1>3

LEMMA RedisGetStep ==
    ASSUME Inv, NEW c \in Clients, RedisGet(c)
    PROVE  Rest' /\ Promised
<1> DEFINE e == IF Reaches(c) THEN row ELSE Mine(c)
<1>1. /\ Asks(c, "redis", "get")
      /\ reply' = [reply EXCEPT ![c] = [ok |-> TRUE, value |-> Found(e)]]
      /\ UNCHANGED <<backend, kept, home, linked, started, up, cuts, row, memory, request, inside,
                     seen, diverged, truth, overtaken>>
  BY DEF RedisGet, Answer, NoEffect, links, config
<1>2. Rest'
  BY <1>1, CalmStep DEF Inv, KeptInv
<1>3. Promised
  <2>1. CASE diverged \/ (~Reaches(c) /\ Mine(c) # None)
    BY <1>1, <2>1 DEF Promised, FallsBackOnOld
  <2>2. CASE ~diverged /\ Reaches(c)
    <3>1. e = truth
      BY <1>1, <2>2 DEF Inv, RowInv, Asks
    <3>2. CASE Found(e) = None
      <4>1. truth = None \/ ~kept
        BY <3>1, <3>2, EntryFacts DEF Found, Inv, KeptInv, TypeOK, C!Entry
      <4>2. C!Miss(c)
        BY <1>1, <3>2, <4>1 DEF C!Miss, C!Pending, C!Answer, C!Done, Asks
      <4>3. QED
        BY <4>2 DEF Promised, C!Next
    <3>3. CASE Found(e) # None
      <4>1. truth # None /\ ~truth.lapsed /\ Found(e) = truth.value
        BY <3>1, <3>3 DEF Found
      <4>2. C!Hit(c)
        BY <1>1, <4>1 DEF C!Hit, C!Pending, C!Answer, Asks
      <4>3. QED
        BY <4>2 DEF Promised, C!Next
    <3>4. QED
      BY <3>2, <3>3
  <2>3. CASE ~diverged /\ ~Reaches(c) /\ Mine(c) = None
    <3>1. Found(e) = None
      BY <2>3 DEF Found
    <3>2. truth = None \/ ~kept
      BY <1>1, <2>3 DEF Inv, RowInv, KeptInv, Asks
    <3>3. C!Miss(c)
      BY <1>1, <3>1, <3>2 DEF C!Miss, C!Pending, C!Answer, C!Done, Asks
    <3>4. QED
      BY <3>3 DEF Promised, C!Next
  <2>4. QED
    BY <2>1, <2>2, <2>3
<1>4. QED
  BY <1>2, <1>3

\* A write is one of the contract's when it takes effect as e.
LEMMA WriteStep ==
    ASSUME NEW c \in Clients, NEW store, NEW k \in {"set", "delete"}, NEW e,
           Asks(c, store, k), Answer(c, TRUE, None), Effect(c, e),
           e = IF k = "set" THEN New(c) ELSE None
    PROVE  Promised
<1>1. CASE k = "set"
  <2>1. C!Write(c)
    BY <1>1 DEF C!Write, C!Pending, C!Answer, C!Overtake, C!Done, Asks, Answer, Effect, New, config
  <2>2. QED
    BY <2>1 DEF Promised, C!Next
<1>2. CASE k = "delete"
  <2>1. C!Erase(c)
    BY <1>2 DEF C!Erase, C!Pending, C!Answer, C!Overtake, C!Done, Asks, Answer, Effect, config
  <2>2. QED
    BY <2>1 DEF Promised, C!Next
<1>3. QED
  BY <1>1, <1>2

LEMMA RedisWriteStep ==
    ASSUME Inv, NEW c \in Clients, NEW k \in {"set", "delete"}, NEW e,
           RedisWrite(c, k, e) \/ RedisWriteUnanswered(c, k, e),
           e = IF k = "set" THEN New(c) ELSE None
    PROVE  Rest' /\ Promised
<1>1. /\ Asks(c, "redis", k) /\ Answer(c, TRUE, None) /\ Effect(c, e)
      /\ backend = "redis" /\ UNCHANGED <<backend, kept, home>>
  BY DEF RedisWrite, RedisWriteUnanswered, Asks, Answer, config
<1>2. Promised
  BY <1>1, WriteStep
<1>3. \/ row' = e /\ ~diverged' /\ Reaches(c)
      \/ row' = row /\ diverged'
  <2>1. CASE RedisWrite(c, k, e) /\ Reaches(c)
    BY <2>1 DEF RedisWrite
  <2>2. CASE RedisWrite(c, k, e) /\ ~Reaches(c)
    BY <2>2 DEF RedisWrite
  <2>3. CASE RedisWriteUnanswered(c, k, e)
    BY <2>3 DEF RedisWriteUnanswered
  <2>4. QED
    BY <2>1, <2>2, <2>3
<1>4. truth' = e
  BY <1>1 DEF Effect
<1>5. RowInv'
  BY <1>1, <1>3, <1>4 DEF RowInv
<1>6. KeptInv'
  <2>1. e # None => e = New(c) /\ k = "set" /\ request[c].kind = "set"
    BY <1>1 DEF Asks
  <2>2. e # None => ~e.lapsed
    BY <2>1 DEF New
  <2>3. kept /\ Reaches(c) => e = None
    BY <2>1 DEF Reaches
  <2>4. QED
    BY <1>1, <1>3, <1>4, <2>2, <2>3 DEF Inv, KeptInv
<1>7. SeenInv' /\ MemoryInv'
  BY <1>1 DEF SeenInv, MemoryInv
<1>8. QED
  BY <1>2, <1>5, <1>6, <1>7 DEF Rest

-----------------------------------------------------------------------------
(* PostgresCache.                                                          *)

LEMMA KvGetStep ==
    ASSUME Inv, NEW c \in Clients, KvGet(c)
    PROVE  Rest' /\ Promised
<1>1. /\ Asks(c, "postgres", "get")
      /\ reply' = [reply EXCEPT ![c] = [ok |-> TRUE, value |-> Found(row)]]
      /\ UNCHANGED <<backend, kept, home, linked, started, up, cuts, row, memory, request, inside,
                     seen, diverged, truth, overtaken>>
  BY DEF KvGet, Answer, NoEffect, links, config
<1>2. Rest'
  BY <1>1, CalmStep DEF Inv, KeptInv
<1>3. row = truth
  BY <1>1 DEF Inv, RowInv, Asks
<1>4. CASE Found(row) = None
  <2>1. truth = None \/ ~kept
    BY <1>3, <1>4, EntryFacts DEF Found, Inv, KeptInv, TypeOK, C!Entry
  <2>2. C!Miss(c)
    BY <1>1, <1>4, <2>1 DEF C!Miss, C!Pending, C!Answer, C!Done, Asks
  <2>3. QED
    BY <1>2, <2>2 DEF Promised, C!Next
<1>5. CASE Found(row) # None
  <2>1. C!Hit(c)
    BY <1>1, <1>3, <1>5 DEF C!Hit, C!Pending, C!Answer, Asks, Found
  <2>2. QED
    BY <1>2, <2>1 DEF Promised, C!Next
<1>6. QED
  BY <1>4, <1>5

LEMMA KvReadStep ==
    ASSUME Inv, NEW c \in Clients, NEW k \in {"set", "delete"}, KvRead(c, k)
    PROVE  Rest' /\ Promised
<1>1. /\ c \notin inside /\ inside' = inside \cup {c} /\ seen' = [seen EXCEPT ![c] = row]
      /\ backend = "postgres"
      /\ UNCHANGED <<backend, kept, home, row, memory, request, reply, truth, overtaken, diverged>>
  BY DEF KvRead, NoEffect, Asks, config
<1>2. Rest'
  BY <1>1, CalmStep DEF Inv, TypeOK
<1>3. UNCHANGED C!vars
  BY <1>1 DEF C!vars
<1>4. QED
  BY <1>2, <1>3 DEF Promised

\* What a session has read is in the row, or the session has been overtaken.
LEMMA SeenOrOvertaken ==
    ASSUME Inv, NEW c \in inside, backend = "postgres"
    PROVE  /\ c \in Clients
           /\ seen[c] # row => overtaken[c] /\ (row # None => ~row.lapsed)
BY DEF Inv, SeenInv, TypeOK

\* A session that found the row as it is writes New(c).
LEMMA SetAsSeen ==
    ASSUME Inv, NEW c \in Clients, Asks(c, "postgres", "set"), seen[c] = row
    PROVE  (IF Unchanged(c) THEN row ELSE Updated(c)) = New(c)
<1>1. New(c) \in C!Entry
  BY NewType DEF Asks, Inv
<1>2. CASE row = None \/ Changed(c)
  BY <1>2 DEF Unchanged, Updated
<1>3. CASE row # None /\ ~Changed(c)
  <2>1. row \in C!Entry /\ row.value = request[c].value
    BY <1>3 DEF Inv, TypeOK, Changed
  <2>2. [value |-> row.value, lapsed |-> FALSE] = New(c)
    BY <2>1 DEF New
  <2>3. ASSUME kept PROVE row = [value |-> row.value, lapsed |-> FALSE]
    <3>1. ~row.lapsed
      BY <1>3, <2>3 DEF Inv, KeptInv
    <3>2. QED
      BY <2>1, <3>1 DEF C!Entry
  <2>4. QED
    BY <1>3, <2>2, <2>3 DEF Unchanged, Updated
<1>4. QED
  BY <1>2, <1>3

\* A session that found another row, and whose update is not New(c), changes
\* nothing.
LEMMA SetAsOvertaken ==
    ASSUME Inv, NEW c \in inside, Asks(c, "postgres", "set"), seen[c] # row, ~KvConflict(c),
           (IF Unchanged(c) THEN row ELSE Updated(c)) # New(c)
    PROVE  (IF Unchanged(c) THEN row ELSE Updated(c)) = row
<1>1. CASE Unchanged(c)
  BY <1>1
<1>2. CASE ~Unchanged(c)
  <2>1. row # None /\ Updated(c) = [value |-> row.value, lapsed |-> FALSE]
    BY <1>2 DEF Updated, KvConflict
  <2>2. row \in C!Entry /\ ~row.lapsed
    BY <2>1, SeenOrOvertaken DEF Inv, TypeOK, Asks
  <2>3. QED
    BY <1>2, <2>1, <2>2 DEF C!Entry
<1>3. QED
  BY <1>1, <1>2

\* After a write of c that takes effect as e.
LEMMA EffectStep ==
    ASSUME Inv, NEW c \in Clients, backend = "postgres",
           NEW e, e = None \/ (e = New(c) /\ ~e.lapsed),
           row' = e, Effect(c, e), Leave(c),
           UNCHANGED <<backend, kept, home, memory, diverged>>
    PROVE  Rest'
<1>1. truth' = e /\ RowInv'
  BY DEF Effect, RowInv, Inv
<1>2. KeptInv'
  BY <1>1 DEF KeptInv, Inv
<1>3. \A d \in inside' : overtaken'[d]
  BY DEF Effect, Leave, Inv, TypeOK, InsideInv
<1>4. SeenInv'
  BY <1>3 DEF SeenInv
<1>5. MemoryInv'
  BY DEF MemoryInv
<1>6. QED
  BY <1>1, <1>2, <1>4, <1>5 DEF Rest

LEMMA KvSetStep ==
    ASSUME Inv, NEW c \in Clients, KvSet(c)
    PROVE  Rest' /\ Promised
<1>1. /\ Asks(c, "postgres", "set") /\ c \in inside /\ ~KvConflict(c)
      /\ row' = (IF Unchanged(c) THEN row ELSE Updated(c))
      /\ Answer(c, TRUE, None) /\ Leave(c)
      /\ backend = "postgres" /\ UNCHANGED <<backend, kept, home, memory, diverged>>
  BY DEF KvSet, Asks, Answer, config
<1>2. CASE row' = New(c)
  <2>1. Effect(c, New(c))
    BY <1>2 DEF KvSet
  <2>2. ~New(c).lapsed
    BY DEF New
  <2>3. Rest'
    BY <1>1, <1>2, <2>1, <2>2, EffectStep
  <2>4. Promised
    BY <1>1, <2>1, WriteStep
  <2>5. QED
    BY <2>3, <2>4
<1>3. CASE row' # New(c)
  <2>1. UNCHANGED <<truth, overtaken>>
    BY <1>3 DEF KvSet, NoEffect
  <2>2. seen[c] # row
    BY <1>1, <1>3, SetAsSeen
  <2>3. row' = row
    BY <1>1, <1>3, <2>2, SetAsOvertaken
  <2>4. overtaken[c]
    BY <1>1, <2>2, SeenOrOvertaken
  <2>5. Rest'
    BY <1>1, <2>1, <2>3, CalmStep DEF Leave, Inv, TypeOK
  <2>6. C!GiveWay(c)
    BY <1>1, <2>1, <2>4 DEF C!GiveWay, C!Pending, C!Answer, C!Done, Asks, Answer
  <2>7. QED
    BY <2>5, <2>6 DEF Promised, C!Next
<1>4. QED
  BY <1>2, <1>3

\* A set that raises has been overtaken.
LEMMA KvSetFailsStep ==
    ASSUME Inv, NEW c \in Clients, KvSetFails(c)
    PROVE  Rest' /\ Promised
<1>1. /\ Asks(c, "postgres", "set") /\ c \in inside /\ KvConflict(c)
      /\ Answer(c, FALSE, None) /\ Leave(c)
      /\ backend = "postgres"
      /\ UNCHANGED <<backend, kept, home, row, memory, truth, overtaken, diverged>>
  BY DEF KvSetFails, Asks, Answer, NoEffect, config
<1>2. seen[c] # row
  BY <1>1 DEF KvConflict
<1>3. overtaken[c]
  BY <1>1, <1>2, SeenOrOvertaken
<1>4. Rest'
  BY <1>1, CalmStep DEF Leave, Inv, TypeOK
<1>5. C!Refuse(c)
  BY <1>1, <1>3 DEF C!Refuse, C!Pending, C!Answer, Asks, Answer
<1>6. QED
  BY <1>4, <1>5 DEF Promised, C!Next

LEMMA KvDeleteStep ==
    ASSUME Inv, NEW c \in Clients, KvDelete(c)
    PROVE  Rest' /\ Promised
<1>1. /\ Asks(c, "postgres", "delete") /\ c \in inside /\ row' = AfterDelete(c)
      /\ Answer(c, TRUE, None) /\ Leave(c)
      /\ backend = "postgres" /\ UNCHANGED <<backend, kept, home, memory, diverged>>
  BY DEF KvDelete, Asks, Answer, config
<1>2. CASE row' = None
  <2>1. Effect(c, None)
    BY <1>2 DEF KvDelete
  <2>2. Rest'
    BY <1>1, <1>2, <2>1, EffectStep
  <2>3. Promised
    BY <1>1, <2>1, WriteStep
  <2>4. QED
    BY <2>2, <2>3
<1>3. CASE row' # None
  <2>1. row' = row /\ seen[c] # row
    BY <1>1, <1>3 DEF AfterDelete
  <2>2. UNCHANGED <<truth, overtaken>>
    BY <1>3 DEF KvDelete, NoEffect
  <2>3. overtaken[c]
    BY <1>1, <2>1, SeenOrOvertaken
  <2>4. Rest'
    BY <1>1, <2>1, <2>2, CalmStep DEF Leave, Inv, TypeOK
  <2>5. C!GiveWay(c)
    BY <1>1, <2>2, <2>3 DEF C!GiveWay, C!Pending, C!Answer, C!Done, Asks, Answer
  <2>6. QED
    BY <2>4, <2>5 DEF Promised, C!Next
<1>4. QED
  BY <1>2, <1>3

-----------------------------------------------------------------------------
(* MemoryCache.                                                            *)

LEMMA MemoryGetStep ==
    ASSUME Inv, NEW c \in Clients, MemoryGet(c)
    PROVE  Rest' /\ Promised
<1> DEFINE e == Mine(c)
<1>1. /\ Asks(c, "memory", "get") /\ c \notin inside /\ backend = "memory"
      /\ UNCHANGED <<backend, kept, home, row, memory, seen, truth, overtaken, diverged>>
  <2>1. UNCHANGED config
    BY DEF MemoryGet, Answer
  <2>2. QED
    BY <2>1 DEF MemoryGet, NoEffect, Asks, config
<1>2. /\ e = truth \/ (e = None /\ ~kept)
      /\ e \in C!Entry \cup {None}
      /\ kept /\ truth # None => ~truth.lapsed
      /\ kept => inside = {}
  BY <1>1 DEF Inv, MemoryInv, KeptInv, TypeOK, Mine
<1>3. CASE e # None /\ Found(e) = None
  <2>1. inside' = inside \cup {c} /\ UNCHANGED <<request, reply>>
    BY <1>3 DEF MemoryGet
  <2>2. ~kept
    BY <1>2, <1>3, EntryFacts DEF Found, C!Entry
  <2>3. RowInv' /\ KeptInv' /\ SeenInv' /\ MemoryInv'
    BY <1>1, <2>2 DEF Inv, RowInv, KeptInv, SeenInv, MemoryInv, Mine
  <2>4. UNCHANGED C!vars
    BY <1>1, <2>1 DEF C!vars
  <2>5. QED
    BY <2>3, <2>4 DEF Promised, Rest
<1>4. CASE e = None \/ Found(e) # None
  <2>1. Answer(c, TRUE, Found(e)) /\ UNCHANGED inside
    BY <1>4 DEF MemoryGet
  <2>2. Rest'
    BY <1>1, <1>2, <2>1, CalmStep
  <2>3. CASE Found(e) # None
    <3>1. e = truth /\ truth # None /\ ~truth.lapsed /\ Found(e) = truth.value
      BY <1>2, <2>3 DEF Found
    <3>2. C!Hit(c)
      BY <1>1, <2>1, <3>1 DEF C!Hit, C!Pending, C!Answer, Asks, Answer
    <3>3. QED
      BY <2>2, <3>2 DEF Promised, C!Next
  <2>4. CASE e = None
    <3>1. Found(e) = None
      BY <2>4 DEF Found
    <3>2. C!Miss(c)
      BY <1>1, <1>2, <2>1, <2>4, <3>1 DEF C!Miss, C!Pending, C!Answer, C!Done, Asks, Answer
    <3>3. QED
      BY <2>2, <3>2 DEF Promised, C!Next
  <2>5. QED
    BY <1>4, <2>3, <2>4
<1>5. QED
  BY <1>3, <1>4

LEMMA MemoryPopStep ==
    ASSUME Inv, NEW c \in Clients, MemoryPop(c)
    PROVE  Rest' /\ Promised
<1>1. /\ Asks(c, "memory", "get") /\ c \in inside /\ backend = "memory"
      /\ memory' = [memory EXCEPT ![home[c]] = None]
      /\ Answer(c, TRUE, None) /\ Leave(c)
      /\ UNCHANGED <<backend, kept, home, row, truth, overtaken, diverged>>
  BY DEF MemoryPop, IntoMemory, Asks, Answer, NoEffect, config
<1>2. ~kept
  BY <1>1 DEF Inv, KeptInv
<1>3. MemoryInv'
  BY <1>1, <1>2 DEF Inv, MemoryInv, Mine, TypeOK
<1>4. RowInv' /\ KeptInv' /\ SeenInv'
  BY <1>1, <1>2 DEF Inv, RowInv, KeptInv, SeenInv
<1>5. C!Miss(c)
  BY <1>1, <1>2 DEF C!Miss, C!Pending, C!Answer, C!Done, Asks, Answer
<1>6. QED
  BY <1>3, <1>4, <1>5 DEF Promised, Rest, C!Next

LEMMA MemoryWriteStep ==
    ASSUME Inv, NEW c \in Clients, NEW k \in {"set", "delete"}, NEW e, MemoryWrite(c, k, e),
           e = IF k = "set" THEN New(c) ELSE None
    PROVE  Rest' /\ Promised
<1>1. /\ Asks(c, "memory", k) /\ backend = "memory"
      /\ memory' = [memory EXCEPT ![home[c]] = e] /\ truth' = e
      /\ Answer(c, TRUE, None) /\ Effect(c, e)
      /\ UNCHANGED <<backend, kept, home, row, inside, diverged>>
  BY DEF MemoryWrite, IntoMemory, Asks, Answer, Effect, config
<1>2. MemoryInv'
  BY <1>1 DEF Inv, MemoryInv, Mine, TypeOK
<1>3. e # None => ~e.lapsed
  BY DEF New
<1>4. RowInv' /\ KeptInv' /\ SeenInv'
  BY <1>1, <1>3 DEF Inv, RowInv, KeptInv, SeenInv
<1>5. QED
  BY <1>1, <1>2, <1>4, WriteStep DEF Rest

-----------------------------------------------------------------------------
(* What is promised of every step.                                         *)

LEMMA LapseStep ==
    ASSUME Inv, Lapse
    PROVE  Rest' /\ Promised
<1>1. /\ ~kept /\ inside = {} /\ truth # None
      /\ truth' = Lapsed(truth) /\ row' = Lapsed(row)
      /\ UNCHANGED <<backend, kept, home, request, reply, inside, overtaken, diverged>>
  BY DEF Lapse, config
<1>2. RowInv' /\ KeptInv' /\ SeenInv'
  BY <1>1 DEF Inv, RowInv, KeptInv, SeenInv
<1>3. MemoryInv'
  <2>1. CASE backend = "memory"
    <3>1. \A c \in Clients : memory'[home[c]] = Lapsed(memory[home[c]])
      BY <2>1 DEF Lapse, Inv, TypeOK
    <3>2. QED
      BY <1>1, <2>1, <3>1 DEF Inv, MemoryInv, Mine, Lapsed
  <2>2. CASE backend # "memory"
    BY <1>1, <2>2 DEF MemoryInv
  <2>3. QED
    BY <2>1, <2>2
<1>4. C!Lapse
  BY <1>1 DEF C!Lapse, Lapsed
<1>5. QED
  BY <1>2, <1>3, <1>4 DEF Rest, Promised, C!Next

LEMMA CallStep ==
    ASSUME Inv, NEW c \in Clients, NEW r \in C!Requests, Call(c, r)
    PROVE  Rest' /\ Promised
<1>1. c \notin inside
  BY DEF Call, Inv, InsideInv
<1>2. Rest'
  BY <1>1, CalmStep DEF Call, config, Inv, TypeOK, KeptInv
<1>3. C!Call(c, r)
  BY DEF Call, C!Call, config
<1>4. QED
  BY <1>2, <1>3 DEF Promised, C!Next

LEMMA ReturnStep ==
    ASSUME Inv, NEW c \in Clients, Return(c)
    PROVE  Rest' /\ Promised
<1>1. Rest'
  BY CalmStep DEF Return, config, Inv, KeptInv
<1>2. C!Return(c)
  BY DEF Return, C!Return, config
<1>3. QED
  BY <1>1, <1>2 DEF Promised, C!Next

LEMMA ElsewhereStep ==
    ASSUME Inv, UNCHANGED vars \/ Outage \/ Recover \/ \E p \in Processes : Start(p)
    PROVE  Rest' /\ Promised
<1>1. UNCHANGED <<backend, kept, home, row, memory, request, reply, inside, seen, truth,
                  overtaken, diverged>>
  BY DEF vars, Outage, Recover, Start, config
<1>2. Rest'
  BY <1>1, CalmStep DEF Inv, KeptInv
<1>3. UNCHANGED C!vars
  BY <1>1 DEF C!vars
<1>4. QED
  BY <1>2, <1>3 DEF Promised

LEMMA RestStep ==
    ASSUME Inv, [Next]_vars
    PROVE  Rest' /\ Promised
<1>1. ASSUME NEW c \in Clients, RedisSet(c) \/ RedisDelete(c) PROVE Rest' /\ Promised
  BY <1>1, RedisWriteStep DEF RedisSet, RedisDelete
<1>2. ASSUME NEW c \in Clients,
             MemoryWrite(c, "set", New(c)) \/ MemoryWrite(c, "delete", None)
      PROVE Rest' /\ Promised
  BY <1>2, MemoryWriteStep
<1>3. QED
  BY <1>1, <1>2, ElsewhereStep, CallStep, ReturnStep, RedisGetStep, KvGetStep, KvReadStep,
     KvSetStep, KvSetFailsStep, KvDeleteStep, MemoryGetStep, MemoryPopStep, LapseStep DEF Next

LEMMA InvStep ==
    ASSUME Inv, [Next]_vars
    PROVE  Inv'
<1>1. TypeOK' /\ InsideInv'
  BY TypeStep, InsideStep DEF Inv
<1>2. QED
  BY <1>1, RestStep DEF Inv, Rest

\* The state of the backends is well typed, and what they hold and return are
\* entries and values, for any number of threads, processes and outages.
THEOREM TypeCorrect == Spec => []TypeOK
<1>1. Inv => TypeOK
  BY DEF Inv
<1>2. QED
  BY InitInv, InvStep, <1>1, PTL DEF Spec

\* app/cache/base.py:3, "All cache backends expose the same minimal
\* get/set/delete surface, so callers never care": every step of the three
\* backends is one of the contract, but for those after a write that went to
\* the memory of a process, until the next one reaches Redis, and those in
\* which a memory answers with what such a write left there.
THEOREM ContractIsKept == Spec => ContractKept
<1>1. Inv /\ [Next]_vars => [Promised]_vars
  BY RestStep
<1>2. QED
  BY InitInv, InvStep, <1>1, PTL DEF Spec, ContractKept, Promised
=============================================================================
