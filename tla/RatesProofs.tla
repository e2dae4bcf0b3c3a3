----------------------------- MODULE RatesProofs -----------------------------
(***************************************************************************)
(* Whatever the durations, the number of replicas and of callers: rates    *)
(* are served no longer than Rates' bound, a burst is one request, what    *)
(* Redis has is not asked for again, and the mutex is never left behind.   *)
(***************************************************************************)
EXTENDS CurrencyService, TLAPS, FiniteSetTheorems

Single(S) == \A x, y \in S : x = y

\* The oldest a table can be when it is stored, when it is loaded, and when it is
\* served from memory.
Stored == Least(Hold, Patience - 1)
Loaded == Stored + TTL - 1
Lasts == Larger(TTL, Grace)

Types ==
    /\ memory \in [Replicas -> SUBSET [age : 0 .. MaxAge, since : 0 .. MaxSince]]
    /\ requested \in [Replicas -> SUBSET (0 .. MaxSince)]
    /\ shared \in SUBSET [age : 0 .. MaxAge, left : 1 .. TTL]
    /\ mutex \in [Replicas -> Callers \cup {NoCaller}]
    /\ pc \in [Callers -> {"idle", "waiting", "reading", "fetching", "blind",
                           "storing", "replying"}]
    /\ left \in [Callers -> 0 .. Patience]
    /\ held \in [Callers -> 0 .. Hold]
    /\ got \in [Callers -> SUBSET (0 .. MaxAge)]

OneEach ==
    /\ \A r \in Replicas : Single(memory[r]) /\ Single(requested[r])
    /\ Single(shared)
    /\ \A c \in Callers : Single(got[c])

\* Where a call stands, given how long it has held the mutex.
CallOK(c) ==
    /\ pc[c] \in {"idle", "waiting"} => held[c] = 0
    /\ Refreshing(c) => held[c] + left[c] <= Patience
    /\ pc[c] = "storing" => \A a \in got[c] : a <= held[c]
    /\ pc[c] = "replying" => \A a \in got[c] : a + left[c] <= Loaded + Lasts - 1 + Patience
    /\ pc[c] \in {"reading", "fetching", "blind"} =>
           \A t \in requested[ReplicaOf[c]] : TTL <= t - held[c]
    /\ pc[c] = "fetching" /\ ~Late(c) => \A e \in shared : TTL - e.left <= held[c]

\* A table in memory was loaded at an age Redis or the provider can give, and after
\* the last request.
MemoryOK(r) ==
    /\ \A m \in memory[r] : m.since = MaxSince \/ m.age <= Loaded + m.since
    /\ \A t \in requested[r] : memory[r] # {} /\ \A m \in memory[r] : m.since <= t

\* A table in Redis was stored young.
SharedOK == \A e \in shared : e.age + e.left <= Stored + TTL

IInv == /\ Types /\ OneEach /\ MutexServes /\ SharedOK
        /\ \A c \in Callers : CallOK(c)
        /\ \A r \in Replicas : MemoryOK(r)

-----------------------------------------------------------------------------

LEMMA SingleCounts ==
    ASSUME NEW S, Single(S)
    PROVE  AtMostOne(S)
<1>1. CASE S = {}
  BY <1>1, FS_EmptySet DEF AtMostOne
<1>2. CASE S # {}
  <2>1. PICK x : S = {x}
    BY <1>2 DEF Single
  <2> QED
    BY <2>1, FS_Singleton DEF AtMostOne
<1> QED
  BY <1>1, <1>2

LEMMA Durations ==
    /\ TTL \in Nat /\ TTL > 0 /\ Grace \in Nat /\ Grace > 0
    /\ Hold \in Nat /\ Hold > 0 /\ Patience \in Nat /\ Patience > 0
    /\ Stored \in Nat /\ Stored <= Hold /\ Stored <= Patience - 1
    /\ \A h \in Nat : h <= Hold /\ h <= Patience - 1 => h <= Stored
    /\ Lasts \in Nat /\ TTL <= Lasts /\ Grace <= Lasts
    /\ Loaded \in Nat /\ Loaded = Stored + TTL - 1
    /\ MaxSince \in Nat /\ MaxSince = Lasts + Hold
    /\ MaxAge \in Nat /\ MaxAge = Hold + TTL + Lasts + Patience - 1
BY DurationAssumption DEF Stored, Loaded, Lasts, MaxSince, MaxAge, Least, Larger

LEMMA Ages ==
    ASSUME NEW a \in Int, NEW max \in Int
    PROVE  /\ Least(a + 1, max) \in Int
           /\ Least(a + 1, max) <= a + 1 /\ Least(a + 1, max) <= max
           /\ Least(a + 1, max) = a + 1 \/ Least(a + 1, max) = max
BY DEF Least

LEMMA CallFacts ==
    ASSUME Types, NEW c \in Callers
    PROVE  /\ ReplicaOf[c] \in Replicas /\ c # NoCaller
           /\ pc[c] \in {"idle", "waiting", "reading", "fetching", "blind",
                         "storing", "replying"}
           /\ left[c] \in Nat /\ left[c] <= Patience
           /\ held[c] \in Nat /\ held[c] <= Hold
           /\ \A a \in got[c] : a \in Nat /\ a <= MaxAge
           /\ \A t \in requested[ReplicaOf[c]] : t \in Nat
           /\ Late(c) <=> ~(left[c] > 0)
<1>1. Patience \in Nat /\ Hold \in Nat /\ MaxAge \in Nat /\ MaxSince \in Nat
  BY Durations
<1> QED
  BY <1>1, CallerAssumption DEF Types, Late

LEMMA MemoryFacts ==
    ASSUME Types, NEW r \in Replicas
    PROVE  /\ \A m \in memory[r] : /\ m.age \in Nat /\ m.age <= MaxAge
                                   /\ m.since \in Nat /\ m.since <= MaxSince
           /\ \A t \in requested[r] : t \in Nat /\ t <= MaxSince
<1>1. MaxAge \in Nat /\ MaxSince \in Nat
  BY Durations
<1> QED
  BY <1>1 DEF Types

LEMMA SharedFacts ==
    ASSUME Types
    PROVE  \A e \in shared : /\ e.age \in Nat /\ e.age <= MaxAge
                             /\ e.left \in Nat /\ e.left > 0 /\ e.left <= TTL
<1>1. MaxAge \in Nat /\ TTL \in Nat
  BY Durations
<1> QED
  BY <1>1 DEF Types

-----------------------------------------------------------------------------
\* What a step of one call leaves alone, and what that keeps.

OthersAlone(c) ==
    /\ \A d \in Callers \ {c} : /\ pc'[d] = pc[d] /\ left'[d] = left[d]
                                 /\ held'[d] = held[d] /\ got'[d] = got[d]
    /\ \A r \in Replicas \ {ReplicaOf[c]} :
           memory'[r] = memory[r] /\ requested'[r] = requested[r]

LEMMA MutexStays ==
    ASSUME Types, MutexServes, NEW c \in Callers,
           \A d \in Callers \ {c} : pc'[d] = pc[d],
           Refreshing(c)' <=> Refreshing(c), mutex' = mutex
    PROVE  MutexServes'
BY DEF MutexServes, Refreshing, Fetching

LEMMA MutexTaken ==
    ASSUME Types, MutexServes, NEW c \in Callers,
           \A d \in Callers \ {c} : pc'[d] = pc[d],
           Refreshing(c)', mutex[ReplicaOf[c]] = NoCaller,
           mutex' = [mutex EXCEPT ![ReplicaOf[c]] = c]
    PROVE  MutexServes'
<1>1. \A d \in Callers \ {c} : Refreshing(d)' <=> Refreshing(d)
  BY DEF Refreshing, Fetching
<1>2. \A d \in Callers : ReplicaOf[d] \in Replicas /\ d # NoCaller
  BY CallFacts
<1> QED
  BY <1>1, <1>2 DEF Types, MutexServes

LEMMA MutexGiven ==
    ASSUME Types, MutexServes, NEW c \in Callers,
           \A d \in Callers \ {c} : pc'[d] = pc[d],
           Refreshing(c), ~Refreshing(c)', Unlock(c)
    PROVE  MutexServes'
<1>1. \A d \in Callers \ {c} : Refreshing(d)' <=> Refreshing(d)
  BY DEF Refreshing, Fetching
<1>2. \A d \in Callers : ReplicaOf[d] \in Replicas /\ d # NoCaller
  BY CallFacts
<1>3. mutex[ReplicaOf[c]] = c
  BY DEF MutexServes
<1> QED
  BY <1>1, <1>2, <1>3 DEF Types, MutexServes, Unlock

\* While a call refreshes, no other of its replica does.
LEMMA Alone ==
    ASSUME Types, MutexServes, NEW c \in Callers, Refreshing(c),
           NEW d \in Callers \ {c}, ReplicaOf[d] = ReplicaOf[c]
    PROVE  ~Refreshing(d)
BY DEF MutexServes

\* A step of one call keeps the invariant if it does so for its own call and table,
\* stores nothing in Redis but what is new, and requests nothing beside another.
LEMMA OneCall ==
    ASSUME IInv, NEW c \in Callers, OthersAlone(c),
           Types', OneEach', MutexServes', SharedOK', CallOK(c)', MemoryOK(ReplicaOf[c])',
           \A e \in shared' : e \in shared \/ e.left = TTL,
           requested'[ReplicaOf[c]] = requested[ReplicaOf[c]] \/ Refreshing(c)
    PROVE  IInv'
<1>1. Types /\ MutexServes
  BY DEF IInv
<1>2. ASSUME NEW r \in Replicas PROVE MemoryOK(r)'
  BY <1>2 DEF IInv, OthersAlone, MemoryOK
<1>3. ASSUME NEW d \in Callers \ {c} PROVE CallOK(d)'
  <2>1. /\ pc'[d] = pc[d] /\ left'[d] = left[d] /\ held'[d] = held[d] /\ got'[d] = got[d]
        /\ CallOK(d)
    BY DEF OthersAlone, IInv
  <2>2. held[d] \in Nat /\ TTL \in Nat
    BY <1>1, CallFacts, Durations
  <2>3. pc[d] \in {"reading", "fetching", "blind"} =>
            requested'[ReplicaOf[d]] = requested[ReplicaOf[d]]
    BY <1>1, Alone, CallFacts DEF OthersAlone, Refreshing, Fetching
  <2>4. pc[d] = "fetching" /\ ~Late(d) => \A e \in shared' : TTL - e.left <= held[d]
    BY <2>1, <2>2 DEF CallOK
  <2> QED
    BY <2>1, <2>3, <2>4 DEF CallOK, Refreshing, Fetching, Late
<1> QED
  BY <1>2, <1>3 DEF IInv

-----------------------------------------------------------------------------
\* The steps of a call.

LEMMA Calling ==
    ASSUME IInv, NEW c \in Callers, Call(c)
    PROVE  IInv'
<1>1. /\ pc[c] = "idle" /\ pc' = [pc EXCEPT ![c] = "waiting"]
      /\ left' = [left EXCEPT ![c] = Patience]
      /\ UNCHANGED <<memory, shared, mutex, held, got, requested>>
  BY DEF Call, Goto
<1>2. Types' /\ OthersAlone(c)
  BY <1>1, Durations DEF IInv, Types, OthersAlone
<1>3. OneEach' /\ SharedOK' /\ MemoryOK(ReplicaOf[c])'
  BY <1>1, CallFacts DEF IInv, OneEach, SharedOK, MemoryOK
<1>4. ~Refreshing(c) /\ ~Refreshing(c)'
  BY <1>1 DEF IInv, Types, Refreshing, Fetching
<1>5. MutexServes'
  BY <1>1, <1>2, <1>4, MutexStays DEF IInv, OthersAlone
<1>6. CallOK(c)'
  BY <1>1, <1>2, <1>4 DEF IInv, Types, CallOK
<1> QED
  BY <1>1, <1>2, <1>3, <1>5, <1>6, OneCall

\* A table that is fresh in memory is young enough to serve; one that is not has
\* been asked for long ago.
LEMMA Locking ==
    ASSUME IInv, NEW c \in Callers, Lock(c)
    PROVE  IInv'
<1> DEFINE r == ReplicaOf[c]
           fresh == {m \in memory[r] : m.since < TTL}
<1>1. /\ pc[c] = "waiting" /\ mutex[r] = NoCaller /\ r \in Replicas
      /\ UNCHANGED <<memory, shared, left, held, requested>>
      /\ held[c] = 0 /\ left[c] \in Nat /\ left[c] <= Patience
  BY CallFacts DEF Lock, Free, IInv, CallOK
<1>2. ~Refreshing(c)
  BY <1>1 DEF Refreshing, Fetching
<1>3. CASE fresh # {}
  <2>1. /\ got' = [got EXCEPT ![c] = {m.age : m \in fresh}]
        /\ pc' = [pc EXCEPT ![c] = "replying"]
        /\ UNCHANGED mutex
    BY <1>3 DEF Lock, Answer, Goto
  <2>2. {m.age : m \in fresh} \in SUBSET (0 .. MaxAge)
    BY <1>1 DEF IInv, Types
  <2>3. Types' /\ OthersAlone(c)
    BY <1>1, <2>1, <2>2 DEF IInv, Types, OthersAlone
  <2>4. OneEach' /\ SharedOK' /\ MemoryOK(r)'
    <3>1. Single({m.age : m \in fresh})
      BY <1>1 DEF IInv, OneEach, Single
    <3>2. \A d \in Callers : Single(got'[d])
      BY <2>1, <3>1 DEF IInv, Types, OneEach
    <3> QED
      BY <1>1, <3>2 DEF IInv, OneEach, SharedOK, MemoryOK
  <2>5. pc'[c] = "replying" /\ got'[c] = {m.age : m \in fresh} /\ ~Refreshing(c)'
    BY <2>1 DEF IInv, Types, Refreshing, Fetching
  <2>6. MutexServes'
    BY <1>2, <2>1, <2>3, <2>5, MutexStays DEF IInv, OthersAlone
  <2>7. ASSUME NEW m \in fresh PROVE m.age + left[c] <= Loaded + Lasts - 1 + Patience
    <3>1. m.age <= Loaded + m.since
      BY <1>1, MemoryFacts, Durations DEF IInv, MemoryOK
    <3> QED
      BY <1>1, <3>1, MemoryFacts, Durations DEF IInv
  <2>8. CallOK(c)'
    BY <1>1, <2>5, <2>7 DEF CallOK
  <2> QED
    BY <1>1, <2>3, <2>4, <2>6, <2>8, OneCall
<1>4. CASE fresh = {}
  <2>1. /\ mutex' = [mutex EXCEPT ![r] = c]
        /\ pc' = [pc EXCEPT ![c] = "reading"]
        /\ UNCHANGED got
    BY <1>4 DEF Lock, Goto
  <2>2. Types' /\ OthersAlone(c)
    BY <1>1, <2>1 DEF IInv, Types, OthersAlone
  <2>3. OneEach' /\ SharedOK' /\ MemoryOK(r)'
    BY <1>1, <2>1 DEF IInv, OneEach, SharedOK, MemoryOK
  <2>4. pc'[c] = "reading" /\ Refreshing(c)'
    BY <2>1 DEF IInv, Types, Refreshing
  <2>5. MutexServes'
    BY <1>1, <2>1, <2>2, <2>4, MutexTaken DEF IInv, OthersAlone
  <2>6. \A t \in requested[r] : TTL <= t - held[c]
    <3> SUFFICES ASSUME NEW t \in requested[r] PROVE TTL <= t
      BY <1>1, MemoryFacts DEF IInv
    <3>1. PICK m \in memory[r] : m.since <= t
      BY <1>1 DEF IInv, MemoryOK
    <3>2. ~(m.since < TTL)
      BY <1>4
    <3> QED
      BY <1>1, <3>1, <3>2, MemoryFacts, Durations DEF IInv
  <2>7. CallOK(c)'
    BY <1>1, <2>4, <2>6 DEF CallOK
  <2> QED
    BY <1>1, <2>2, <2>3, <2>5, <2>7, OneCall
<1> QED
  BY <1>3, <1>4

\* A table out of Redis is as young as Redis has them; it is in memory since the call
\* read the clock, after the last request.
LEMMA Hitting ==
    ASSUME IInv, NEW c \in Callers, ReadHit(c)
    PROVE  IInv'
<1> DEFINE r == ReplicaOf[c]
<1>1. PICK e \in shared : Load(c, e.age) /\ Answer(c, {e.age})
  BY DEF ReadHit, Found
<1> DEFINE m == [age |-> e.age, since |-> held[c]]
<1>2. /\ pc[c] = "reading" /\ Unlock(c) /\ r \in Replicas
      /\ UNCHANGED <<shared, left, held, requested>>
      /\ memory' = [memory EXCEPT ![r] = {m}]
      /\ got' = [got EXCEPT ![c] = {e.age}]
      /\ pc' = [pc EXCEPT ![c] = "replying"]
  BY <1>1, CallFacts DEF ReadHit, Load, Answer, Goto, IInv
<1>3. /\ e.age \in Nat /\ e.age <= MaxAge /\ e.age <= Loaded
      /\ held[c] \in Nat /\ held[c] <= MaxSince
      /\ left[c] \in Nat /\ left[c] <= Patience
  BY SharedFacts, CallFacts, Durations DEF IInv, SharedOK
<1>4. m \in [age : 0 .. MaxAge, since : 0 .. MaxSince] /\ e.age \in 0 .. MaxAge
  BY <1>3, Durations
<1>5. Types' /\ OthersAlone(c)
  <2> HIDE DEF m
  <2> QED
    BY <1>2, <1>4, CallFacts DEF IInv, Types, OthersAlone, Unlock
<1>6. pc'[c] = "replying" /\ got'[c] = {e.age} /\ memory'[r] = {m}
  BY <1>2 DEF IInv, Types
<1>7. OneEach'
  <2>1. /\ \A q \in Replicas : memory'[q] = memory[q] \/ memory'[q] = {m}
        /\ \A d \in Callers : got'[d] = got[d] \/ got'[d] = {e.age}
    BY <1>2 DEF IInv, Types
  <2> QED
    BY <1>2, <2>1 DEF IInv, OneEach, Single
<1>8. Refreshing(c) /\ ~Refreshing(c)'
  BY <1>2, <1>6 DEF Refreshing, Fetching
<1>9. MutexServes'
  BY <1>2, <1>5, <1>8, MutexGiven DEF IInv, OthersAlone
<1>10. SharedOK' /\ MemoryOK(r)'
  <2>1. \A t \in requested[r] : held[c] <= t
    <3>1. CallOK(c) /\ \A t \in requested[r] : t \in Nat
      BY CallFacts DEF IInv
    <3>2. \A t \in requested[r] : TTL <= t - held[c]
      BY <1>2, <3>1 DEF CallOK
    <3> QED
      BY <1>3, <3>1, <3>2, Durations
  <2>2. m.age <= Loaded + m.since /\ m.since = held[c]
    BY <1>3, Durations
  <2> QED
    BY <1>2, <1>6, <2>1, <2>2 DEF IInv, SharedOK, MemoryOK
<1>11. CallOK(c)'
  <2>1. e.age + left[c] <= Loaded + Lasts - 1 + Patience
    BY <1>3, Durations
  <2> QED
    BY <1>2, <1>6, <1>8, <2>1 DEF CallOK
<1> QED
  BY <1>2, <1>5, <1>7, <1>9, <1>10, <1>11, OneCall

LEMMA Passing ==
    ASSUME IInv, NEW c \in Callers, ReadMiss(c)
    PROVE  IInv'
<1>1. /\ pc[c] = "reading"
      /\ UNCHANGED <<memory, shared, mutex, left, held, got, requested>>
      /\ \/ pc' = [pc EXCEPT ![c] = "fetching"] /\ (shared = {} \/ Late(c))
         \/ pc' = [pc EXCEPT ![c] = "blind"]
  BY DEF ReadMiss, Goto, Found
<1>2. Types' /\ OthersAlone(c)
  BY <1>1 DEF IInv, Types, OthersAlone
<1>3. OneEach' /\ SharedOK' /\ MemoryOK(ReplicaOf[c])'
  BY <1>1, CallFacts DEF IInv, OneEach, SharedOK, MemoryOK
<1>4. /\ \/ pc'[c] = "fetching" /\ (shared = {} \/ Late(c))
         \/ pc'[c] = "blind"
      /\ Refreshing(c) /\ Refreshing(c)'
  BY <1>1 DEF IInv, Types, Refreshing, Fetching
<1>5. MutexServes'
  BY <1>1, <1>2, <1>4, MutexStays DEF IInv, OthersAlone
<1>6. CallOK(c)'
  BY <1>1, <1>4 DEF IInv, CallOK, Late
<1> QED
  BY <1>1, <1>2, <1>3, <1>5, <1>6, OneCall

LEMMA Fetched ==
    ASSUME IInv, NEW c \in Callers, Fetch(c)
    PROVE  IInv'
<1> DEFINE r == ReplicaOf[c]
           m == [age |-> 0, since |-> held[c]]
<1>1. /\ Fetching(c) /\ r \in Replicas
      /\ memory' = [memory EXCEPT ![r] = {m}]
      /\ got' = [got EXCEPT ![c] = {0}]
      /\ requested' = [requested EXCEPT ![r] = {held[c]}]
      /\ pc' = [pc EXCEPT ![c] = "storing"]
      /\ UNCHANGED <<shared, mutex, left, held>>
  BY CallFacts DEF Fetch, Load, Goto, IInv
<1>2. held[c] \in 0 .. MaxSince /\ held[c] \in Nat
  BY CallFacts, Durations DEF IInv
<1>3. m \in [age : 0 .. MaxAge, since : 0 .. MaxSince] /\ 0 \in 0 .. MaxAge
  BY <1>2, Durations
<1>4. Types' /\ OthersAlone(c)
  <2> HIDE DEF m
  <2> QED
    BY <1>1, <1>2, <1>3 DEF IInv, Types, OthersAlone
<1>5. /\ pc'[c] = "storing" /\ got'[c] = {0}
      /\ memory'[r] = {m} /\ requested'[r] = {held[c]}
  BY <1>1 DEF IInv, Types
<1>6. OneEach'
  <2>1. /\ \A q \in Replicas : /\ memory'[q] = memory[q] \/ memory'[q] = {m}
                               /\ requested'[q] = requested[q] \/ requested'[q] = {held[c]}
        /\ \A d \in Callers : got'[d] = got[d] \/ got'[d] = {0}
    BY <1>1 DEF IInv, Types
  <2> QED
    BY <1>1, <2>1 DEF IInv, OneEach, Single
<1>7. Refreshing(c) /\ Refreshing(c)'
  BY <1>1, <1>5 DEF Refreshing
<1>8. MutexServes'
  BY <1>1, <1>4, <1>7, MutexStays DEF IInv, OthersAlone
<1>9. SharedOK' /\ MemoryOK(r)'
  <2>1. m.age <= Loaded + m.since /\ m.since = held[c]
    BY <1>2, Durations
  <2> HIDE DEF m
  <2>2. MemoryOK(r)'
    BY <1>2, <1>5, <2>1 DEF MemoryOK
  <2> QED
    BY <1>1, <2>2 DEF IInv, SharedOK
<1>10. CallOK(c)'
  BY <1>1, <1>2, <1>5, <1>7 DEF IInv, CallOK
<1> QED
  BY <1>1, <1>4, <1>6, <1>7, <1>8, <1>9, <1>10, OneCall

\* What memory serves on an outage was loaded within Grace of the clock this call read.
LEMMA Serving ==
    ASSUME IInv, NEW c \in Callers, FetchFails(c)
    PROVE  IInv'
<1> DEFINE r == ReplicaOf[c]
           kept == {m \in memory[r] : m.since - held[c] < Grace}
<1>1. /\ Fetching(c) /\ Unlock(c) /\ r \in Replicas
      /\ got' = [got EXCEPT ![c] = {m.age : m \in kept}]
      /\ pc' = [pc EXCEPT ![c] = "replying"]
      /\ UNCHANGED <<shared, left, held, requested>>
      /\ memory' = [memory EXCEPT ![r] = memory[r]]
  BY CallFacts DEF FetchFails, Kept, Goto, IInv
<1>2. memory' = memory
  BY <1>1 DEF IInv, Types
<1>3. {m.age : m \in kept} \in SUBSET (0 .. MaxAge)
  BY <1>1 DEF IInv, Types
<1>4. Types' /\ OthersAlone(c)
  BY <1>1, <1>2, <1>3, CallFacts DEF IInv, Types, OthersAlone, Unlock
<1>5. pc'[c] = "replying" /\ got'[c] = {m.age : m \in kept}
  BY <1>1 DEF IInv, Types
<1>6. OneEach' /\ SharedOK' /\ MemoryOK(r)'
  <2>1. Single({m.age : m \in kept})
    BY <1>1 DEF IInv, OneEach, Single
  <2>2. \A d \in Callers : Single(got'[d])
    BY <1>1, <2>1 DEF IInv, Types, OneEach
  <2> QED
    BY <1>1, <1>2, <2>2 DEF IInv, OneEach, SharedOK, MemoryOK
<1>7. Refreshing(c) /\ ~Refreshing(c)'
  BY <1>1, <1>5 DEF Refreshing, Fetching
<1>8. MutexServes'
  BY <1>1, <1>4, <1>7, MutexGiven DEF IInv, OthersAlone
<1>9. ASSUME NEW m \in kept PROVE m.age + left[c] <= Loaded + Lasts - 1 + Patience
  <2>1. /\ m.age \in Nat /\ m.since \in Nat /\ m.since - held[c] < Grace
        /\ held[c] \in Nat /\ held[c] <= Hold /\ left[c] \in Nat
    BY <1>1, MemoryFacts, CallFacts DEF IInv
  <2>2. m.since # MaxSince
    BY <2>1, Durations
  <2>3. m.age <= Loaded + m.since
    BY <1>1, <2>2 DEF IInv, MemoryOK
  <2>4. held[c] + left[c] <= Patience
    BY <1>7 DEF IInv, CallOK
  <2> QED
    BY <2>1, <2>3, <2>4, Durations
<1>10. CallOK(c)'
  BY <1>1, <1>5, <1>7, <1>9 DEF CallOK
<1> QED
  BY <1>1, <1>4, <1>6, <1>8, <1>10, OneCall

LEMMA Storing ==
    ASSUME IInv, NEW c \in Callers, Store(c)
    PROVE  IInv'
<1> DEFINE new == {[age |-> a, left |-> TTL] : a \in got[c]}
<1>1. /\ pc[c] = "storing" /\ Unlock(c) /\ ReplicaOf[c] \in Replicas
      /\ pc' = [pc EXCEPT ![c] = "replying"]
      /\ UNCHANGED <<memory, left, held, got, requested>>
      /\ (~Late(c) /\ shared' = new) \/ shared' = shared
  BY CallFacts DEF Store, Expiry, Goto, IInv
<1>2. /\ left[c] \in Nat /\ held[c] \in Nat /\ held[c] <= Hold
      /\ held[c] + left[c] <= Patience
      /\ \A a \in got[c] : a \in Nat /\ a <= held[c] /\ a <= MaxAge
      /\ Late(c) <=> ~(left[c] > 0)
  BY <1>1, CallFacts DEF IInv, CallOK, Refreshing
<1>3. shared' \in SUBSET [age : 0 .. MaxAge, left : 1 .. TTL] /\ Single(shared')
  <2>1. new \in SUBSET [age : 0 .. MaxAge, left : 1 .. TTL] /\ Single(new)
    BY <1>2, Durations DEF IInv, OneEach, Single
  <2> QED
    BY <1>1, <2>1 DEF IInv, Types, OneEach
<1>4. Types' /\ OthersAlone(c)
  BY <1>1, <1>3 DEF IInv, Types, OthersAlone, Unlock
<1>5. OneEach' /\ MemoryOK(ReplicaOf[c])'
  BY <1>1, <1>3 DEF IInv, OneEach, MemoryOK
<1>6. pc'[c] = "replying" /\ Refreshing(c) /\ ~Refreshing(c)'
  BY <1>1 DEF IInv, Types, Refreshing, Fetching
<1>7. MutexServes'
  BY <1>1, <1>4, <1>6, MutexGiven DEF IInv, OthersAlone
<1>8. SharedOK'
  <2>1. CASE shared' = new /\ ~Late(c)
    <3>1. \A a \in got[c] : a + TTL <= Stored + TTL
      BY <1>2, <2>1, Durations
    <3> QED
      BY <2>1, <3>1 DEF SharedOK
  <2> QED
    BY <1>1, <2>1 DEF IInv, SharedOK
<1>9. CallOK(c)'
  <2>1. \A a \in got[c] : a + left[c] <= Loaded + Lasts - 1 + Patience
    BY <1>2, Durations
  <2> QED
    BY <1>1, <1>6, <2>1 DEF CallOK
<1>10. \A e \in shared' : e \in shared \/ e.left = TTL
  BY <1>1
<1> QED
  BY <1>1, <1>4, <1>5, <1>7, <1>8, <1>9, <1>10, OneCall

LEMMA Returning ==
    ASSUME IInv, NEW c \in Callers, Return(c)
    PROVE  IInv'
<1>1. /\ pc[c] = "replying" /\ pc' = [pc EXCEPT ![c] = "idle"]
      /\ left' = [left EXCEPT ![c] = 0] /\ held' = [held EXCEPT ![c] = 0]
      /\ got' = [got EXCEPT ![c] = {}]
      /\ UNCHANGED <<memory, shared, mutex, requested>>
  BY DEF Return, Goto
<1>2. Types' /\ OthersAlone(c)
  BY <1>1, Durations DEF IInv, Types, OthersAlone
<1>3. OneEach' /\ SharedOK' /\ MemoryOK(ReplicaOf[c])'
  <2>1. \A d \in Callers : got'[d] = got[d] \/ got'[d] = {}
    BY <1>1 DEF IInv, Types
  <2> QED
    BY <1>1, <2>1, CallFacts DEF IInv, OneEach, Single, SharedOK, MemoryOK
<1>4. ~Refreshing(c) /\ ~Refreshing(c)' /\ pc'[c] = "idle" /\ held'[c] = 0
  BY <1>1 DEF IInv, Types, Refreshing, Fetching
<1>5. MutexServes'
  BY <1>1, <1>2, <1>4, MutexStays DEF IInv, OthersAlone
<1>6. CallOK(c)'
  BY <1>4 DEF CallOK
<1> QED
  BY <1>1, <1>2, <1>3, <1>5, <1>6, OneCall

-----------------------------------------------------------------------------
\* A process is replaced, time passes.

LEMMA Restarting ==
    ASSUME IInv, NEW r \in Replicas, Restart(r)
    PROVE  IInv'
<1> DEFINE Gone(c) == ReplicaOf[c] = r
<1>1. /\ memory' = [memory EXCEPT ![r] = {}]
      /\ requested' = [requested EXCEPT ![r] = {}]
      /\ mutex' = [mutex EXCEPT ![r] = NoCaller]
      /\ pc' = [c \in Callers |-> IF Gone(c) THEN "idle" ELSE pc[c]]
      /\ left' = [c \in Callers |-> IF Gone(c) THEN 0 ELSE left[c]]
      /\ held' = [c \in Callers |-> IF Gone(c) THEN 0 ELSE held[c]]
      /\ got' = [c \in Callers |-> IF Gone(c) THEN {} ELSE got[c]]
      /\ UNCHANGED shared
  BY DEF Restart
<1>2. Types'
  BY <1>1, Durations DEF IInv, Types
<1>3. /\ \A c \in Callers : Gone(c) => pc'[c] = "idle" /\ held'[c] = 0 /\ got'[c] = {}
      /\ \A c \in Callers : ~Gone(c) => /\ pc'[c] = pc[c] /\ left'[c] = left[c]
                                        /\ held'[c] = held[c] /\ got'[c] = got[c]
                                        /\ requested'[ReplicaOf[c]] = requested[ReplicaOf[c]]
      /\ memory'[r] = {} /\ requested'[r] = {}
      /\ \A q \in Replicas \ {r} : memory'[q] = memory[q] /\ requested'[q] = requested[q]
  BY <1>1, CallFacts DEF IInv, Types
<1>4. OneEach'
  BY <1>1, <1>3 DEF IInv, OneEach, Single
<1>5. MutexServes'
  <2>1. \A c \in Callers : Gone(c) => ~Refreshing(c)' /\ mutex'[ReplicaOf[c]] = NoCaller
    BY <1>1, <1>3 DEF IInv, Types, Refreshing, Fetching
  <2>2. \A c \in Callers : ~Gone(c) => /\ Refreshing(c)' <=> Refreshing(c)
                                       /\ mutex'[ReplicaOf[c]] = mutex[ReplicaOf[c]]
    BY <1>1, <1>3, CallFacts DEF IInv, Types, Refreshing, Fetching
  <2> QED
    BY <2>1, <2>2, CallFacts DEF IInv, MutexServes
<1>6. SharedOK' /\ \A q \in Replicas : MemoryOK(q)'
  BY <1>1, <1>3 DEF IInv, SharedOK, MemoryOK
<1>7. ASSUME NEW c \in Callers PROVE CallOK(c)'
  <2>1. CASE Gone(c)
    BY <1>3, <2>1 DEF CallOK, Refreshing, Fetching
  <2>2. CASE ~Gone(c)
    BY <1>1, <1>3, <2>2 DEF IInv, CallOK, Refreshing, Fetching, Late
  <2> QED
    BY <2>1, <2>2
<1> QED
  BY <1>2, <1>4, <1>5, <1>6, <1>7 DEF IInv

\* The tick of a call.
LEMMA TickedCall ==
    ASSUME Types, Tick, NEW c \in Callers
    PROVE  /\ pc'[c] = pc[c] /\ (Refreshing(c)' <=> Refreshing(c))
           /\ left'[c] = IF left[c] > 0 THEN left[c] - 1 ELSE 0
           /\ held'[c] = IF Refreshing(c) THEN held[c] + 1 ELSE held[c]
           /\ \A b \in got'[c] : \E a \in got[c] : b = Least(a + 1, MaxAge)
           /\ Single(got[c]) => Single(got'[c])
           /\ Refreshing(c) => left[c] > 0 /\ held[c] < Hold
           /\ pc[c] = "replying" => left[c] > 0
<1>1. Late(c) <=> ~(left[c] > 0)
  BY CallFacts
<1>2. pc' = pc
  BY DEF Tick
<1>3. left'[c] = IF left[c] > 0 THEN left[c] - 1 ELSE 0
  BY <1>1 DEF Tick
<1>4. held'[c] = IF Refreshing(c) THEN held[c] + 1 ELSE held[c]
  BY DEF Tick
<1>5. got'[c] = {Least(a + 1, MaxAge) : a \in got[c]}
  BY DEF Tick
<1>6. Refreshing(c) => ~Late(c) /\ held[c] < Hold
  BY DEF Tick
<1>7. pc[c] = "replying" => ~Late(c)
  BY DEF Tick
<1>8. Refreshing(c)' <=> Refreshing(c)
  BY <1>2 DEF Refreshing, Fetching
<1>9. /\ \A b \in got'[c] : \E a \in got[c] : b = Least(a + 1, MaxAge)
      /\ Single(got[c]) => Single(got'[c])
  BY <1>5 DEF Single
<1> QED
  BY <1>1, <1>2, <1>3, <1>4, <1>6, <1>7, <1>8, <1>9

\* The tick of a table and of the requests.
LEMMA TickedTables ==
    ASSUME Types, Tick, NEW r \in Replicas
    PROVE  /\ \A n \in memory'[r] : \E m \in memory[r] :
                 n = [age |-> Least(m.age + 1, MaxAge), since |-> Least(m.since + 1, MaxSince)]
           /\ \A u \in requested'[r] : \E t \in requested[r] : u = Least(t + 1, MaxSince)
           /\ memory[r] # {} => memory'[r] # {}
           /\ Single(memory[r]) => Single(memory'[r])
           /\ Single(requested[r]) => Single(requested'[r])
<1>1. memory'[r] = {[age |-> Least(m.age + 1, MaxAge),
                     since |-> Least(m.since + 1, MaxSince)] : m \in memory[r]}
  BY DEF Tick
<1>2. requested'[r] = {Least(t + 1, MaxSince) : t \in requested[r]}
  BY DEF Tick
<1>3. /\ memory[r] # {} => memory'[r] # {}
      /\ \A n \in memory'[r] : \E m \in memory[r] :
             n = [age |-> Least(m.age + 1, MaxAge), since |-> Least(m.since + 1, MaxSince)]
  BY <1>1
<1>4. Single(memory[r]) => Single(memory'[r])
  BY <1>1 DEF Single
<1>5. Single(requested[r]) => Single(requested'[r])
  BY <1>2 DEF Single
<1>6. \A u \in requested'[r] : \E t \in requested[r] : u = Least(t + 1, MaxSince)
  BY <1>2
<1> QED
  BY <1>3, <1>4, <1>5, <1>6

LEMMA TickedShared ==
    ASSUME Types, Tick
    PROVE  /\ \A f \in shared' : \E e \in shared :
                 e.left > 1 /\ f = [age |-> Least(e.age + 1, MaxAge), left |-> e.left - 1]
           /\ Single(shared) => Single(shared')
<1>1. shared' = {[age |-> Least(e.age + 1, MaxAge), left |-> e.left - 1] :
                    e \in {e \in shared : e.left > 1}}
  BY DEF Tick
<1> QED
  BY <1>1 DEF Single

LEMMA Ticking ==
    ASSUME IInv, Tick
    PROVE  IInv'
<1>1. Types /\ UNCHANGED <<mutex, pc>>
  BY DEF IInv, Tick
<1>2. ASSUME NEW c \in Callers
      PROVE  left'[c] \in 0 .. Patience /\ held'[c] \in 0 .. Hold /\ got'[c] \in SUBSET (0 .. MaxAge)
  <2>1. left'[c] \in 0 .. Patience /\ held'[c] \in 0 .. Hold
    BY <1>1, <1>2, TickedCall, CallFacts, Durations
  <2>2. ASSUME NEW b \in got'[c] PROVE b \in 0 .. MaxAge
    BY <1>1, <2>2, TickedCall, CallFacts, Durations DEF Least
  <2> QED
    BY <2>1, <2>2
<1>3. ASSUME NEW r \in Replicas
      PROVE  /\ memory'[r] \in SUBSET [age : 0 .. MaxAge, since : 0 .. MaxSince]
             /\ requested'[r] \in SUBSET (0 .. MaxSince)
  <2>1. ASSUME NEW n \in memory'[r] PROVE n \in [age : 0 .. MaxAge, since : 0 .. MaxSince]
    <3>1. PICK m \in memory[r] : n = [age |-> Least(m.age + 1, MaxAge),
                                      since |-> Least(m.since + 1, MaxSince)]
      BY <1>1, TickedTables
    <3>2. Least(m.age + 1, MaxAge) \in 0 .. MaxAge /\ Least(m.since + 1, MaxSince) \in 0 .. MaxSince
      BY <1>1, MemoryFacts, Durations DEF Least
    <3> QED
      BY <3>1, <3>2
  <2>2. ASSUME NEW u \in requested'[r] PROVE u \in 0 .. MaxSince
    BY <1>1, <2>2, TickedTables, MemoryFacts, Durations DEF Least
  <2> QED
    BY <2>1, <2>2
<1>4. ASSUME NEW f \in shared'
      PROVE  f \in [age : 0 .. MaxAge, left : 1 .. TTL] /\ f.age + f.left <= Stored + TTL
  <2>1. PICK e \in shared :
          e.left > 1 /\ f = [age |-> Least(e.age + 1, MaxAge), left |-> e.left - 1]
    BY <1>1, TickedShared
  <2>2. e.age + e.left <= Stored + TTL
    BY DEF IInv, SharedOK
  <2>3. /\ Least(e.age + 1, MaxAge) \in 0 .. MaxAge /\ e.left - 1 \in 1 .. TTL
        /\ Least(e.age + 1, MaxAge) + (e.left - 1) <= Stored + TTL
    BY <1>1, <2>1, <2>2, SharedFacts, Durations DEF Least
  <2> QED
    BY <2>1, <2>3
<1>5. Types'
  <2>1. /\ memory' = [r \in Replicas |-> memory'[r]]
        /\ requested' = [r \in Replicas |-> requested'[r]]
        /\ left' = [c \in Callers |-> left'[c]]
        /\ held' = [c \in Callers |-> held'[c]]
        /\ got' = [c \in Callers |-> got'[c]]
    BY DEF Tick
  <2>2. /\ memory' \in [Replicas -> SUBSET [age : 0 .. MaxAge, since : 0 .. MaxSince]]
        /\ requested' \in [Replicas -> SUBSET (0 .. MaxSince)]
    BY <1>3, <2>1
  <2>3. /\ left' \in [Callers -> 0 .. Patience] /\ held' \in [Callers -> 0 .. Hold]
        /\ got' \in [Callers -> SUBSET (0 .. MaxAge)]
    BY <1>2, <2>1
  <2> QED
    BY <1>1, <1>4, <2>2, <2>3 DEF Types
<1>6. OneEach'
  BY <1>1, TickedCall, TickedTables, TickedShared DEF IInv, OneEach
<1>7. MutexServes'
  BY <1>1, TickedCall DEF IInv, MutexServes
<1>8. SharedOK'
  BY <1>4 DEF SharedOK
<1>9. ASSUME NEW r \in Replicas PROVE MemoryOK(r)'
  <2>1. MemoryOK(r)
    BY DEF IInv
  <2>2. ASSUME NEW n \in memory'[r] PROVE n.since = MaxSince \/ n.age <= Loaded + n.since
    <3>1. PICK m \in memory[r] : n = [age |-> Least(m.age + 1, MaxAge),
                                      since |-> Least(m.since + 1, MaxSince)]
      BY <1>1, TickedTables
    <3>2. m.since = MaxSince \/ m.age <= Loaded + m.since
      BY <2>1 DEF MemoryOK
    <3>3. \/ Least(m.since + 1, MaxSince) = MaxSince
          \/ Least(m.age + 1, MaxAge) <= Loaded + Least(m.since + 1, MaxSince)
      BY <1>1, <3>2, MemoryFacts, Durations DEF Least
    <3> QED
      BY <3>1, <3>3
  <2>3. ASSUME NEW u \in requested'[r] PROVE memory'[r] # {} /\ \A n \in memory'[r] : n.since <= u
    <3>1. PICK t \in requested[r] : u = Least(t + 1, MaxSince)
      BY <1>1, TickedTables
    <3>2. ASSUME NEW n \in memory'[r] PROVE n.since <= u
      <4>1. PICK m \in memory[r] : n = [age |-> Least(m.age + 1, MaxAge),
                                        since |-> Least(m.since + 1, MaxSince)]
        BY <1>1, TickedTables
      <4>2. m.since <= t /\ m.since \in Nat /\ t \in Nat
        BY <1>1, <2>1, MemoryFacts DEF MemoryOK
      <4>3. Least(m.since + 1, MaxSince) <= u
        BY <3>1, <4>2, Durations DEF Least
      <4> QED
        BY <4>1, <4>3
    <3> QED
      BY <1>1, <2>1, <3>2, TickedTables DEF MemoryOK
  <2> QED
    BY <2>2, <2>3 DEF MemoryOK
<1>10. ASSUME NEW c \in Callers PROVE CallOK(c)'
  <2>1. /\ CallOK(c) /\ left[c] \in Nat /\ held[c] \in Nat /\ held[c] <= Hold
        /\ left[c] <= Patience /\ pc'[c] = pc[c] /\ (Refreshing(c)' <=> Refreshing(c))
    BY <1>1, CallFacts, TickedCall DEF IInv
  <2>2. pc[c] \in {"idle", "waiting"} => held'[c] = 0
    BY <1>1, <2>1, TickedCall DEF CallOK, Refreshing, Fetching
  <2>3. Refreshing(c) => /\ held'[c] = held[c] + 1 /\ left'[c] = left[c] - 1
                         /\ left[c] > 0 /\ held'[c] + left'[c] <= Patience
    BY <1>1, <2>1, TickedCall, Durations DEF CallOK
  <2>4. pc[c] = "storing" => \A b \in got'[c] : b <= held'[c]
    <3> SUFFICES ASSUME pc[c] = "storing", NEW b \in got'[c] PROVE b <= held'[c]
      OBVIOUS
    <3>1. PICK a \in got[c] : b = Least(a + 1, MaxAge)
      BY <1>1, TickedCall
    <3>2. a <= held[c] /\ a \in Nat /\ Refreshing(c)
      BY <1>1, <2>1, CallFacts DEF CallOK, Refreshing
    <3> QED
      BY <2>1, <2>3, <3>1, <3>2, Durations DEF Least
  <2>5. pc[c] = "replying" => \A b \in got'[c] : b + left'[c] <= Loaded + Lasts - 1 + Patience
    <3> SUFFICES ASSUME pc[c] = "replying", NEW b \in got'[c]
                 PROVE  b + left'[c] <= Loaded + Lasts - 1 + Patience
      OBVIOUS
    <3>1. PICK a \in got[c] : b = Least(a + 1, MaxAge)
      BY <1>1, TickedCall
    <3>2. /\ a + left[c] <= Loaded + Lasts - 1 + Patience /\ a \in Nat
          /\ left'[c] = left[c] - 1
      BY <1>1, <2>1, CallFacts, TickedCall DEF CallOK
    <3> QED
      BY <2>1, <3>1, <3>2, Durations DEF Least
  <2>6. pc[c] \in {"reading", "fetching", "blind"} =>
            \A u \in requested'[ReplicaOf[c]] : TTL <= u - held'[c]
    <3> SUFFICES ASSUME pc[c] \in {"reading", "fetching", "blind"},
                        NEW u \in requested'[ReplicaOf[c]]
                 PROVE  TTL <= u - held'[c]
      OBVIOUS
    <3>1. PICK t \in requested[ReplicaOf[c]] : u = Least(t + 1, MaxSince)
      BY <1>1, TickedTables, CallFacts
    <3>2. TTL <= t - held[c] /\ t \in Nat /\ Refreshing(c) /\ held[c] < Hold
      BY <1>1, <2>1, CallFacts, TickedCall DEF CallOK, Refreshing, Fetching
    <3>3. held'[c] = held[c] + 1
      BY <2>3, <3>2
    <3> QED
      BY <2>1, <3>1, <3>2, <3>3, Durations DEF Least
  <2>7. pc[c] = "fetching" => \A f \in shared' : TTL - f.left <= held'[c]
    <3> SUFFICES ASSUME pc[c] = "fetching", NEW f \in shared' PROVE TTL - f.left <= held'[c]
      OBVIOUS
    <3>1. PICK e \in shared : f = [age |-> Least(e.age + 1, MaxAge), left |-> e.left - 1]
      BY <1>1, TickedShared
    <3>2. Refreshing(c)
      BY DEF Refreshing, Fetching
    <3>3. TTL - e.left <= held[c] /\ e.left \in Nat
      BY <1>1, <2>1, <2>3, <3>2, CallFacts, SharedFacts DEF CallOK
    <3>4. f.left = e.left - 1
      BY <3>1
    <3> QED
      BY <2>1, <2>3, <3>2, <3>3, <3>4, Durations
  <2> QED
    BY <2>1, <2>2, <2>3, <2>4, <2>5, <2>6, <2>7 DEF CallOK
<1> QED
  BY <1>5, <1>6, <1>7, <1>8, <1>9, <1>10 DEF IInv

-----------------------------------------------------------------------------

LEMMA InitIInv == Init => IInv
<1> SUFFICES ASSUME Init PROVE IInv
  OBVIOUS
<1>1. Types
  BY Durations DEF Init, Types
<1>2. OneEach /\ SharedOK
  BY DEF Init, OneEach, Single, SharedOK
<1>3. \A c \in Callers : ~Refreshing(c) /\ CallOK(c)
  BY DEF Init, Refreshing, Fetching, CallOK
<1>4. MutexServes
  BY <1>3, CallFacts, <1>1 DEF Init, MutexServes
<1>5. \A r \in Replicas : MemoryOK(r)
  BY DEF Init, MemoryOK
<1> QED
  BY <1>1, <1>2, <1>3, <1>4, <1>5 DEF IInv

LEMMA NextIInv == IInv /\ [Next]_vars => IInv'
<1> SUFFICES ASSUME IInv, [Next]_vars PROVE IInv'
  OBVIOUS
<1>1. ASSUME NEW c \in Callers, Call(c) \/ Lock(c) \/ Step(c) PROVE IInv'
  BY <1>1, Calling, Locking, Hitting, Passing, Fetched, Serving, Storing, Returning DEF Step
<1>2. ASSUME NEW r \in Replicas, Restart(r) PROVE IInv'
  BY <1>2, Restarting
<1>3. CASE Tick
  BY <1>3, Ticking
<1>4. CASE UNCHANGED vars
  BY <1>4 DEF vars, IInv, Types, OneEach, MutexServes, SharedOK, CallOK, MemoryOK,
              Refreshing, Fetching, Late
<1> QED
  BY <1>1, <1>2, <1>3, <1>4 DEF Next

LEMMA IInvAlways == Spec => []IInv
  BY InitIInv, NextIInv, PTL DEF Spec

\* There is at most one table in a process and in Redis, and no entry of either
\* promises more than its lifetime.
THEOREM TypeCorrect == Spec => []TypeOK
<1>1. IInv => TypeOK
  BY SingleCounts DEF IInv, Types, OneEach, TypeOK
<1> QED
  BY <1>1, IInvAlways, PTL

\* However the durations are configured and whatever fails, a rate that is served is
\* at most as old as the bound: stored late, loaded late, and served through an outage.
THEOREM StaleNoLonger == Spec => []StaleBounded
<1>1. IInv => StaleBounded
  <2> SUFFICES ASSUME IInv, NEW c \in Callers, pc[c] = "replying", NEW age \in got[c]
               PROVE  age <= Stored + (TTL - 1) + (Lasts - 1) + Patience
    BY DEF StaleBounded, Stored, Lasts
  <2>1. age + left[c] <= Loaded + Lasts - 1 + Patience
    BY DEF IInv, CallOK
  <2> QED
    BY <2>1, CallFacts, Durations DEF IInv
<1> QED
  BY <1>1, IInvAlways, PTL

\* A burst of conversions on an expired table is one request of the replica, and the
\* next one a lifetime later.
THEOREM BurstIsOneRequest == Spec => []OneRequest
<1>1. IInv => OneRequest
  <2> SUFFICES ASSUME IInv, NEW c \in Callers, Fetching(c)
               PROVE  /\ \A d \in Callers \ {c} : ReplicaOf[d] = ReplicaOf[c] => ~Fetching(d)
                      /\ \A t \in requested[ReplicaOf[c]] : t - held[c] >= TTL
    BY DEF OneRequest
  <2>1. \A d \in Callers \ {c} : ReplicaOf[d] = ReplicaOf[c] => ~Fetching(d)
    BY Alone DEF IInv, Refreshing
  <2>2. \A t \in requested[ReplicaOf[c]] : TTL <= t - held[c]
    BY DEF IInv, CallOK, Fetching
  <2> QED
    BY <2>1, <2>2
<1> QED
  BY <1>1, IInvAlways, PTL

\* What a replica has stored, no other and no restarted one asks the provider for.
THEOREM RedisSpares == Spec => []SharedSpares
<1>1. IInv => SharedSpares
  BY DEF IInv, CallOK, SharedSpares
<1> QED
  BY <1>1, IInvAlways, PTL

\* Every way out of a refresh gives the mutex back, and nothing runs beside it.
THEOREM MutexAlwaysServes == Spec => []MutexServes
<1>1. IInv => MutexServes
  BY DEF IInv
<1> QED
  BY <1>1, IInvAlways, PTL

-----------------------------------------------------------------------------
\* What converting an amount loses, and what it keeps: for any table of rates, any
\* fixed-point scale and any amounts.

LEMMA UnitSize ==
    ASSUME NEW c \in Currencies
    PROVE  10 ^ MinorUnits[c] \in Nat \ {0}
<1>1. MinorUnits[c] \in 0 .. 3
  BY CurrencyAssumption
<1>2. CASE MinorUnits[c] = 0
  BY <1>2
<1>3. CASE MinorUnits[c] = 1
  BY <1>3
<1>4. CASE MinorUnits[c] = 2
  BY <1>4
<1>5. CASE MinorUnits[c] = 3
  BY <1>5
<1> QED
  BY <1>1, <1>2, <1>3, <1>4, <1>5

\* The rate of a currency relative to the base is positive, or there is none.
LEMMA RateType ==
    ASSUME NEW t \in Tables, NEW c \in Currencies, NEW r \in RateFromBase(t, c)
    PROVE  r \in Nat \ {0}
BY ScaleAssumption, InputAssumption DEF RateFromBase

-----------------------------------------------------------------------------
\* Rounding.

LEMMA Divided ==
    ASSUME NEW n \in Nat, NEW d \in Nat \ {0}
    PROVE  /\ n \div d \in Nat /\ n % d \in Nat
           /\ n % d < d
           /\ n = d * (n \div d) + (n % d)
OBVIOUS

\* Half up is off by half a divisor at most.
LEMMA HalfUpClose ==
    ASSUME NEW n \in Nat, NEW d \in Nat \ {0}
    PROVE  /\ HalfUp(n, d) \in Nat
           /\ 2 * (d * HalfUp(n, d)) <= 2 * n + d
           /\ 2 * n <= 2 * (d * HalfUp(n, d)) + d
<1>1. PICK q \in Nat, r \in Nat : q = n \div d /\ r = n % d /\ r < d /\ n = d * q + r
  BY Divided
<1>2. PICK p \in Nat : p = d * q
  BY <1>1
<1>3. CASE 2 * r >= d
  <2>1. HalfUp(n, d) = q + 1
    BY <1>1, <1>3 DEF HalfUp
  <2>2. d * (q + 1) = p + d
    BY <1>1, <1>2
  <2> QED
    BY <1>1, <1>2, <1>3, <2>1, <2>2
<1>4. CASE ~ (2 * r >= d)
  <2>1. HalfUp(n, d) = q
    BY <1>1, <1>4 DEF HalfUp
  <2> QED
    BY <1>1, <1>2, <1>4, <2>1
<1> QED
  BY <1>3, <1>4

LEMMA HalfUpOrdered ==
    ASSUME NEW n \in Nat, NEW m \in Nat, n <= m, NEW d \in Nat \ {0}
    PROVE  HalfUp(n, d) <= HalfUp(m, d)
<1>1. PICK q \in Nat, r \in Nat : q = n \div d /\ r = n % d /\ r < d /\ n = d * q + r
  BY Divided
<1>2. PICK p \in Nat, s \in Nat : p = m \div d /\ s = m % d /\ s < d /\ m = d * p + s
  BY Divided
<1>3. HalfUp(n, d) = q + (IF 2 * r >= d THEN 1 ELSE 0)
  BY <1>1 DEF HalfUp
<1>4. HalfUp(m, d) = p + (IF 2 * s >= d THEN 1 ELSE 0)
  BY <1>2 DEF HalfUp
<1>5. CASE q < p
  BY <1>3, <1>4, <1>5
<1>6. CASE q = p
  <2>1. r <= s
    BY <1>1, <1>2, <1>6
  <2> QED
    BY <1>3, <1>4, <1>6, <2>1
<1>7. CASE q > p
  <2>1. d * q = d * p + d * (q - p) /\ d * (q - p) >= d /\ d * p \in Nat
    BY <1>7
  <2> QED
    BY <1>1, <1>2, <2>1
<1> QED
  BY <1>5, <1>6, <1>7

-----------------------------------------------------------------------------
\* A conversion.

\* What the two roundings of a conversion do to an amount: x is the derived rate.
LEMMA TwoRoundings ==
    ASSUME NEW t \in Tables, NEW p \in Pairs, NEW a \in Amounts,
           NEW q \in Convert(t, p[1], p[2], a),
           NEW r1 \in RateFromBase(t, p[1]), NEW r2 \in RateFromBase(t, p[2])
    PROVE  LET d1 == 10 ^ MinorUnits[p[1]]
               d2 == 10 ^ MinorUnits[p[2]]
           IN  \E x \in Nat :
                 /\ 2 * (r1 * x) <= 2 * (r2 * Scale) + r1
                 /\ 2 * (r2 * Scale) <= 2 * (r1 * x) + r1
                 /\ q \in Nat
                 /\ 2 * ((Scale * d1) * q) <= 2 * (a * x * d2) + Scale * d1
                 /\ 2 * (a * x * d2) <= 2 * ((Scale * d1) * q) + Scale * d1
<1> DEFINE d1 == 10 ^ MinorUnits[p[1]]
           d2 == 10 ^ MinorUnits[p[2]]
<1>1. p[1] \in Currencies /\ p[2] \in Currencies /\ p[1] # p[2]
  BY DEF Pairs
<1>2. d1 \in Nat \ {0} /\ d2 \in Nat \ {0}
  BY <1>1, UnitSize
<1>3. r1 \in Nat \ {0} /\ r2 \in Nat \ {0} /\ Scale \in Nat \ {0} /\ a \in Nat \ {0}
  BY <1>1, RateType, ScaleAssumption, InputAssumption
<1>4. \A u, v \in RateFromBase(t, p[1]) : u = v
  BY DEF RateFromBase
<1>5. \A u, v \in RateFromBase(t, p[2]) : u = v
  BY DEF RateFromBase
<1>6. PICK x \in Cross(t, p[1], p[2]) : q \in Apply(x, p[1], p[2], a)
  BY DEF Convert
<1>7. x = HalfUp(r2 * Scale, r1)
  BY <1>1, <1>4, <1>5, <1>6 DEF Cross
<1>8. q = HalfUp(a * x * d2, Scale * d1)
  BY <1>6 DEF Apply
<1> HIDE DEF d1, d2
<1>9. /\ x \in Nat
      /\ 2 * (r1 * x) <= 2 * (r2 * Scale) + r1
      /\ 2 * (r2 * Scale) <= 2 * (r1 * x) + r1
  <2>1. r2 * Scale \in Nat
    BY <1>3
  <2> QED
    BY <1>3, <1>7, <2>1, HalfUpClose
<1>10. /\ q \in Nat
       /\ 2 * ((Scale * d1) * q) <= 2 * (a * x * d2) + Scale * d1
       /\ 2 * (a * x * d2) <= 2 * ((Scale * d1) * q) + Scale * d1
  <2>1. a * x * d2 \in Nat /\ Scale * d1 \in Nat \ {0}
    BY <1>2, <1>3, <1>9
  <2> QED
    BY <1>8, <2>1, HalfUpClose
<1> QED
  BY <1>9, <1>10 DEF d1, d2

LEMMA Scaled ==
    ASSUME NEW m \in Nat, NEW b \in Nat, NEW u \in Int, -b <= u, u <= b
    PROVE  m * u \in Int /\ -(m * b) <= m * u /\ m * u <= m * b
OBVIOUS

LEMMA ErrorsAdd ==
    ASSUME NEW q \in Nat, NEW r1 \in Nat, NEW r2 \in Nat, NEW s \in Nat,
           NEW d1 \in Nat, NEW d2 \in Nat, NEW a \in Nat, NEW x \in Nat,
           2 * (r1 * x) <= 2 * (r2 * s) + r1,
           2 * (r2 * s) <= 2 * (r1 * x) + r1,
           2 * ((s * d1) * q) <= 2 * (a * x * d2) + s * d1,
           2 * (a * x * d2) <= 2 * ((s * d1) * q) + s * d1
    PROVE  LET error == 2 * s * (q * r1 * d1 - a * r2 * d2)
               bound == r1 * (s * d1 + a * d2)
           IN  -bound <= error /\ error <= bound
<1> DEFINE u == 2 * ((s * d1) * q) - 2 * (a * x * d2)
           v == 2 * (r1 * x) - 2 * (r2 * s)
           w == s * d1
           z == a * d2
<1>1. /\ (s * d1) * q \in Nat /\ a * x * d2 \in Nat /\ r1 * x \in Nat /\ r2 * s \in Nat
      /\ w \in Nat /\ z \in Nat
  OBVIOUS
<1>2. u \in Int /\ -w <= u /\ u <= w
  BY <1>1
<1>3. v \in Int /\ -r1 <= v /\ v <= r1
  BY <1>1
<1>4. r1 * u + z * v = 2 * s * (q * r1 * d1 - a * r2 * d2)
  OBVIOUS
<1>5. r1 * (s * d1 + a * d2) = r1 * w + z * r1
  OBVIOUS
<1> HIDE DEF u, v, w, z
<1>6. r1 * u \in Int /\ -(r1 * w) <= r1 * u /\ r1 * u <= r1 * w
  BY <1>1, <1>2, Scaled
<1>7. z * v \in Int /\ -(z * r1) <= z * v /\ z * v <= z * r1
  BY <1>1, <1>3, Scaled
<1>8. r1 * w \in Nat /\ z * r1 \in Nat
  BY <1>1
<1>9. PICK i \in Int, j \in Int, k \in Nat, l \in Nat :
        i = r1 * u /\ j = z * v /\ k = r1 * w /\ l = z * r1
  BY <1>6, <1>7, <1>8
<1>10. -(k + l) <= i + j /\ i + j <= k + l
  BY <1>6, <1>7, <1>9
<1> QED
  BY <1>4, <1>5, <1>9, <1>10

LEMMA EveryTableAccurate == AllAccurate
<1> SUFFICES ASSUME NEW t \in Tables, NEW p \in Pairs, NEW a \in Amounts,
                    NEW q \in Convert(t, p[1], p[2], a),
                    NEW r1 \in RateFromBase(t, p[1]), NEW r2 \in RateFromBase(t, p[2])
             PROVE  LET error == 2 * Scale * (q * r1 * 10 ^ MinorUnits[p[1]]
                                              - a * r2 * 10 ^ MinorUnits[p[2]])
                        bound == r1 * (Scale * 10 ^ MinorUnits[p[1]]
                                       + a * 10 ^ MinorUnits[p[2]])
                    IN  -bound <= error /\ error <= bound
  BY DEF AllAccurate, AccurateIn
<1>1. p[1] \in Currencies /\ p[2] \in Currencies
  BY DEF Pairs
<1>2. PICK d1 \in Nat \ {0}, d2 \in Nat \ {0} :
        d1 = 10 ^ MinorUnits[p[1]] /\ d2 = 10 ^ MinorUnits[p[2]]
  BY <1>1, UnitSize
<1>3. r1 \in Nat /\ r2 \in Nat /\ Scale \in Nat /\ a \in Nat
  BY <1>1, RateType, ScaleAssumption, InputAssumption
<1>4. PICK x \in Nat :
        /\ 2 * (r1 * x) <= 2 * (r2 * Scale) + r1
        /\ 2 * (r2 * Scale) <= 2 * (r1 * x) + r1
        /\ q \in Nat
        /\ 2 * ((Scale * d1) * q) <= 2 * (a * x * d2) + Scale * d1
        /\ 2 * (a * x * d2) <= 2 * ((Scale * d1) * q) + Scale * d1
  BY <1>2, TwoRoundings
<1>5. LET error == 2 * Scale * (q * r1 * d1 - a * r2 * d2)
          bound == r1 * (Scale * d1 + a * d2)
      IN  -bound <= error /\ error <= bound
  BY <1>2, <1>3, <1>4, ErrorsAdd
<1> QED
  BY <1>2, <1>5

LEMMA EveryTableOrdered == AllOrdered
<1> SUFFICES ASSUME NEW t \in Tables, NEW p \in Pairs, NEW a \in Amounts,
                    NEW b \in Amounts, b > a,
                    NEW q \in Convert(t, p[1], p[2], a), NEW r \in Convert(t, p[1], p[2], b)
             PROVE  q <= r
  BY DEF AllOrdered, OrderKeptIn
<1>1. p[1] \in Currencies /\ p[2] \in Currencies /\ p[1] # p[2]
  BY DEF Pairs
<1>2. PICK d1 \in Nat \ {0}, d2 \in Nat \ {0} :
        d1 = 10 ^ MinorUnits[p[1]] /\ d2 = 10 ^ MinorUnits[p[2]]
  BY <1>1, UnitSize
<1>3. Scale \in Nat \ {0} /\ a \in Nat /\ b \in Nat
  BY ScaleAssumption, InputAssumption
<1>4. \A u, v \in Cross(t, p[1], p[2]) : u = v
  BY <1>1 DEF Cross, RateFromBase
<1>5. PICK x \in Cross(t, p[1], p[2]) : q \in Apply(x, p[1], p[2], a)
  BY DEF Convert
<1>6. r \in Apply(x, p[1], p[2], b)
  BY <1>4 DEF Convert
<1>7. q = HalfUp(a * x * d2, Scale * d1) /\ r = HalfUp(b * x * d2, Scale * d1)
  BY <1>2, <1>5, <1>6 DEF Apply
<1>8. x \in Nat
  <2>1. PICK rates \in RateFromBase(t, p[1]) \X RateFromBase(t, p[2]) :
          x = HalfUp(rates[2] * Scale, rates[1])
    BY <1>1, <1>5 DEF Cross
  <2>2. rates[1] \in Nat \ {0} /\ rates[2] \in Nat \ {0}
    BY <1>1, RateType
  <2>3. rates[2] * Scale \in Nat
    BY <1>3, <2>2
  <2> QED
    BY <2>1, <2>2, <2>3, HalfUpClose
<1>9. /\ a * x * d2 \in Nat /\ b * x * d2 \in Nat /\ Scale * d1 \in Nat \ {0}
      /\ a * x * d2 <= b * x * d2
  <2>1. a * x * d2 = a * (x * d2) /\ b * x * d2 = b * (x * d2) /\ x * d2 \in Nat
    BY <1>2, <1>3, <1>8
  <2>2. b * (x * d2) = a * (x * d2) + (b - a) * (x * d2) /\ (b - a) * (x * d2) \in Nat
    BY <1>3, <2>1
  <2> QED
    BY <1>2, <1>3, <2>1, <2>2
<1> QED
  BY <1>7, <1>9, HalfUpOrdered

-----------------------------------------------------------------------------

\* A rate derived through the base currency and an amount rescaled with it (rates.go's
\* cross and Apply): whichever table answers, fresh, shared or stale, the result is the
\* exact amount up to the two roundings, in any currencies' minor units.
THEOREM ConversionIsAccurate == Spec => []Accurate
<1>1. Accurate
  BY EveryTableAccurate DEF Accurate
<1> QED
  BY <1>1, PTL

\* A price that falls in the shop's currency never rises in the user's (rates.go's Apply):
\* a drop is not made a rise by the conversion, whatever the table and the amounts.
THEOREM ConversionKeepsOrder == Spec => []OrderKept
<1>1. OrderKept
  BY EveryTableOrdered DEF OrderKept
<1> QED
  BY <1>1, PTL
=============================================================================
