-------------------------------- MODULE Rates --------------------------------
(***************************************************************************)
(* The table of exchange rates (internal/currency/service.go) of several   *)
(* replicas that share a Redis cache and a provider.                       *)
(*                                                                         *)
(* A refresh is several calls made under the mutex of the replica: Redis,  *)
(* the provider, Redis again.  Of a table only its age matters here; what  *)
(* is computed from its rates is module Conversion.  Times are ages and    *)
(* remaining lifetimes, moved by Tick, so the clock is not bounded.        *)
(***************************************************************************)
EXTENDS Integers, FiniteSets

CONSTANTS
    Replicas,
    Callers,    \* conversions that may be in progress at once
    ReplicaOf,  \* the replica that serves a caller
    NoCaller,   \* what holds a free mutex
    TTL,        \* of a table in memory and in Redis (CURRENCY_RATE_TTL)
    Grace,      \* staleGrace
    Hold,       \* what the calls of one refresh take at most, each by its timeout
    Patience    \* deadline of a caller (SCRAPER_REQUEST_TIMEOUT)

ASSUME CallerAssumption == ReplicaOf \in [Callers -> Replicas] /\ NoCaller \notin Callers
ASSUME DurationAssumption == {TTL, Grace, Hold, Patience} \subseteq Nat \ {0}

VARIABLES
    memory,    \* per replica: at most one table, its age and the ticks since it was loaded
    shared,    \* the table in Redis, its age and the ticks until its entry expires
    mutex,     \* per replica: the caller that refreshes
    pc,        \* where each call is
    left,      \* per call: ticks until the caller gives up
    held,      \* per call: ticks since it read the clock, under the mutex
    got,       \* per call: age of the table that is the answer, none when refused
    requested  \* history, per replica: ticks since a call began that the provider answered

vars == <<memory, shared, mutex, pc, left, held, got, requested>>

Larger(m, n) == IF m < n THEN n ELSE m
Least(m, n) == IF m < n THEN m ELSE n

\* Bounds: older is as old as this, no property tells them apart.
MaxAge == Hold + TTL + Larger(TTL, Grace) + Patience - 1
MaxSince == Larger(TTL, Grace) + Hold

AtMostOne(S) == Cardinality(S) <= 1

\* Entries never promise more than their lifetime.
TypeOK ==
    /\ \A r \in Replicas : /\ memory[r] \subseteq [age : 0 .. MaxAge, since : 0 .. MaxSince]
                           /\ requested[r] \subseteq 0 .. MaxSince
                           /\ AtMostOne(memory[r]) /\ AtMostOne(requested[r])
    /\ shared \subseteq [age : 0 .. MaxAge, left : 1 .. TTL] /\ AtMostOne(shared)
    /\ mutex \in [Replicas -> Callers \cup {NoCaller}]
    /\ pc \in [Callers -> {"idle", "waiting", "reading", "fetching", "blind",
                           "storing", "replying"}]
    /\ left \in [Callers -> 0 .. Patience]
    /\ held \in [Callers -> 0 .. Hold]
    /\ \A c \in Callers : got[c] \subseteq 0 .. MaxAge /\ AtMostOne(got[c])

Init ==
    /\ memory = [r \in Replicas |-> {}]
    /\ shared = {}
    /\ mutex = [r \in Replicas |-> NoCaller]
    /\ pc = [c \in Callers |-> "idle"]
    /\ left = [c \in Callers |-> 0]
    /\ held = [c \in Callers |-> 0]
    /\ got = [c \in Callers |-> {}]
    /\ requested = [r \in Replicas |-> {}]

\* The context of the call has ended: whatever is called with it fails at once.
Late(c) == left[c] = 0

\* With nothing in Redis, or not knowing what is there.
Fetching(c) == pc[c] \in {"fetching", "blind"}
Refreshing(c) == pc[c] \in {"reading", "storing"} \/ Fetching(c)

Goto(c, l) == pc' = [pc EXCEPT ![c] = l]
Answer(c, ages) == got' = [got EXCEPT ![c] = ages] /\ Goto(c, "replying")
\* Mutation: a return without the deferred unlock.
UnlockNever(c) == mutex' = mutex
Unlock(c) == mutex' = [mutex EXCEPT ![ReplicaOf[c]] = NoCaller]
Load(c, a) == memory' = [memory EXCEPT ![ReplicaOf[c]] = {[age |-> a, since |-> held[c]]}]

-----------------------------------------------------------------------------
\* Service.Rate of a pair that differs, and Service.currentTable.

Call(c) ==
    /\ pc[c] = "idle"
    /\ left' = [left EXCEPT ![c] = Patience]
    /\ Goto(c, "waiting")
    /\ UNCHANGED <<memory, shared, mutex, held, got, requested>>

\* Mutation: refreshes are not serialised.
FreeAlways(r) == TRUE
Free(r) == mutex[r] = NoCaller

\* Waiting for the mutex does not look at the deadline.
Lock(c) ==
    LET r == ReplicaOf[c]
        fresh == {m \in memory[r] : m.since < TTL}
    IN  /\ pc[c] = "waiting"
        /\ Free(r)
        /\ IF fresh # {}
           THEN Answer(c, {m.age : m \in fresh}) /\ UNCHANGED mutex
           ELSE /\ mutex' = [mutex EXCEPT ![r] = c]
                /\ Goto(c, "reading")
                /\ UNCHANGED got
        /\ UNCHANGED <<memory, shared, left, held, requested>>

\* Mutation: the key that is read is not the key that is written.
FoundNothing == {}
Found == shared

\* A table out of Redis starts a lifetime of its own.
ReadHit(c) ==
    /\ pc[c] = "reading"
    /\ ~Late(c)
    /\ \E e \in Found : Load(c, e.age) /\ Answer(c, {e.age})
    /\ Unlock(c)
    /\ UNCHANGED <<shared, left, held, requested>>

\* A call that fails reads as an empty cache.
ReadMiss(c) ==
    /\ pc[c] = "reading"
    /\ \/ (Found = {} \/ Late(c)) /\ Goto(c, "fetching")
       \/ Found # {} /\ Goto(c, "blind")
    /\ UNCHANGED <<memory, shared, mutex, left, held, got, requested>>

Fetch(c) ==
    /\ Fetching(c)
    /\ ~Late(c)
    /\ Load(c, 0)
    /\ got' = [got EXCEPT ![c] = {0}]
    /\ requested' = [requested EXCEPT ![ReplicaOf[c]] = {held[c]}]
    /\ Goto(c, "storing")
    /\ UNCHANGED <<shared, mutex, left, held>>

\* Mutation: a stale table that was served counts as loaded.
KeptReloaded(c) == {[age |-> m.age, since |-> held[c]] : m \in memory[ReplicaOf[c]]}
Kept(c) == memory[ReplicaOf[c]]

\* The provider may be down at any time; what is in memory serves on for Grace.
FetchFails(c) ==
    /\ Fetching(c)
    /\ got' = [got EXCEPT ![c] = {m.age : m \in {m \in memory[ReplicaOf[c]] :
                                                 m.since - held[c] < Grace}}]
    /\ memory' = [memory EXCEPT ![ReplicaOf[c]] = Kept(c)]
    /\ Goto(c, "replying")
    /\ Unlock(c)
    /\ UNCHANGED <<shared, left, held, requested>>

\* Mutation: entries live one tick longer.
ExpiryLate == TTL + 1
Expiry == TTL

Store(c) ==
    /\ pc[c] = "storing"
    /\ \/ ~Late(c) /\ shared' = {[age |-> a, left |-> Expiry] : a \in got[c]}
       \/ UNCHANGED shared
    /\ Unlock(c)
    /\ Goto(c, "replying")
    /\ UNCHANGED <<memory, left, held, got, requested>>

\* The caller has its answer, or had given up.
Return(c) ==
    /\ pc[c] = "replying"
    /\ Goto(c, "idle")
    /\ left' = [left EXCEPT ![c] = 0]
    /\ held' = [held EXCEPT ![c] = 0]
    /\ got' = [got EXCEPT ![c] = {}]
    /\ UNCHANGED <<memory, shared, mutex, requested>>

-----------------------------------------------------------------------------

\* The process is replaced: its table and its calls are gone.
Restart(r) ==
    LET Kill(f, zero) == [c \in Callers |-> IF ReplicaOf[c] = r THEN zero ELSE f[c]]
    IN  /\ memory' = [memory EXCEPT ![r] = {}]
        /\ requested' = [requested EXCEPT ![r] = {}]
        /\ mutex' = [mutex EXCEPT ![r] = NoCaller]
        /\ pc' = Kill(pc, "idle")
        /\ left' = Kill(left, 0)
        /\ held' = Kill(held, 0)
        /\ got' = Kill(got, {})
        /\ UNCHANGED shared

\* Time passes for a refresh while its calls may take it, and for a reply while
\* somebody waits for it; for callers that wait, always.
Tick ==
    LET Older(a, max) == Least(a + 1, max)
    IN  /\ \A c \in Callers : /\ Refreshing(c) => ~Late(c) /\ held[c] < Hold
                              /\ pc[c] = "replying" => ~Late(c)
        /\ memory' = [r \in Replicas |-> {[age |-> Older(m.age, MaxAge),
                                            since |-> Older(m.since, MaxSince)] : m \in memory[r]}]
        /\ shared' = {[age |-> Older(e.age, MaxAge), left |-> e.left - 1] :
                       e \in {e \in shared : e.left > 1}}
        /\ left' = [c \in Callers |-> IF Late(c) THEN 0 ELSE left[c] - 1]
        /\ held' = [c \in Callers |-> IF Refreshing(c) THEN held[c] + 1 ELSE held[c]]
        /\ got' = [c \in Callers |-> {Older(a, MaxAge) : a \in got[c]}]
        /\ requested' = [r \in Replicas |-> {Older(t, MaxSince) : t \in requested[r]}]
        /\ UNCHANGED <<mutex, pc>>

-----------------------------------------------------------------------------

Step(c) == ReadHit(c) \/ ReadMiss(c) \/ Fetch(c) \/ FetchFails(c) \/ Store(c) \/ Return(c)

Next ==
    \/ \E c \in Callers : Call(c) \/ Lock(c) \/ Step(c)
    \/ \E r \in Replicas : Restart(r)
    \/ Tick

Spec == Init /\ [][Next]_vars

-----------------------------------------------------------------------------
\* Properties

\* A rate in use is never older than the lifetime of a table in Redis and the time it
\* may serve from memory, staleGrace or a lifetime that is configured longer, and the
\* two calls in which it was stored and served: a table passed on through Redis,
\* loaded late and served through an outage included.
StaleBounded ==
    \A c \in Callers : pc[c] = "replying" =>
        \A age \in got[c] :
            age <= Least(Hold, Patience - 1) + (TTL - 1) + (Larger(TTL, Grace) - 1) + Patience

\* A burst of conversions on an expired table is one request to the provider, not
\* one of each caller, and the next request is a lifetime away.
OneRequest ==
    \A c \in Callers : Fetching(c) /\ ~Late(c) =>
        /\ \A d \in Callers \ {c} : ReplicaOf[d] = ReplicaOf[c] => ~Fetching(d)
        /\ \A t \in requested[ReplicaOf[c]] : t - held[c] >= TTL

\* Unless its own call to Redis fails, neither a restarted nor a second replica spends
\* a request on a table that somebody has stored: only one stored while this call was
\* looking is missed.
SharedSpares ==
    \A c \in Callers : pc[c] = "fetching" /\ ~Late(c) =>
        \A e \in shared : TTL - e.left <= held[c]

\* Whatever fails in a refresh, the mutex is held by a call that goes on: nobody waits
\* behind a refresh that has ended, or beside one that does not hold it.
MutexServes ==
    \A c \in Callers : Refreshing(c) <=> mutex[ReplicaOf[c]] = c
=============================================================================
