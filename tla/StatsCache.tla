----------------------------- MODULE StatsCache -----------------------------
(***************************************************************************)
(* The statistics of an item behind the Redis cache of the core service:   *)
(* PricingServer.GetStats and the invalidation in PricingServer's          *)
(* RecordSnapshot (internal/core/grpc.go) over redisclient.Cache.          *)
(*                                                                         *)
(* Each call to Redis or Postgres is a step of its own; requests and       *)
(* writes interleave between any two.  The statistics themselves are       *)
(* represented by how many of the item's snapshots they could take into    *)
(* account: what a window leaves out does not matter to staleness.         *)
(***************************************************************************)
EXTENDS Naturals, Sequences, Functions

CONSTANTS
    Items, Windows, Users,
    OwnerOf,        \* tracked_items.user_id
    Readers,        \* GetStats calls that may be in progress at once
    TTL,            \* CORE_STATS_TTL, in ticks
    CallTimeout,    \* deadline of a call, set by the caller, in ticks
    MaxTime,        \* bound: ticks followed
    MaxSnapshots    \* bound: snapshots of an item

ASSUME OwnerAssumption == OwnerOf \in [Items -> Users]
ASSUME TimesAssumption == /\ TTL \in Nat \ {0}
                          /\ CallTimeout \in Nat
                          /\ MaxTime \in Nat
                          /\ MaxSnapshots \in Nat

VARIABLES
    live,       \* items that are not deleted
    commits,    \* when each snapshot of an item was committed (history)
    pending,    \* committed RecordSnapshot calls that have yet to invalidate
    cache,      \* stats:* in Redis
    reader,     \* the GetStats calls
    now

vars == <<live, commits, pending, cache, reader, now>>

\* statsCacheKey, and the key a reader makes of it for its window.
ItemKey(i) == <<i>>
WindowKey(i, w) == <<i, w>>

Keys == {ItemKey(i) : i \in Items}
            \cup {WindowKey(i, w) : i \in Items, w \in Windows}

Idle == [pc |-> "idle"]
Calls == [pc : {"lookup", "check", "compute", "store", "answered"},
          user : Users, item : Items, window : Windows,
          since : Nat,        \* when the call came in
          found : BOOLEAN,    \* history: the item existed then
          seen : Nat,         \* the statistics in hand
          at : Nat]           \* history: when they were answered

\* Statistics are never about nothing, and never about what was not committed.
TypeOK ==
    /\ live \subseteq Items
    /\ commits \in [Items -> Seq(0 .. now)]
    /\ pending \in [Items -> Nat]
    /\ DOMAIN cache \subseteq Keys
    /\ \A k \in DOMAIN cache : /\ cache[k].seen \in 1 .. Len(commits[k[1]])
                               /\ cache[k].expires <= now + TTL
    /\ reader \in [Readers -> Calls \cup {Idle}]
    /\ \A r \in Readers :
           reader[r].pc \in {"check", "store", "answered"} =>
               reader[r].seen \in 1 .. Len(commits[reader[r].item])
    /\ now \in Nat

Init ==
    /\ live = Items
    /\ commits = [i \in Items |-> <<>>]
    /\ pending = [i \in Items |-> 0]
    /\ cache = <<>>
    /\ reader = [r \in Readers |-> Idle]
    /\ now = 0

-----------------------------------------------------------------------------
\* RecordSnapshot and DeleteItem

\* The transaction of Repo.RecordSnapshot.
RecordSnapshot(i) ==
    /\ i \in live
    /\ Len(commits[i]) < MaxSnapshots
    /\ commits' = [commits EXCEPT ![i] = Append(@, now)]
    /\ pending' = [pending EXCEPT ![i] = @ + 1]
    /\ UNCHANGED <<live, cache, reader, now>>

\* cache.Delete after the commit, by exact key.
Invalidate(i) ==
    /\ pending[i] > 0
    /\ pending' = [pending EXCEPT ![i] = @ - 1]
    /\ cache' = Restrict(cache, DOMAIN cache \ {ItemKey(i)})
    /\ UNCHANGED <<live, commits, reader, now>>

\* Redis is away, or core dies between the commit and the call.
InvalidateLost(i) ==
    /\ pending[i] > 0
    /\ pending' = [pending EXCEPT ![i] = @ - 1]
    /\ UNCHANGED <<live, commits, cache, reader, now>>

\* The history goes with the row; whatever is cached stays.
DeleteItem(i) ==
    /\ i \in live
    /\ live' = live \ {i}
    /\ UNCHANGED <<commits, pending, cache, reader, now>>

-----------------------------------------------------------------------------
\* GetStats

Step(r, from) == /\ reader[r].pc = from
                 /\ now <= reader[r].since + CallTimeout
Goto(r, pc, seen) ==
    reader' = [reader EXCEPT ![r].pc = pc, ![r].seen = seen,
                             ![r].at = IF pc = "answered" THEN now ELSE 0]
KeyOf(r) == WindowKey(reader[r].item, reader[r].window)
\* Mutation: any user will do.
OwnedByAnybody(r) == reader[r].item \in live
\* GetItem: ownership is part of the predicate.
Owned(r) == /\ reader[r].item \in live
            /\ OwnerOf[reader[r].item] = reader[r].user
\* Mutation: an empty window is not an error.
SampledAlways(r) == TRUE
Sampled(r) == commits[reader[r].item] # <<>>
\* Mutation: the lifetime is read in a larger unit.
ExpiryFar == now + 60 * TTL
Expiry == now + TTL
Fail(r) == reader' = [reader EXCEPT ![r] = Idle]

Request(r, u, i, w) ==
    /\ reader[r].pc \in {"idle", "answered"}
    /\ reader' = [reader EXCEPT ![r] =
                     [pc |-> "lookup", user |-> u, item |-> i, window |-> w,
                      since |-> now, found |-> i \in live, seen |-> 0, at |-> 0]]
    /\ UNCHANGED <<live, commits, pending, cache, now>>

Stored(k, seen) ==
    [x \in DOMAIN cache \cup {k} |->
        IF x = k THEN [seen |-> seen, expires |-> Expiry] ELSE cache[x]]

LookupHit(r) ==
    /\ Step(r, "lookup")
    /\ KeyOf(r) \in DOMAIN cache
    /\ Goto(r, "check", cache[KeyOf(r)].seen)
    /\ UNCHANGED <<live, commits, pending, cache, now>>

\* No entry, or an error that reads as none.
LookupMiss(r) ==
    /\ Step(r, "lookup")
    /\ Goto(r, "compute", 0)
    /\ UNCHANGED <<live, commits, pending, cache, now>>

\* The entry is keyed by item, not by caller.
Check(r) ==
    /\ Step(r, "check")
    /\ IF Owned(r) THEN Goto(r, "answered", reader[r].seen) ELSE Fail(r)
    /\ UNCHANGED <<live, commits, pending, cache, now>>

\* Repo.Stats: the owner's item, with at least one sample.
Compute(r) ==
    /\ Step(r, "compute")
    /\ IF Owned(r) /\ Sampled(r)
       THEN Goto(r, "store", Len(commits[reader[r].item]))
       ELSE Fail(r)
    /\ UNCHANGED <<live, commits, pending, cache, now>>

\* cache.Set, then the reply, which does not depend on it.
Store(r) ==
    /\ Step(r, "store")
    /\ cache' \in {cache, Stored(KeyOf(r), reader[r].seen)}
    /\ Goto(r, "answered", reader[r].seen)
    /\ UNCHANGED <<live, commits, pending, now>>

\* The deadline passes, or a call to Postgres fails.
GiveUp(r) ==
    /\ reader[r].pc \notin {"idle", "answered"}
    /\ Fail(r)
    /\ UNCHANGED <<live, commits, pending, cache, now>>

Tick ==
    /\ now < MaxTime
    /\ now' = now + 1
    /\ cache' = Restrict(cache, {k \in DOMAIN cache : cache[k].expires > now + 1})
    /\ UNCHANGED <<live, commits, pending, reader>>

Next ==
    \/ \E i \in Items : \/ RecordSnapshot(i) \/ Invalidate(i) \/ InvalidateLost(i)
                        \/ DeleteItem(i)
    \/ \E r \in Readers :
        \/ \E u \in Users, i \in Items, w \in Windows : Request(r, u, i, w)
        \/ LookupHit(r) \/ LookupMiss(r) \/ Check(r) \/ Compute(r)
        \/ Store(r) \/ GiveUp(r)
    \/ Tick

Spec == Init /\ [][Next]_vars

-----------------------------------------------------------------------------
\* Properties

Answered(r) == reader[r].pc = "answered"

\* A user is only ever told of an item of theirs that existed when they asked,
\* though another user's request may have filled the cache.
AnswersOwner ==
    \A r \in Readers : Answered(r) => /\ OwnerOf[reader[r].item] = reader[r].user
                                      /\ reader[r].found

\* Whatever happens to invalidation, no answer misses a snapshot for longer than
\* an entry lives and the two calls around it last: the one that filled the entry
\* late and the one that took its time to pass it on.
StaleBounded ==
    \A r \in Readers : Answered(r) =>
        \A n \in DOMAIN commits[reader[r].item] :
            n > reader[r].seen =>
                reader[r].at < commits[reader[r].item][n] + TTL + 2 * CallTimeout
=============================================================================
