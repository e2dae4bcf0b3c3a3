--------------------------- MODULE StatsCacheProofs ---------------------------
(***************************************************************************)
(* For every choice of the constants: GetStats tells an owner only of an   *)
(* item of theirs, and what it tells is never further behind than          *)
(* StatsCache's bound, whatever becomes of the invalidations.              *)
(***************************************************************************)
EXTENDS StatsCache, TLAPS

\* What a call in progress knows of its item holds on while others write, and what
\* it has in hand misses no more than it may when it answers in time.
CallOK(c) ==
    /\ c.since <= now
    /\ c.at <= now
    /\ c.item \in live => c.found
    /\ c.pc \in {"store", "answered"} => OwnerOf[c.item] = c.user /\ c.found
    /\ c.pc \in {"check", "store", "answered"} => c.seen \in 1 .. Len(commits[c.item])
    /\ \A n \in 1 .. Len(commits[c.item]) : n > c.seen =>
           /\ c.pc = "store" => c.since <= commits[c.item][n]
           /\ c.pc = "check" => c.since < commits[c.item][n] + TTL + CallTimeout
           /\ c.pc = "answered" => c.at < commits[c.item][n] + TTL + 2 * CallTimeout

\* An entry expires a lifetime and a call after the first snapshot it misses.
EntryOK(i, e) ==
    /\ e.expires \in Nat
    /\ now < e.expires /\ e.expires <= now + TTL
    /\ e.seen \in 1 .. Len(commits[i])
    /\ \A n \in 1 .. Len(commits[i]) : n > e.seen =>
           e.expires <= commits[i][n] + TTL + CallTimeout

CallsOK == \A r \in Readers : reader[r] \in Calls => CallOK(reader[r])
EntriesOK == \A k \in DOMAIN cache : EntryOK(k[1], cache[k])

IInv == TypeOK /\ CallsOK /\ EntriesOK

-----------------------------------------------------------------------------
\* One more snapshot, or one more tick, in the record of commits.

LEMMA SeqLonger ==
    ASSUME NEW t \in Nat, NEW s \in Seq(0 .. t)
    PROVE  /\ Append(s, t) \in Seq(0 .. t)
           /\ Len(Append(s, t)) = Len(s) + 1
           /\ \A n \in 1 .. Len(s) : Append(s, t)[n] = s[n]
           /\ Append(s, t)[Len(s) + 1] = t
  OBVIOUS

\* How late an answer can be, in numbers alone.
LEMMA NotYetLate ==
    ASSUME NEW t \in Nat, NEW s \in Nat, s <= t
    PROVE  s < t + TTL + CallTimeout /\ s < t + TTL + 2 * CallTimeout
BY TimesAssumption

LEMMA AnsweredInTime ==
    ASSUME NEW t \in Nat, NEW s \in Nat, NEW a \in Nat, s <= t, a <= s + CallTimeout
    PROVE  a < t + TTL + 2 * CallTimeout
BY TimesAssumption

LEMMA SeqLater ==
    ASSUME NEW t \in Nat, NEW s \in Seq(0 .. t)
    PROVE  s \in Seq(0 .. t + 1)
  OBVIOUS

LEMMA CommitTimes ==
    ASSUME TypeOK, NEW i \in Items
    PROVE  /\ commits[i] \in Seq(0 .. now)
           /\ Len(commits[i]) \in Nat
           /\ \A n \in 1 .. Len(commits[i]) : commits[i][n] \in Nat /\ commits[i][n] <= now
<1>1. commits[i] \in Seq(0 .. now) /\ now \in Nat
  BY DEF TypeOK
<1> QED
  BY <1>1

\* A key that is in use names an item.
LEMMA KeyItem ==
    ASSUME NEW k \in Keys
    PROVE  k[1] \in Items
BY DEF Keys, ItemKey, WindowKey

LEMMA CallFields ==
    ASSUME NEW c \in Calls
    PROVE  /\ c.pc \in {"lookup", "check", "compute", "store", "answered"}
           /\ c.user \in Users /\ c.item \in Items /\ c.window \in Windows
           /\ c.since \in Nat /\ c.found \in BOOLEAN
           /\ c.seen \in Nat /\ c.at \in Nat
BY DEF Calls

LEMMA InProgress ==
    ASSUME TypeOK, NEW r \in Readers, reader[r].pc # "idle"
    PROVE  reader[r] \in Calls
BY DEF TypeOK, Idle

-----------------------------------------------------------------------------
\* What others do to a call and to an entry.

\* A step of one call that writes nothing but, perhaps, the cache.
LEMMA CallMoves ==
    ASSUME IInv, NEW r \in Readers, NEW c \in Calls \cup {Idle},
           reader' = [reader EXCEPT ![r] = c],
           UNCHANGED <<live, commits, pending, now>>,
           c \in Calls => CallOK(c),
           DOMAIN cache' \subseteq Keys,
           \A k \in DOMAIN cache' : EntryOK(k[1], cache'[k])
    PROVE  IInv'
<1>1. c.pc \in {"check", "store", "answered"} => c.seen \in 1 .. Len(commits[c.item])
  BY DEF CallOK, Idle
<1>2. \A q \in Readers : reader'[q] = IF q = r THEN c ELSE reader[q]
  BY DEF IInv, TypeOK
<1>3. TypeOK'
  BY <1>1, <1>2 DEF IInv, TypeOK, EntryOK
<1>4. CallsOK'
  BY <1>2 DEF IInv, CallsOK, CallOK
<1>5. EntriesOK'
  BY DEF EntriesOK, EntryOK
<1> QED
  BY <1>3, <1>4, <1>5 DEF IInv

LEMMA Recording ==
    ASSUME IInv, NEW i \in Items, RecordSnapshot(i)
    PROVE  IInv'
<1>1. /\ commits[i] \in Seq(0 .. now) /\ now \in Nat
      /\ commits' = [commits EXCEPT ![i] = Append(commits[i], now)]
      /\ commits \in [Items -> Seq(0 .. now)]
  BY DEF IInv, TypeOK, RecordSnapshot
<1>2. \A j \in Items :
        /\ Len(commits[j]) \in Nat
        /\ Len(commits'[j]) \in Nat
        /\ Len(commits[j]) <= Len(commits'[j])
        /\ \A n \in 1 .. Len(commits[j]) : commits'[j][n] = commits[j][n]
        /\ \A n \in 1 .. Len(commits'[j]) : n > Len(commits[j]) => commits'[j][n] = now
  <2> SUFFICES ASSUME NEW j \in Items
               PROVE  /\ Len(commits[j]) \in Nat
                      /\ Len(commits'[j]) \in Nat
                      /\ Len(commits[j]) <= Len(commits'[j])
                      /\ \A n \in 1 .. Len(commits[j]) : commits'[j][n] = commits[j][n]
                      /\ \A n \in 1 .. Len(commits'[j]) :
                             n > Len(commits[j]) => commits'[j][n] = now
    OBVIOUS
  <2>1. Len(commits[j]) \in Nat
    BY <1>1
  <2>2. CASE j = i
    <3>1. commits'[j] = Append(commits[j], now)
      BY <1>1, <2>2
    <3> QED
      BY <1>1, <2>1, <2>2, <3>1, SeqLonger
  <2>3. CASE j # i
    <3>1. commits'[j] = commits[j]
      BY <1>1, <2>3
    <3> QED
      BY <2>1, <3>1
  <2> QED
    BY <2>2, <2>3
<1>3. commits' \in [Items -> Seq(0 .. now)]
  BY <1>1, SeqLonger
<1>4. TypeOK'
  BY <1>2, <1>3, CallFields, KeyItem DEF IInv, TypeOK, RecordSnapshot, Idle
<1>5. CallsOK'
  <2> SUFFICES ASSUME NEW r \in Readers, reader[r] \in Calls PROVE CallOK(reader[r])'
    BY DEF CallsOK, RecordSnapshot
  <2> DEFINE c == reader[r]
  <2>1. CallOK(c)
    BY DEF IInv, CallsOK
  <2>2. c.item \in Items /\ c.since \in Nat /\ c.at \in Nat /\ c.seen \in Nat
    BY CallFields
  <2>3. /\ c.since <= now /\ c.at <= now
        /\ c.item \in live => c.found
        /\ c.pc \in {"store", "answered"} => OwnerOf[c.item] = c.user /\ c.found
    BY <2>1 DEF CallOK
  <2>4. c.pc \in {"check", "store", "answered"} => c.seen \in 1 .. Len(commits'[c.item])
    BY <1>2, <2>1, <2>2 DEF CallOK
  <2>5. ASSUME NEW n \in 1 .. Len(commits'[c.item]), n > c.seen
        PROVE  /\ c.pc = "store" => c.since <= commits'[c.item][n]
               /\ c.pc = "check" => c.since < commits'[c.item][n] + TTL + CallTimeout
               /\ c.pc = "answered" => c.at < commits'[c.item][n] + TTL + 2 * CallTimeout
    <3>1. CASE n \in 1 .. Len(commits[c.item])
      BY <1>2, <2>1, <2>2, <2>5, <3>1 DEF CallOK
    <3>2. CASE n \notin 1 .. Len(commits[c.item])
      <4>1. commits'[c.item][n] = now
        BY <1>2, <2>2, <3>2
      <4>2. c.since < now + TTL + CallTimeout /\ c.at < now + TTL + 2 * CallTimeout
        <5>1. now \in Nat /\ c.since \in Nat /\ c.at \in Nat /\ c.since <= now /\ c.at <= now
          BY <1>1, <2>2, <2>3
        <5> HIDE DEF c
        <5> QED
          BY <5>1, NotYetLate
      <4> QED
        BY <2>3, <4>1, <4>2
    <3> QED
      BY <3>1, <3>2
  <2> QED
    BY <2>3, <2>4, <2>5 DEF CallOK, RecordSnapshot
<1>6. EntriesOK'
  <2> SUFFICES ASSUME NEW k \in DOMAIN cache PROVE EntryOK(k[1], cache[k])'
    BY DEF EntriesOK, RecordSnapshot
  <2>1. EntryOK(k[1], cache[k]) /\ k[1] \in Items
    BY KeyItem DEF IInv, EntriesOK, TypeOK
  <2> DEFINE e == cache[k]
             j == k[1]
  <2>2. cache' = cache /\ now' = now /\ TTL \in Nat /\ CallTimeout \in Nat
    BY TimesAssumption DEF RecordSnapshot
  <2>3. e.seen \in 1 .. Len(commits'[j])
    BY <1>2, <2>1 DEF EntryOK
  <2>4. ASSUME NEW n \in 1 .. Len(commits'[j]), n > e.seen
        PROVE  e.expires <= commits'[j][n] + TTL + CallTimeout
    <3>1. CASE n \in 1 .. Len(commits[j])
      BY <1>2, <2>1, <2>4, <3>1 DEF EntryOK
    <3>2. CASE n \notin 1 .. Len(commits[j])
      <4>1. commits'[j][n] = now /\ now \in Nat
        BY <1>1, <1>2, <2>1, <3>2
      <4>2. e.expires \in Nat /\ e.expires <= now + TTL
        BY <2>1 DEF EntryOK
      <4> HIDE DEF e, j
      <4> QED
        BY <2>2, <4>1, <4>2
    <3> QED
      BY <3>1, <3>2
  <2> QED
    BY <2>1, <2>2, <2>3, <2>4 DEF EntryOK
<1> QED
  BY <1>4, <1>5, <1>6 DEF IInv

\* Entries go, nothing else changes.
LEMMA Removing ==
    ASSUME IInv, NEW S \in SUBSET DOMAIN cache, cache' = Restrict(cache, S),
           pending' \in [Items -> Nat],
           UNCHANGED <<live, commits, reader, now>>
    PROVE  IInv'
<1>1. DOMAIN cache' = S /\ \A k \in S : cache'[k] = cache[k]
  BY DEF Restrict
<1>2. TypeOK'
  BY <1>1 DEF IInv, TypeOK
<1>3. CallsOK' /\ EntriesOK'
  BY <1>1 DEF IInv, CallsOK, CallOK, EntriesOK, EntryOK
<1> QED
  BY <1>2, <1>3 DEF IInv

LEMMA Deleting ==
    ASSUME IInv, NEW i \in Items, DeleteItem(i)
    PROVE  IInv'
<1>1. TypeOK'
  BY DEF IInv, TypeOK, DeleteItem
<1>2. CallsOK' /\ EntriesOK'
  BY DEF IInv, CallsOK, CallOK, EntriesOK, EntryOK, DeleteItem
<1> QED
  BY <1>1, <1>2 DEF IInv

LEMMA Ticking ==
    ASSUME IInv, Tick
    PROVE  IInv'
<1>1. /\ now \in Nat /\ now' = now + 1
      /\ DOMAIN cache' \subseteq DOMAIN cache
      /\ \A k \in DOMAIN cache' : cache'[k] = cache[k] /\ now' < cache[k].expires
  BY DEF IInv, TypeOK, Tick, Restrict
<1>2. commits' \in [Items -> Seq(0 .. now')]
  BY <1>1, SeqLater DEF IInv, TypeOK, Tick
<1>3. \A k \in DOMAIN cache' : EntryOK(k[1], cache[k]) /\ cache[k].expires <= now' + TTL
  BY <1>1, TimesAssumption DEF IInv, EntriesOK, EntryOK
<1>4. TypeOK'
  <2>1. /\ live' = live /\ pending' = pending /\ reader' = reader
        /\ commits' = commits
    BY DEF Tick
  <2>2. \A k \in DOMAIN cache' : /\ cache'[k].seen \in 1 .. Len(commits'[k[1]])
                                  /\ cache'[k].expires <= now' + TTL
    BY <1>1, <1>3, <2>1 DEF EntryOK
  <2> QED
    BY <1>1, <1>2, <2>1, <2>2 DEF IInv, TypeOK
<1>5. CallsOK'
  BY <1>1, CallFields DEF IInv, CallsOK, CallOK, Tick
<1>6. EntriesOK'
  BY <1>1, <1>3 DEF EntriesOK, EntryOK, Tick
<1> QED
  BY <1>4, <1>5, <1>6 DEF IInv

-----------------------------------------------------------------------------
\* The steps of a call.

LEMMA MayGiveUp ==
    ASSUME IInv, NEW r \in Readers, Fail(r), UNCHANGED <<live, commits, pending, cache, now>>
    PROVE  IInv'
<1>1. Idle \notin Calls
  BY DEF Idle, Calls
<1> QED
  BY <1>1, CallMoves DEF Fail, IInv, TypeOK, EntriesOK

LEMMA Requesting ==
    ASSUME IInv, NEW r \in Readers, NEW u \in Users, NEW i \in Items, NEW w \in Windows,
           Request(r, u, i, w)
    PROVE  IInv'
<1> DEFINE c == [pc |-> "lookup", user |-> u, item |-> i, window |-> w,
                 since |-> now, found |-> i \in live, seen |-> 0, at |-> 0]
<1>1. c \in Calls
  BY DEF Calls, IInv, TypeOK
<1>2. CallOK(c)
  <2>1. /\ c.pc = "lookup" /\ c.since = now /\ c.at = 0 /\ c.item = i
        /\ c.item \in live => c.found
    OBVIOUS
  <2>2. now \in Nat
    BY DEF IInv, TypeOK
  <2> HIDE DEF c
  <2> QED
    BY <2>1, <2>2 DEF CallOK
<1>3. reader' = [reader EXCEPT ![r] = c]
  BY DEF Request
<1> HIDE DEF c
<1> QED
  BY <1>1, <1>2, <1>3, CallMoves DEF Request, IInv, TypeOK, EntriesOK

\* What Goto makes of a call in progress.
LEMMA Going ==
    ASSUME TypeOK, NEW r \in Readers, NEW from \in {"lookup", "check", "compute", "store"},
           Step(r, from), NEW pc \in {"check", "compute", "store", "answered"},
           NEW seen \in Nat, Goto(r, pc, seen)
    PROVE  \E c \in Calls :
               /\ reader' = [reader EXCEPT ![r] = c]
               /\ c.pc = pc /\ c.seen = seen
               /\ c.at = IF pc = "answered" THEN now ELSE 0
               /\ c.item = reader[r].item /\ c.user = reader[r].user
               /\ c.since = reader[r].since /\ c.found = reader[r].found
<1>1. reader[r] \in Calls /\ now \in Nat
  BY InProgress DEF Step, TypeOK
<1> DEFINE c == [reader[r] EXCEPT !.pc = pc, !.seen = seen,
                                  !.at = IF pc = "answered" THEN now ELSE 0]
<1>2. reader' = [reader EXCEPT ![r] = c]
  BY DEF Goto, TypeOK
<1>3. c \in Calls
  BY <1>1 DEF Calls
<1> QED
  BY <1>1, <1>2, <1>3 DEF Calls

LEMMA Hitting ==
    ASSUME IInv, NEW r \in Readers, LookupHit(r)
    PROVE  IInv'
<1> DEFINE k == KeyOf(r)
<1>1. /\ reader[r] \in Calls /\ k \in DOMAIN cache /\ k[1] = reader[r].item
      /\ now \in Nat
  BY InProgress DEF IInv, TypeOK, LookupHit, Step, KeyOf, WindowKey
<1>2. EntryOK(reader[r].item, cache[k]) /\ reader[r].item \in Items
  BY <1>1, CallFields DEF IInv, EntriesOK
<1>3. cache[k].seen \in Nat
  BY <1>1, <1>2, CommitTimes DEF EntryOK, IInv
<1>4. PICK c \in Calls :
        /\ reader' = [reader EXCEPT ![r] = c]
        /\ c.pc = "check" /\ c.seen = cache[k].seen /\ c.at = 0
        /\ c.item = reader[r].item /\ c.user = reader[r].user
        /\ c.since = reader[r].since /\ c.found = reader[r].found
  BY <1>3, Going DEF LookupHit, IInv
<1>5. CallOK(reader[r])
  BY <1>1 DEF IInv, CallsOK
<1>6. CallOK(c)
  <2>1. c.since <= now /\ c.at <= now /\ (c.item \in live => c.found)
    BY <1>1, <1>4, <1>5 DEF CallOK
  <2>2. ASSUME NEW n \in 1 .. Len(commits[c.item]), n > c.seen
        PROVE  c.since < commits[c.item][n] + TTL + CallTimeout
    <3>1. /\ now < cache[k].expires
          /\ cache[k].expires <= commits[c.item][n] + TTL + CallTimeout
          /\ cache[k].expires \in Nat /\ commits[c.item][n] \in Nat
      BY <1>2, <1>4, <2>2, CommitTimes DEF EntryOK, IInv
    <3> QED
      BY <1>1, <2>1, <3>1, CallFields, TimesAssumption
  <2> QED
    BY <1>2, <1>4, <2>1, <2>2 DEF CallOK, EntryOK
<1> QED
  BY <1>4, <1>6, CallMoves DEF LookupHit, IInv, TypeOK, EntriesOK

LEMMA Missing ==
    ASSUME IInv, NEW r \in Readers, LookupMiss(r)
    PROVE  IInv'
<1>1. reader[r] \in Calls /\ now \in Nat
  BY InProgress DEF IInv, TypeOK, LookupMiss, Step
<1>2. PICK c \in Calls :
        /\ reader' = [reader EXCEPT ![r] = c]
        /\ c.pc = "compute" /\ c.seen = 0 /\ c.at = 0
        /\ c.item = reader[r].item /\ c.user = reader[r].user
        /\ c.since = reader[r].since /\ c.found = reader[r].found
  BY Going DEF LookupMiss, IInv
<1>3. CallOK(c)
  BY <1>1, <1>2 DEF CallOK, IInv, CallsOK
<1> QED
  BY <1>2, <1>3, CallMoves DEF LookupMiss, IInv, TypeOK, EntriesOK

\* The entry was fresh when it was found, and the call is not late.
LEMMA Checking ==
    ASSUME IInv, NEW r \in Readers, Check(r)
    PROVE  IInv'
<1>1. CASE ~Owned(r)
  BY <1>1, MayGiveUp DEF Check
<1>2. CASE Owned(r)
  <2>1. /\ reader[r] \in Calls /\ now \in Nat /\ now <= reader[r].since + CallTimeout
        /\ reader[r].pc = "check"
    BY InProgress DEF IInv, TypeOK, Check, Step
  <2>2. PICK c \in Calls :
          /\ reader' = [reader EXCEPT ![r] = c]
          /\ c.pc = "answered" /\ c.seen = reader[r].seen /\ c.at = now
          /\ c.item = reader[r].item /\ c.user = reader[r].user
          /\ c.since = reader[r].since /\ c.found = reader[r].found
    BY <1>2, <2>1, Going, CallFields DEF Check, IInv
  <2>3. CallOK(reader[r])
    BY <2>1 DEF IInv, CallsOK
  <2>4. ASSUME NEW n \in 1 .. Len(commits[c.item]), n > c.seen
        PROVE  c.at < commits[c.item][n] + TTL + 2 * CallTimeout
    <3>1. reader[r].since < commits[c.item][n] + TTL + CallTimeout
      BY <2>1, <2>2, <2>3, <2>4 DEF CallOK
    <3>2. reader[r].since \in Nat /\ commits[c.item][n] \in Nat
      BY <2>1, <2>2, <2>4, CallFields, CommitTimes DEF IInv
    <3>3. now < commits[c.item][n] + TTL + 2 * CallTimeout
      <4> DEFINE since == reader[r].since
                 committed == commits[c.item][n]
      <4>1. /\ now \in Nat /\ since \in Nat /\ committed \in Nat
            /\ now <= since + CallTimeout
            /\ since < committed + TTL + CallTimeout
        BY <2>1, <3>1, <3>2
      <4> HIDE DEF since, committed
      <4>2. now < committed + TTL + 2 * CallTimeout
        BY <4>1, TimesAssumption
      <4> QED
        BY <4>2 DEF committed
    <3> QED
      BY <2>2, <3>3
  <2>5. /\ c.since <= now /\ c.at <= now
        /\ c.found /\ OwnerOf[c.item] = c.user
        /\ c.seen \in 1 .. Len(commits[c.item])
    BY <1>2, <2>1, <2>2, <2>3 DEF CallOK, Owned
  <2>6. CallOK(c)
    BY <2>2, <2>4, <2>5 DEF CallOK
  <2> QED
    BY <2>2, <2>6, CallMoves DEF Check, IInv, TypeOK, EntriesOK
<1> QED
  BY <1>1, <1>2

LEMMA Computing ==
    ASSUME IInv, NEW r \in Readers, Compute(r)
    PROVE  IInv'
<1>1. CASE ~(Owned(r) /\ Sampled(r))
  BY <1>1, MayGiveUp DEF Compute
<1>2. CASE Owned(r) /\ Sampled(r)
  <2> DEFINE i == reader[r].item
  <2>1. reader[r] \in Calls /\ now \in Nat /\ i \in Items
    BY InProgress, CallFields DEF IInv, TypeOK, Compute, Step
  <2>2. commits[i] \in Seq(0 .. now) /\ Len(commits[i]) \in Nat /\ commits[i] # <<>>
    BY <1>2, <2>1, CommitTimes DEF Sampled, IInv
  <2>3. Len(commits[i]) \in 1 .. Len(commits[i])
    BY <2>2
  <2>4. PICK c \in Calls :
          /\ reader' = [reader EXCEPT ![r] = c]
          /\ c.pc = "store" /\ c.seen = Len(commits[i]) /\ c.at = 0
          /\ c.item = reader[r].item /\ c.user = reader[r].user
          /\ c.since = reader[r].since /\ c.found = reader[r].found
    BY <1>2, <2>2, Going DEF Compute, IInv
  <2>5. CallOK(reader[r])
    BY <2>1 DEF IInv, CallsOK
  <2>6. /\ c.since <= now /\ c.at <= now
        /\ c.found /\ OwnerOf[c.item] = c.user
        /\ c.seen \in 1 .. Len(commits[c.item])
        /\ \A n \in 1 .. Len(commits[c.item]) : ~(n > c.seen)
    BY <1>2, <2>1, <2>2, <2>3, <2>4, <2>5 DEF CallOK, Owned
  <2>7. CallOK(c)
    BY <2>6 DEF CallOK
  <2> QED
    BY <2>4, <2>7, CallMoves DEF Compute, IInv, TypeOK, EntriesOK
<1> QED
  BY <1>1, <1>2

\* What is stored late misses nothing that was there when the call came in.
LEMMA Storing ==
    ASSUME IInv, NEW r \in Readers, Store(r)
    PROVE  IInv'
<1> DEFINE i == reader[r].item
           k == KeyOf(r)
           e == [seen |-> reader[r].seen, expires |-> Expiry]
<1>1. /\ reader[r] \in Calls /\ now \in Nat /\ i \in Items
      /\ now <= reader[r].since + CallTimeout /\ reader[r].pc = "store"
      /\ reader[r].since \in Nat /\ reader[r].window \in Windows
  BY InProgress, CallFields DEF IInv, TypeOK, Store, Step
<1>2. k \in Keys /\ k[1] = i
  BY <1>1 DEF Keys, KeyOf, WindowKey
<1>3. CallOK(reader[r])
  BY <1>1 DEF IInv, CallsOK
<1>4. /\ reader[r].seen \in 1 .. Len(commits[i])
      /\ \A n \in 1 .. Len(commits[i]) : n > reader[r].seen =>
             reader[r].since <= commits[i][n] /\ commits[i][n] \in Nat
  BY <1>1, <1>3, CommitTimes DEF CallOK, IInv
<1>5. EntryOK(i, e)
  <2>1. e.seen = reader[r].seen /\ e.expires = now + TTL
    BY DEF Expiry
  <2> HIDE DEF e, i
  <2>2. ASSUME NEW n \in 1 .. Len(commits[i]), n > e.seen
        PROVE  e.expires <= commits[i][n] + TTL + CallTimeout
    <3>1. reader[r].since <= commits[i][n] /\ commits[i][n] \in Nat
      BY <1>4, <2>1, <2>2
    <3> QED
      BY <1>1, <2>1, <3>1, TimesAssumption
  <2> QED
    BY <1>1, <1>4, <2>1, <2>2, TimesAssumption DEF EntryOK
<1>6. /\ DOMAIN cache' \subseteq Keys
      /\ \A x \in DOMAIN cache' : EntryOK(x[1], cache'[x])
  <2>1. CASE cache' = cache
    BY <2>1 DEF IInv, TypeOK, EntriesOK
  <2>2. CASE cache' = Stored(k, reader[r].seen)
    <3>1. /\ DOMAIN cache' = DOMAIN cache \cup {k}
          /\ \A x \in DOMAIN cache' : cache'[x] = IF x = k THEN e ELSE cache[x]
      BY <2>2 DEF Stored
    <3> HIDE DEF e, k, i
    <3> QED
      BY <1>2, <1>5, <3>1 DEF IInv, TypeOK, EntriesOK
  <2> QED
    BY <2>1, <2>2 DEF Store
<1>7. PICK c \in Calls :
        /\ reader' = [reader EXCEPT ![r] = c]
        /\ c.pc = "answered" /\ c.seen = reader[r].seen /\ c.at = now
        /\ c.item = reader[r].item /\ c.user = reader[r].user
        /\ c.since = reader[r].since /\ c.found = reader[r].found
  BY <1>1, Going, CallFields DEF Store, IInv
<1>8. CallOK(c)
  <2>1. ASSUME NEW n \in 1 .. Len(commits[c.item]), n > c.seen
        PROVE  c.at < commits[c.item][n] + TTL + 2 * CallTimeout
    <3>1. reader[r].since <= commits[c.item][n] /\ commits[c.item][n] \in Nat
      BY <1>4, <1>7, <2>1
    <3>2. /\ reader[r].since \in Nat /\ c.at \in Nat
          /\ c.at <= reader[r].since + CallTimeout
      BY <1>1, <1>7
    <3> QED
      BY <3>1, <3>2, AnsweredInTime
  <2>2. /\ c.since <= now /\ c.at <= now
        /\ c.found /\ OwnerOf[c.item] = c.user
        /\ c.seen \in 1 .. Len(commits[c.item])
    BY <1>1, <1>3, <1>4, <1>7 DEF CallOK
  <2> QED
    BY <1>7, <2>1, <2>2 DEF CallOK
<1> QED
  BY <1>6, <1>7, <1>8, CallMoves DEF Store

-----------------------------------------------------------------------------

LEMMA InitIInv == Init => IInv
<1> SUFFICES ASSUME Init PROVE IInv
  OBVIOUS
<1>1. \A r \in Readers : reader[r] = Idle /\ Idle \notin Calls
  BY DEF Init, Idle, Calls
<1>2. TypeOK
  BY <1>1 DEF Init, TypeOK, Idle
<1>3. CallsOK /\ EntriesOK
  BY <1>1 DEF Init, CallsOK, EntriesOK
<1> QED
  BY <1>2, <1>3 DEF IInv

LEMMA NextIInv == IInv /\ [Next]_vars => IInv'
<1> SUFFICES ASSUME IInv, [Next]_vars PROVE IInv'
  OBVIOUS
<1>1. ASSUME NEW i \in Items, RecordSnapshot(i) PROVE IInv'
  BY <1>1, Recording
<1>2. ASSUME NEW i \in Items, Invalidate(i) PROVE IInv'
  <2>1. pending[i] \in Nat /\ pending[i] - 1 \in Nat
    BY <1>2 DEF Invalidate, IInv, TypeOK
  <2>2. pending' \in [Items -> Nat]
    BY <1>2, <2>1 DEF Invalidate, IInv, TypeOK
  <2> QED
    BY <1>2, <2>2, Removing DEF Invalidate
<1>3. ASSUME NEW i \in Items, InvalidateLost(i) PROVE IInv'
  <2>1. pending[i] \in Nat /\ pending[i] - 1 \in Nat
    BY <1>3 DEF InvalidateLost, IInv, TypeOK
  <2>2. pending' \in [Items -> Nat]
    BY <1>3, <2>1 DEF InvalidateLost, IInv, TypeOK
  <2> QED
    BY <1>3, <2>2 DEF InvalidateLost, IInv, TypeOK, CallsOK, CallOK, EntriesOK, EntryOK
<1>4. ASSUME NEW i \in Items, DeleteItem(i) PROVE IInv'
  BY <1>4, Deleting
<1>5. ASSUME NEW r \in Readers, NEW u \in Users, NEW i \in Items, NEW w \in Windows,
             Request(r, u, i, w)
      PROVE  IInv'
  BY <1>5, Requesting
<1>6. ASSUME NEW r \in Readers, LookupHit(r) PROVE IInv'
  BY <1>6, Hitting
<1>7. ASSUME NEW r \in Readers, LookupMiss(r) PROVE IInv'
  BY <1>7, Missing
<1>8. ASSUME NEW r \in Readers, Check(r) PROVE IInv'
  BY <1>8, Checking
<1>9. ASSUME NEW r \in Readers, Compute(r) PROVE IInv'
  BY <1>9, Computing
<1>10. ASSUME NEW r \in Readers, Store(r) PROVE IInv'
  BY <1>10, Storing
<1>11. ASSUME NEW r \in Readers, GiveUp(r) PROVE IInv'
  BY <1>11, MayGiveUp DEF GiveUp
<1>12. CASE Tick
  BY <1>12, Ticking
<1>13. CASE UNCHANGED vars
  BY <1>13 DEF vars, IInv, TypeOK, CallsOK, CallOK, EntriesOK, EntryOK
<1> QED
  BY <1>1, <1>2, <1>3, <1>4, <1>5, <1>6, <1>7, <1>8, <1>9, <1>10, <1>11, <1>12, <1>13
     DEF Next

LEMMA IInvAlways == Spec => []IInv
  BY InitIInv, NextIInv, PTL DEF Spec

LEMMA AnsweredOK ==
    ASSUME IInv, NEW r \in Readers, Answered(r)
    PROVE  /\ reader[r] \in Calls /\ CallOK(reader[r])
           /\ DOMAIN commits[reader[r].item] = 1 .. Len(commits[reader[r].item])
<1>1. reader[r] \in Calls
  BY InProgress DEF IInv, Answered
<1> QED
  BY <1>1, CallFields, CommitTimes DEF IInv, CallsOK

\* Statistics are never about nothing, in the cache, in a call or in an answer.
THEOREM TypeCorrect == Spec => []TypeOK
<1>1. IInv => TypeOK
  BY DEF IInv
<1> QED
  BY <1>1, IInvAlways, PTL

\* The cache serves every user, and yet GetStats answers a user only about an item
\* of theirs that existed when they asked.
THEOREM OwnerAlone == Spec => []AnswersOwner
<1>1. IInv => AnswersOwner
  BY AnsweredOK DEF AnswersOwner, Answered, CallOK
<1> QED
  BY <1>1, IInvAlways, PTL

\* Without any invalidation an answer of GetStats is behind by at most the lifetime
\* of an entry, the call that filled it and the call that passed it on.
THEOREM StaleNoLonger == Spec => []StaleBounded
<1>1. IInv => StaleBounded
  BY AnsweredOK DEF StaleBounded, Answered, CallOK
<1> QED
  BY <1>1, IInvAlways, PTL
=============================================================================
