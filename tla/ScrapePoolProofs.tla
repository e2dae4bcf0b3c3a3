--------------------------- MODULE ScrapePoolProofs ---------------------------
(***************************************************************************)
(* For any number of items, processes, workers and faults: a lease has one *)
(* holder, alerts reach the queue in order, and without a fault none that  *)
(* core decided is missing.                                                *)
(***************************************************************************)
EXTENDS ScrapeClient, FoldFacts, SequenceTheorems

\* Where a worker stands: an alert in hand is one to be pushed.
WorkersOK ==
    \A w \in Workers : /\ pc[w] = "observing" => job[w] \in Items
                       /\ pc[w] = "raising" <=> hand[w] # <<>>

Types ==
    /\ TypeOK
    /\ due \in Seq(Items)
    /\ WorkersOK

\* One holder, said without counting.
Leases ==
    /\ \A p \in Processes : IsInjective(batch[p])
    /\ \A i \in Items \ (overrun \cup deleted) :
           /\ Held(i) => i \in leased
           /\ \A v, w \in Holders(i) : v = w
           /\ \A p, q \in Waiting(i) : p = q
           /\ Holders(i) = {} \/ Waiting(i) = {}

\* What is in hand is the rest of a report, and what came before it is on the list.
Nth(x, j) == [x EXCEPT !.nth = j]
Listed(x) == \A j \in 1 .. x.nth - 1 : \E m \in DOMAIN queued : queued[m] = Nth(x, j)
Ordered(h) == \A k \in 1 .. Len(h) : h[k] = Nth(h[1], h[1].nth + k - 1) /\ Listed(h[1])
HandsOrdered == \A w \in Workers : Ordered(hand[w])

IInv == Types /\ Leases /\ HandsOrdered /\ QueuedInOrder /\ NothingMissing

-----------------------------------------------------------------------------
\* Sequences

LEMMA SeqFacts ==
    ASSUME NEW S, NEW s \in Seq(S)
    PROVE  /\ Len(s) \in Nat /\ DOMAIN s = 1 .. Len(s)
           /\ \A k \in 1 .. Len(s) : s[k] \in S
           /\ s = <<>> <=> Len(s) = 0
           /\ ToSet(s) \subseteq S
           /\ \A x : x \in ToSet(s) <=> \E k \in 1 .. Len(s) : s[k] = x
BY DEF ToSet

LEMMA TailFacts ==
    ASSUME NEW S, NEW s \in Seq(S), s # <<>>
    PROVE  /\ Head(s) = s[1] /\ Head(s) \in S
           /\ Tail(s) \in Seq(S) /\ Len(Tail(s)) = Len(s) - 1
           /\ \A k \in 1 .. Len(s) - 1 : Tail(s)[k] = s[k + 1]
OBVIOUS

LEMMA AppendFacts ==
    ASSUME NEW S, NEW s \in Seq(S), NEW x \in S
    PROVE  /\ Append(s, x) \in Seq(S) /\ Len(Append(s, x)) = Len(s) + 1
           /\ \A k \in 1 .. Len(s) : Append(s, x)[k] = s[k]
           /\ Append(s, x)[Len(s) + 1] = x
           /\ ToSet(Append(s, x)) = ToSet(s) \cup {x}
<1>1. /\ Append(s, x) \in Seq(S) /\ Len(Append(s, x)) = Len(s) + 1
      /\ \A k \in 1 .. Len(s) : Append(s, x)[k] = s[k]
      /\ Append(s, x)[Len(s) + 1] = x
      /\ Len(s) \in Nat
  OBVIOUS
<1> DEFINE t == Append(s, x)
<1>2. DOMAIN t = 1 .. Len(s) + 1 /\ DOMAIN s = 1 .. Len(s)
  BY <1>1, SeqFacts
<1> HIDE DEF t
<1>3. \A y \in ToSet(t) : y \in ToSet(s) \cup {x}
  <2> SUFFICES ASSUME NEW k \in 1 .. Len(s) + 1 PROVE t[k] \in ToSet(s) \cup {x}
    BY <1>2 DEF ToSet
  <2> QED
    BY <1>1, <1>2 DEF ToSet, t
<1>4. \A y \in ToSet(s) \cup {x} : y \in ToSet(t)
  <2>1. x \in ToSet(t)
    BY <1>1, <1>2 DEF ToSet, t
  <2>2. ASSUME NEW k \in 1 .. Len(s) PROVE s[k] \in ToSet(t)
    <3>1. k \in DOMAIN t /\ t[k] = s[k]
      BY <1>1, <1>2 DEF t
    <3> QED
      BY <3>1 DEF ToSet
  <2> QED
    BY <1>2, <2>1, <2>2 DEF ToSet
<1>5. ToSet(t) = ToSet(s) \cup {x}
  BY <1>3, <1>4
<1> QED
  BY <1>1, <1>5 DEF t

LEMMA TailSet ==
    ASSUME NEW S, NEW s \in Seq(S), s # <<>>
    PROVE  /\ ToSet(s) = ToSet(Tail(s)) \cup {Head(s)}
           /\ IsInjective(s) => IsInjective(Tail(s)) /\ Head(s) \notin ToSet(Tail(s))
<1> DEFINE h == Head(s)
           t == Tail(s)
<1>1. /\ Len(s) \in Nat /\ Len(s) > 0 /\ DOMAIN s = 1 .. Len(s)
      /\ DOMAIN t = 1 .. Len(s) - 1 /\ h = s[1]
      /\ \A k \in 1 .. Len(s) - 1 : t[k] = s[k + 1]
  BY SeqFacts, TailFacts
<1> HIDE DEF h, t
<1>2. \A x \in ToSet(s) : x \in ToSet(t) \cup {h}
  <2> SUFFICES ASSUME NEW k \in 1 .. Len(s), k # 1 PROVE s[k] \in ToSet(t)
    BY <1>1 DEF ToSet
  <2>1. k - 1 \in DOMAIN t /\ t[k - 1] = s[k]
    BY <1>1
  <2> QED
    BY <2>1 DEF ToSet
<1>3. \A x \in ToSet(t) \cup {h} : x \in ToSet(s)
  <2>1. h \in ToSet(s)
    BY <1>1 DEF ToSet
  <2>2. ASSUME NEW k \in 1 .. Len(s) - 1 PROVE t[k] \in ToSet(s)
    <3>1. k + 1 \in DOMAIN s /\ s[k + 1] = t[k]
      BY <1>1
    <3> QED
      BY <3>1 DEF ToSet
  <2> QED
    BY <1>1, <2>1, <2>2 DEF ToSet
<1>4. ASSUME IsInjective(s) PROVE IsInjective(t) /\ h \notin ToSet(t)
  <2>1. \A j, k \in 1 .. Len(s) : s[j] = s[k] => j = k
    BY <1>1, <1>4 DEF IsInjective
  <2>2. IsInjective(t)
    <3> SUFFICES ASSUME NEW j \in 1 .. Len(s) - 1, NEW k \in 1 .. Len(s) - 1, t[j] = t[k]
                 PROVE  j = k
      BY <1>1 DEF IsInjective
    <3>1. j + 1 \in 1 .. Len(s) /\ k + 1 \in 1 .. Len(s) /\ s[j + 1] = s[k + 1]
      BY <1>1
    <3>2. j + 1 = k + 1
      BY <2>1, <3>1
    <3> QED
      BY <3>2
  <2>3. h \notin ToSet(t)
    <3> SUFFICES ASSUME NEW k \in 1 .. Len(s) - 1, t[k] = h PROVE FALSE
      BY <1>1 DEF ToSet
    <3>1. k + 1 \in 1 .. Len(s) /\ 1 \in 1 .. Len(s) /\ s[k + 1] = s[1]
      BY <1>1
    <3>2. k + 1 = 1
      BY <2>1, <3>1
    <3> QED
      BY <3>2
  <2> QED
    BY <2>2, <2>3
<1>5. ToSet(s) = ToSet(t) \cup {h}
  BY <1>2, <1>3
<1> QED
  BY <1>4, <1>5 DEF h, t

LEMMA RemovedFacts ==
    ASSUME NEW S, NEW s \in Seq(S), NEW n \in 1 .. Len(s)
    PROVE  /\ RemoveAt(s, n) \in Seq(S) /\ Len(RemoveAt(s, n)) = Len(s) - 1
           /\ \A k \in 1 .. Len(s) - 1 :
                  RemoveAt(s, n)[k] = IF k < n THEN s[k] ELSE s[k + 1]
<1> DEFINE before == SubSeq(s, 1, n - 1)
           after == SubSeq(s, n + 1, Len(s))
<1>1. /\ before \in Seq(S) /\ Len(before) = n - 1
      /\ \A k \in 1 .. n - 1 : before[k] = s[k]
  OBVIOUS
<1>2. /\ after \in Seq(S) /\ Len(after) = Len(s) - n
      /\ \A k \in 1 .. Len(s) - n : after[k] = s[n + k]
  OBVIOUS
<1>3. RemoveAt(s, n) = before \o after /\ Len(s) \in Nat
  BY DEF RemoveAt
<1> HIDE DEF before, after
<1>4. /\ before \o after \in Seq(S) /\ Len(before \o after) = Len(s) - 1
      /\ \A k \in 1 .. Len(s) - 1 :
             (before \o after)[k] = IF k <= n - 1 THEN before[k] ELSE after[k - (n - 1)]
  <2>1. /\ before \o after \in Seq(S)
        /\ Len(before \o after) = Len(before) + Len(after)
        /\ \A k \in 1 .. Len(before) + Len(after) : (before \o after)[k] =
               IF k <= Len(before) THEN before[k] ELSE after[k - Len(before)]
    BY <1>1, <1>2, ConcatProperties
  <2>2. Len(before) + Len(after) = Len(s) - 1
    BY <1>1, <1>2, <1>3
  <2> QED
    BY <1>1, <2>1, <2>2
<1>5. ASSUME NEW k \in 1 .. Len(s) - 1
      PROVE  (before \o after)[k] = IF k < n THEN s[k] ELSE s[k + 1]
  <2>1. CASE k < n
    BY <1>1, <1>3, <1>4, <2>1
  <2>2. CASE ~(k < n)
    <3>1. k - (n - 1) \in 1 .. Len(s) - n /\ n + (k - (n - 1)) = k + 1
      BY <1>3, <2>2
    <3> QED
      BY <1>2, <1>3, <1>4, <2>2, <3>1
  <2> QED
    BY <2>1, <2>2
<1> QED
  BY <1>3, <1>4, <1>5

\* A row that leaves takes no other with it.
LEMMA DueWithoutRow ==
    ASSUME due \in Seq(Items), IsInjective(due), NEW i
    PROVE  /\ DueWithout(i) \in Seq(Items) /\ IsInjective(DueWithout(i))
           /\ ToSet(DueWithout(i)) = ToSet(due) \ {i}
<1>1. CASE i \notin ToSet(due)
  BY <1>1 DEF DueWithout
<1>2. CASE i \in ToSet(due)
  <2> DEFINE n == CHOOSE n \in DOMAIN due : due[n] = i
             rest == RemoveAt(due, n)
  <2>1. n \in 1 .. Len(due) /\ due[n] = i /\ Len(due) \in Nat /\ DOMAIN due = 1 .. Len(due)
    BY <1>2, SeqFacts
  <2> HIDE DEF n
  <2>2. /\ rest \in Seq(Items) /\ Len(rest) = Len(due) - 1
        /\ \A k \in 1 .. Len(due) - 1 : rest[k] = IF k < n THEN due[k] ELSE due[k + 1]
    BY <2>1, RemovedFacts
  <2>3. rest = DueWithout(i)
    BY <1>2 DEF DueWithout, n
  <2> HIDE DEF rest
  <2>4. IsInjective(rest)
    <3> SUFFICES ASSUME NEW j \in 1 .. Len(due) - 1, NEW k \in 1 .. Len(due) - 1,
                        rest[j] = rest[k]
                 PROVE  j = k
      BY <2>2, SeqFacts DEF IsInjective
    <3>1. \A l, m \in 1 .. Len(due) : due[l] = due[m] => l = m
      BY <2>1 DEF IsInjective
    <3>2. j \in 1 .. Len(due) /\ j + 1 \in 1 .. Len(due) /\ k \in 1 .. Len(due) /\ k + 1 \in 1 .. Len(due)
      BY <2>1
    <3> QED
      BY <2>1, <2>2, <3>1, <3>2
  <2>5. \A x : x \in ToSet(rest) <=> x \in ToSet(due) \ {i}
    <3> SUFFICES ASSUME NEW x PROVE x \in ToSet(rest) <=> x \in ToSet(due) \ {i}
      OBVIOUS
    <3>1. ASSUME NEW k \in 1 .. Len(due) - 1, rest[k] = x PROVE x \in ToSet(due) \ {i}
      <4>1. CASE k < n
        <5>1. k \in 1 .. Len(due) /\ due[k] = x /\ k # n
          BY <2>1, <2>2, <3>1, <4>1
        <5> QED
          BY <2>1, <5>1, SeqFacts DEF IsInjective
      <4>2. CASE ~(k < n)
        <5>1. k + 1 \in 1 .. Len(due) /\ due[k + 1] = x /\ k + 1 # n
          BY <2>1, <2>2, <3>1, <4>2
        <5> QED
          BY <2>1, <5>1, SeqFacts DEF IsInjective
      <4> QED
        BY <4>1, <4>2
    <3>2. ASSUME NEW k \in 1 .. Len(due), due[k] = x, x # i PROVE x \in ToSet(rest)
      <4>1. k # n
        BY <2>1, <3>2
      <4>2. CASE k < n
        <5>1. k \in 1 .. Len(rest) /\ rest[k] = x
          BY <2>1, <2>2, <3>2, <4>2
        <5> QED
          BY <2>2, <5>1, SeqFacts
      <4>3. CASE k > n
        <5>1. k - 1 \in 1 .. Len(rest) /\ rest[k - 1] = x
          BY <2>1, <2>2, <3>2, <4>3
        <5> QED
          BY <2>2, <5>1, SeqFacts
      <4> QED
        BY <2>1, <4>1, <4>2, <4>3
    <3>3. \A y \in ToSet(rest) : \E k \in 1 .. Len(due) - 1 : rest[k] = y
      BY <2>2, SeqFacts
    <3> QED
      BY <2>1, <3>1, <3>2, <3>3, SeqFacts
  <2> QED
    BY <2>2, <2>3, <2>4, <2>5
<1> QED
  BY <1>1, <1>2

LEMMA TakenFacts ==
    ASSUME due \in Seq(Items)
    PROVE  Taken \subseteq ToSet(due) /\ Taken \cap leased = {} /\ IsFiniteSet(Taken)
<1>1. Taken \subseteq ToSet(due) /\ Taken \cap leased = {}
  BY DEF Taken, Oldest, Free, ToSet
<1> DEFINE picks == {n \in DOMAIN due : Free(n) /\ Cardinality({m \in 1 .. n - 1 : Free(m)}) < BatchSize}
           row == [n \in picks |-> due[n]]
<1>2. IsFiniteSet(picks)
  <2>1. DOMAIN due = 1 .. Len(due) /\ Len(due) \in Int
    OBVIOUS
  <2>2. IsFiniteSet(1 .. Len(due))
    BY <2>1, FS_Interval
  <2>3. picks \in SUBSET (1 .. Len(due))
    BY <2>1
  <2> HIDE DEF picks
  <2> QED
    BY <2>2, <2>3, FS_Subset
<1>3. Taken = {due[n] : n \in picks}
  BY DEF Taken, Oldest
<1> HIDE DEF picks
<1>4. row \in Surjection(picks, Taken)
  BY <1>3 DEF Surjection
<1> HIDE DEF row
<1>5. IsFiniteSet(Taken)
  BY <1>2, <1>4, FS_Surjection
<1> QED
  BY <1>1, <1>5

\* A batch is the rows of a claim, each once.
LEMMA BatchFacts ==
    ASSUME NEW T \in SUBSET Items, IsFiniteSet(T), NEW rs \in SetToSeqs(T)
    PROVE  rs \in Seq(Items) /\ IsInjective(rs) /\ ToSet(rs) \subseteq T
<1>1. Cardinality(T) \in Nat
  BY FS_CardinalityType
<1>2. /\ rs \in [1 .. Cardinality(T) -> T]
      /\ \A i, j \in 1 .. Cardinality(T) : i # j => rs[i] # rs[j]
  BY DEF SetToSeqs
<1> QED
  BY <1>1, <1>2 DEF IsInjective, ToSet

\* The alerts of a report, numbered from one.
LEMMA AlertsFacts ==
    ASSUME NEW i \in Items, reports[i] \in Nat, NEW n \in 0 .. 2
    PROVE  /\ AlertsOf(i, n) \in Seq(Alert) /\ Len(AlertsOf(i, n)) = n
           /\ AlertsOf(i, n) = <<>> <=> n = 0
           /\ \A k \in 1 .. n :
                  AlertsOf(i, n)[k] = [item |-> i, report |-> reports[i] + 1, nth |-> k]
<1> DEFINE a == AlertsOf(i, n)
<1>1. /\ DOMAIN a = 1 .. n /\ a = [k \in 1 .. n |-> a[k]]
      /\ \A k \in 1 .. n : a[k] = [item |-> i, report |-> reports[i] + 1, nth |-> k]
  BY DEF AlertsOf
<1>2. \A k \in 1 .. n : [item |-> i, report |-> reports[i] + 1, nth |-> k] \in Alert
  BY DEF Alert
<1> HIDE DEF a
<1>3. \A k \in 1 .. n : a[k] \in Alert
  BY <1>1, <1>2
<1>4. a \in Seq(Alert) /\ Len(a) = n
  BY <1>1, <1>3
<1> QED
  BY <1>1, <1>4, SeqFacts DEF a

-----------------------------------------------------------------------------
\* Types

LEMMA WorkerFacts ==
    ASSUME Types, NEW w \in Workers
    PROVE  /\ ProcessOf[w] \in Processes /\ batch[ProcessOf[w]] \in Seq(Items)
           /\ hand[w] \in Seq(Alert) /\ queued \in Seq(Alert)
           /\ pc[w] \in {"idle", "observing", "raising"}
           /\ pc[w] = "observing" => job[w] \in Items
           /\ pc[w] = "raising" <=> hand[w] # <<>>
           /\ pc[w] = "raising" => /\ Head(hand[w]) \in Alert
                                   /\ Tail(hand[w]) \in Seq(Alert)
                                   /\ Append(queued, Head(hand[w])) \in Seq(Alert)
<1>1. /\ ProcessOf[w] \in Processes /\ batch[ProcessOf[w]] \in Seq(Items)
      /\ hand[w] \in Seq(Alert) /\ queued \in Seq(Alert)
      /\ pc[w] \in {"idle", "observing", "raising"}
      /\ pc[w] = "observing" => job[w] \in Items
      /\ pc[w] = "raising" <=> hand[w] # <<>>
  BY ProcessAssumption DEF Types, TypeOK, WorkersOK
<1> QED
  BY <1>1, TailFacts, AppendFacts

\* A fault is counted.
LEMMA FaultFacts ==
    ASSUME TypeOK, Fault
    PROVE  faults' \in Nat /\ faults' > 0
BY DEF TypeOK, Fault

\* A worker that is done with its item.
LEMMA IdleFacts ==
    ASSUME Types, NEW w \in Workers, Idle(w), hand' \in [Workers -> Seq(Alert)],
           hand'[w] = <<>>, \A v \in Workers \ {w} : hand'[v] = hand[v]
    PROVE  /\ job' \in [Workers -> Items \cup {NoItem}]
           /\ pc' \in [Workers -> {"idle", "observing", "raising"}]
           /\ pc'[w] = "idle" /\ \A v \in Workers \ {w} : pc'[v] = pc[v] /\ job'[v] = job[v]
           /\ WorkersOK'
BY DEF Types, TypeOK, WorkersOK, Idle

LEMMA RecordedTypes ==
    ASSUME Types, NEW w \in Workers, NEW n \in 0 .. 2, Recorded(w, n)
    PROVE  /\ job[w] \in Items /\ reports[job[w]] \in Nat
           /\ due' \in Seq(Items) /\ IsInjective(due')
           /\ ToSet(due') = ToSet(due) \ {job[w]} /\ leased' = leased \ {job[w]}
           /\ leased' \subseteq ToSet(due') /\ ToSet(due') \subseteq Items
           /\ reports' \in [Items -> Nat] /\ decided' \subseteq Alert
<1> DEFINE i == job[w]
<1>1. i \in Items /\ reports[i] \in Nat
  BY WorkerFacts DEF Types, TypeOK, Recorded
<1>2. due' = DueWithout(i) /\ leased' = leased \ {i}
  BY DEF Recorded, LeasesWithout
<1>3. /\ due' \in Seq(Items) /\ IsInjective(due') /\ ToSet(due') = ToSet(due) \ {i}
  BY <1>2, DueWithoutRow DEF Types, TypeOK
<1>4. reports' \in [Items -> Nat]
  BY <1>1 DEF Types, TypeOK, Recorded
<1>5. decided' \subseteq Alert
  <2>1. ToSet(AlertsOf(i, n)) \subseteq Alert
    BY <1>1, AlertsFacts, SeqFacts
  <2> QED
    BY <2>1 DEF Types, TypeOK, Recorded
<1>6. leased \subseteq ToSet(due) /\ ToSet(due) \subseteq Items
  BY DEF Types, TypeOK
<1> QED
  BY <1>1, <1>2, <1>3, <1>4, <1>5, <1>6

LEMMA RowTypes ==
    ASSUME Types, NEW i \in Items, BecomeDue(i) \/ Lapse(i) \/ EarlyLapse(i) \/ DeleteItem(i)
    PROVE  Types'
<1>1. CASE BecomeDue(i)
  <2>1. /\ due' = Append(due, i) /\ i \notin ToSet(due) /\ due \in Seq(Items)
        /\ IsInjective(due) /\ leased' = leased
    BY <1>1 DEF BecomeDue, Types, TypeOK
  <2>2. due' \in Seq(Items) /\ ToSet(due') = ToSet(due) \cup {i}
    BY <2>1, AppendFacts
  <2>3. IsInjective(due')
    <3>1. /\ DOMAIN due' = 1 .. Len(due) + 1 /\ due'[Len(due) + 1] = i
          /\ \A k \in 1 .. Len(due) : due'[k] = due[k] /\ due[k] # i
          /\ DOMAIN due = 1 .. Len(due) /\ Len(due) \in Nat
      BY <2>1, <2>2, AppendFacts, SeqFacts
    <3> QED
      BY <2>1, <3>1 DEF IsInjective
  <2> QED
    BY <1>1, <2>1, <2>2, <2>3 DEF BecomeDue, Types, TypeOK, WorkersOK, alerts
<1>2. CASE Lapse(i)
  BY <1>2 DEF Lapse, Types, TypeOK, WorkersOK, alerts
<1>3. CASE EarlyLapse(i)
  BY <1>3, FaultFacts DEF EarlyLapse, Types, TypeOK, WorkersOK, alerts
<1>4. CASE DeleteItem(i)
  <2>1. /\ DueWithout(i) \in Seq(Items) /\ IsInjective(DueWithout(i))
        /\ ToSet(DueWithout(i)) = ToSet(due) \ {i}
    BY DueWithoutRow DEF Types, TypeOK
  <2> QED
    BY <1>4, <2>1 DEF DeleteItem, Types, TypeOK, WorkersOK, alerts
<1> QED
  BY <1>1, <1>2, <1>3, <1>4

LEMMA ProcessTypes ==
    ASSUME Types, NEW p \in Processes, Claim(p) \/ ClaimLost(p) \/ Stop(p)
    PROVE  Types'
<1>1. Taken \subseteq ToSet(due) /\ IsFiniteSet(Taken) /\ Taken \subseteq Items
  BY TakenFacts DEF Types, TypeOK
<1>2. CASE Claim(p)
  <2>1. PICK rs \in SetToSeqs(Taken) : batch' = [batch EXCEPT ![p] = rs]
    BY <1>2 DEF Claim
  <2>2. rs \in Seq(Items)
    BY <1>1, BatchFacts
  <2> QED
    BY <1>1, <1>2, <2>1, <2>2 DEF Claim, Types, TypeOK, WorkersOK, alerts
<1>3. CASE ClaimLost(p)
  BY <1>1, <1>3, FaultFacts DEF ClaimLost, Types, TypeOK, WorkersOK, alerts
<1>4. CASE Stop(p)
  <2>1. /\ UNCHANGED <<due, leased, deleted, queued, reports, decided, overrun>>
        /\ faults' \in Nat
        /\ batch' = [batch EXCEPT ![p] = <<>>]
    BY <1>4, FaultFacts DEF Stop, rows, alerts, Types
  <2>2. batch' \in [Processes -> Seq(Items)]
    BY <2>1 DEF Types, TypeOK
  <2>3. /\ job' \in [Workers -> Items \cup {NoItem}] /\ hand' \in [Workers -> Seq(Alert)]
        /\ pc' \in [Workers -> {"idle", "observing", "raising"}]
    BY <1>4 DEF Stop, Types, TypeOK
  <2>4. WorkersOK'
    BY <1>4 DEF Stop, Types, WorkersOK
  <2> QED
    BY <2>1, <2>2, <2>3, <2>4 DEF Types, TypeOK
<1> QED
  BY <1>2, <1>3, <1>4

LEMMA FeedTypes ==
    ASSUME Types, NEW w \in Workers, Feed(w)
    PROVE  Types'
<1> DEFINE p == ProcessOf[w]
<1>1. /\ p \in Processes /\ batch[p] \in Seq(Items) /\ batch[p] # <<>> /\ hand[w] = <<>>
      /\ batch' = [batch EXCEPT ![p] = Tail(batch[p])]
      /\ job' = [job EXCEPT ![w] = Head(batch[p])]
      /\ pc' = [pc EXCEPT ![w] = "observing"]
      /\ UNCHANGED <<rows, hand, alerts, overrun, faults>>
  BY WorkerFacts DEF Feed
<1>2. Head(batch[p]) \in Items /\ Tail(batch[p]) \in Seq(Items)
  BY <1>1, TailFacts
<1> QED
  BY <1>1, <1>2 DEF Types, TypeOK, WorkersOK, rows, alerts

LEMMA ReportTypes ==
    ASSUME Types, NEW w \in Workers, NEW n \in 0 .. 2, Report(w, n) \/ ReplyLost(w, n)
    PROVE  Types'
<1>1. Recorded(w, n) /\ UNCHANGED <<deleted, batch, queued, overrun>>
  BY DEF Report, ReplyLost, Recorded
<1>2. /\ job[w] \in Items /\ reports[job[w]] \in Nat
      /\ due' \in Seq(Items) /\ IsInjective(due')
      /\ leased' \subseteq ToSet(due') /\ ToSet(due') \subseteq Items
      /\ reports' \in [Items -> Nat] /\ decided' \subseteq Alert
  BY <1>1, RecordedTypes
<1>3. hand[w] = <<>>
  BY <1>1, WorkerFacts DEF Recorded
<1> DEFINE new == AlertsOf(job[w], n)
<1>4. new \in Seq(Alert) /\ (new = <<>> <=> n = 0)
  BY <1>2, AlertsFacts
<1> HIDE DEF new
<1>5. CASE Report(w, n)
  <2>1. hand' = [hand EXCEPT ![w] = new] /\ UNCHANGED faults
    BY <1>5 DEF Report, new
  <2>2. hand' \in [Workers -> Seq(Alert)] /\ hand'[w] = new
    BY <1>4, <2>1 DEF Types, TypeOK
  <2>3. \A v \in Workers \ {w} : hand'[v] = hand[v]
    BY <2>1 DEF Types, TypeOK
  <2>4. CASE n = 0
    <3>1. Idle(w)
      BY <1>5, <2>4 DEF Report
    <3>2. /\ job' \in [Workers -> Items \cup {NoItem}]
          /\ pc' \in [Workers -> {"idle", "observing", "raising"}] /\ WorkersOK'
      BY <1>4, <2>2, <2>3, <2>4, <3>1, IdleFacts
    <3> QED
      BY <1>1, <1>2, <2>1, <2>2, <3>2 DEF Types, TypeOK
  <2>5. CASE n # 0
    <3>1. pc' = [pc EXCEPT ![w] = "raising"] /\ UNCHANGED job
      BY <1>5, <2>5 DEF Report
    <3>2. /\ job' \in [Workers -> Items \cup {NoItem}]
          /\ pc' \in [Workers -> {"idle", "observing", "raising"}] /\ WorkersOK'
      BY <1>4, <2>2, <2>3, <2>5, <3>1 DEF Types, TypeOK, WorkersOK
    <3> QED
      BY <1>1, <1>2, <2>1, <2>2, <3>2 DEF Types, TypeOK
  <2> QED
    BY <2>4, <2>5
<1>6. CASE ReplyLost(w, n)
  <2>1. Idle(w) /\ UNCHANGED hand /\ faults' \in Nat
    BY <1>6, FaultFacts DEF ReplyLost, Types
  <2>2. /\ job' \in [Workers -> Items \cup {NoItem}]
        /\ pc' \in [Workers -> {"idle", "observing", "raising"}] /\ WorkersOK'
    BY <1>3, <2>1, IdleFacts DEF Types, TypeOK
  <2> QED
    BY <1>1, <1>2, <2>1, <2>2 DEF Types, TypeOK
<1> QED
  BY <1>5, <1>6

LEMMA GivenUpTypes ==
    ASSUME Types, NEW w \in Workers, Refused(w) \/ ReportLost(w)
    PROVE  Types'
<1>1. /\ pc[w] = "observing" /\ Idle(w) /\ UNCHANGED <<rows, batch, hand, alerts, overrun>>
      /\ faults' \in Nat
  BY FaultFacts DEF Refused, ReportLost, Types, TypeOK
<1>2. hand[w] = <<>>
  BY <1>1, WorkerFacts
<1>3. /\ job' \in [Workers -> Items \cup {NoItem}]
      /\ pc' \in [Workers -> {"idle", "observing", "raising"}] /\ WorkersOK'
  BY <1>1, <1>2, IdleFacts DEF Types, TypeOK
<1> QED
  BY <1>1, <1>3 DEF Types, TypeOK, rows, alerts

LEMMA PushTypes ==
    ASSUME Types, NEW w \in Workers, Push(w) \/ PushFails(w)
    PROVE  Types'
<1>1. /\ pc[w] = "raising" /\ hand[w] \in Seq(Alert) /\ hand[w] # <<>>
      /\ Tail(hand[w]) \in Seq(Alert) /\ queued \in Seq(Alert)
      /\ Append(queued, Head(hand[w])) \in Seq(Alert)
  BY WorkerFacts DEF Push, PushFails
<1>2. /\ UNCHANGED <<rows, batch, reports, decided, overrun>>
      /\ queued' \in Seq(Alert) /\ faults' \in Nat
  BY <1>1, FaultFacts DEF Push, PushFails, Types, TypeOK
<1>3. PICK rest \in Seq(Alert) :
        /\ hand' = [hand EXCEPT ![w] = rest]
        /\ IF rest = <<>> THEN Idle(w) ELSE UNCHANGED <<job, pc>>
  <2>1. CASE Push(w)
    <3>1. /\ hand' = [hand EXCEPT ![w] = Tail(hand[w])]
          /\ IF Tail(hand[w]) = <<>> THEN Idle(w) ELSE UNCHANGED <<job, pc>>
      BY <2>1 DEF Push, Rest
    <3> QED
      BY <1>1, <3>1
  <2>2. CASE PushFails(w)
    <3>1. hand' = [hand EXCEPT ![w] = <<>>] /\ Idle(w) /\ <<>> \in Seq(Alert)
      BY <2>2 DEF PushFails, Abandoned
    <3> QED
      BY <3>1
  <2> QED
    BY <2>1, <2>2
<1>4. /\ hand' \in [Workers -> Seq(Alert)] /\ hand'[w] = rest
      /\ \A v \in Workers \ {w} : hand'[v] = hand[v]
  BY <1>3 DEF Types, TypeOK
<1>5. /\ job' \in [Workers -> Items \cup {NoItem}]
      /\ pc' \in [Workers -> {"idle", "observing", "raising"}] /\ WorkersOK'
  <2>1. CASE rest = <<>>
    BY <1>3, <1>4, <2>1, IdleFacts
  <2>2. CASE rest # <<>>
    BY <1>1, <1>3, <1>4, <2>2 DEF Types, TypeOK, WorkersOK
  <2> QED
    BY <2>1, <2>2
<1> QED
  BY <1>2, <1>4, <1>5 DEF Types, TypeOK, rows

LEMMA TypesStep == Types /\ [Next]_vars => Types'
<1> SUFFICES ASSUME Types, [Next]_vars PROVE Types'
  OBVIOUS
<1>1. CASE UNCHANGED vars
  BY <1>1 DEF vars, Types, TypeOK, WorkersOK
<1>2. ASSUME NEW w \in Workers, Step(w) PROVE Types'
  BY <1>2, FeedTypes, ReportTypes, GivenUpTypes, PushTypes DEF Step
<1>3. CASE Trouble
  BY <1>3, RowTypes, ProcessTypes, ReportTypes, GivenUpTypes, PushTypes DEF Trouble
<1> QED
  BY <1>1, <1>2, <1>3, RowTypes, ProcessTypes DEF Next

-----------------------------------------------------------------------------
\* Leases

LEMMA HolderFacts ==
    ASSUME NEW i, NEW w \in Workers
    PROVE  w \in Holders(i) <=> pc[w] = "observing" /\ job[w] = i
BY DEF Holders

\* No step but a claim gives an item to anybody, and no step but the one that is
\* done with it takes a lease from its holder.
LEMMA LeasesShrink ==
    ASSUME Leases,
           \A w \in Workers : pc'[w] = "observing" => pc[w] = "observing" /\ job'[w] = job[w],
           \A p \in Processes : batch'[p] = batch[p] \/ batch'[p] = <<>>,
           overrun \subseteq overrun', deleted \subseteq deleted',
           \A i \in Items \ (overrun' \cup deleted') : i \in leased /\ Held(i)' => i \in leased'
    PROVE  Leases'
<1>1. \A i : Holders(i)' \subseteq Holders(i)
  BY DEF Holders
<1>2. \A i : Waiting(i)' \subseteq Waiting(i)
  BY DEF Waiting, ToSet
<1>3. \A i : Held(i)' => Held(i)
  BY <1>1, <1>2 DEF Held
<1>4. \A p \in Processes : IsInjective(batch'[p])
  BY DEF Leases, IsInjective
<1> QED
  BY <1>1, <1>2, <1>3, <1>4 DEF Leases

LEMMA RowLeases ==
    ASSUME Types, Leases, NEW i \in Items,
           BecomeDue(i) \/ Lapse(i) \/ EarlyLapse(i) \/ DeleteItem(i)
    PROVE  Leases'
<1>1. UNCHANGED <<pc, job, batch>>
  BY DEF BecomeDue, Lapse, EarlyLapse, DeleteItem
<1>2. \A j : Held(j)' <=> Held(j)
  BY <1>1 DEF Held, Holders, Waiting
<1>3. /\ overrun \subseteq overrun' /\ deleted \subseteq deleted'
      /\ \A j \in Items \ (overrun' \cup deleted') : j \in leased /\ Held(j) => j \in leased'
  BY DEF BecomeDue, Lapse, EarlyLapse, DeleteItem
<1> QED
  BY <1>1, <1>2, <1>3, LeasesShrink

LEMMA ClaimLeases ==
    ASSUME Types, Leases, NEW p \in Processes, Claim(p)
    PROVE  Leases'
<1>1. /\ Taken \subseteq Items /\ Taken \cap leased = {} /\ IsFiniteSet(Taken)
  BY TakenFacts DEF Types, TypeOK
<1>2. PICK rs \in SetToSeqs(Taken) : batch' = [batch EXCEPT ![p] = rs]
  BY DEF Claim
<1>3. IsInjective(rs) /\ ToSet(rs) \subseteq Taken
  BY <1>1, <1>2, BatchFacts
<1>4. /\ batch[p] = <<>> /\ leased' = leased \cup Taken
      /\ UNCHANGED <<deleted, job, pc, overrun>>
      /\ batch'[p] = rs /\ \A q \in Processes \ {p} : batch'[q] = batch[q]
  BY <1>2 DEF Claim, Ready, Types, TypeOK
<1>5. \A q \in Processes : IsInjective(batch'[q])
  BY <1>3, <1>4 DEF Leases
<1>6. ASSUME NEW i \in Items \ (overrun \cup deleted)
      PROVE  /\ Held(i)' => i \in leased'
             /\ \A v, w \in Holders(i)' : v = w
             /\ \A q, r \in Waiting(i)' : q = r
             /\ Holders(i)' = {} \/ Waiting(i)' = {}
  <2>1. Holders(i)' = Holders(i)
    BY <1>4 DEF Holders
  <2>2. /\ Held(i) => i \in leased
        /\ \A v, w \in Holders(i) : v = w
        /\ \A q, r \in Waiting(i) : q = r
        /\ Holders(i) = {} \/ Waiting(i) = {}
    BY <1>6 DEF Leases
  <2>3. CASE i \in ToSet(rs)
    <3>1. Holders(i) = {} /\ Waiting(i) = {}
      BY <1>1, <1>3, <2>2, <2>3 DEF Held
    <3>2. \A q \in Waiting(i)' : q = p
      BY <1>4, <3>1 DEF Waiting
    <3> QED
      BY <1>3, <1>4, <2>1, <2>3, <3>1, <3>2
  <2>4. CASE i \notin ToSet(rs)
    <3>1. Waiting(i)' \subseteq Waiting(i)
      BY <1>4, <2>4 DEF Waiting
    <3> QED
      BY <1>4, <2>1, <2>2, <3>1 DEF Held
  <2> QED
    BY <2>3, <2>4
<1> QED
  BY <1>4, <1>5, <1>6 DEF Leases

LEMMA FeedLeases ==
    ASSUME Types, Leases, NEW w \in Workers, Feed(w)
    PROVE  Leases'
<1> DEFINE p == ProcessOf[w]
           h == Head(batch[p])
<1>1. /\ p \in Processes /\ batch[p] \in Seq(Items) /\ batch[p] # <<>> /\ pc[w] = "idle"
      /\ batch' = [batch EXCEPT ![p] = Tail(batch[p])]
      /\ job' = [job EXCEPT ![w] = h] /\ pc' = [pc EXCEPT ![w] = "observing"]
      /\ UNCHANGED <<leased, deleted, overrun>>
  BY WorkerFacts DEF Feed, rows
<1>2. /\ batch'[p] = Tail(batch[p]) /\ \A q \in Processes \ {p} : batch'[q] = batch[q]
      /\ job'[w] = h /\ pc'[w] = "observing"
      /\ \A v \in Workers \ {w} : job'[v] = job[v] /\ pc'[v] = pc[v]
  BY <1>1 DEF Types, TypeOK
<1>3. IsInjective(batch[p])
  BY <1>1 DEF Leases
<1>4. /\ ToSet(batch[p]) = ToSet(batch'[p]) \cup {h}
      /\ IsInjective(batch'[p]) /\ h \notin ToSet(batch'[p])
  BY <1>1, <1>2, <1>3, TailSet
<1> HIDE DEF p, h
<1>5. \A q \in Processes : IsInjective(batch'[q])
  BY <1>2, <1>4 DEF Leases
<1>6. ASSUME NEW i \in Items \ (overrun \cup deleted)
      PROVE  /\ Held(i)' => i \in leased
             /\ \A v, u \in Holders(i)' : v = u
             /\ \A q, r \in Waiting(i)' : q = r
             /\ Holders(i)' = {} \/ Waiting(i)' = {}
  <2>1. /\ Held(i) => i \in leased
        /\ \A v, u \in Holders(i) : v = u
        /\ \A q, r \in Waiting(i) : q = r
        /\ Holders(i) = {} \/ Waiting(i) = {}
    BY <1>6 DEF Leases
  <2>2. CASE i = h
    <3>1. p \in Waiting(i)
      BY <1>1, <1>4, <2>2 DEF Waiting
    <3>2. Holders(i) = {} /\ \A q \in Waiting(i) : q = p
      BY <2>1, <3>1
    <3>3. \A v \in Holders(i)' : v = w
      BY <1>2, <3>2 DEF Holders
    <3>4. Waiting(i)' = {}
      BY <1>2, <1>4, <2>2, <3>2 DEF Waiting
    <3> QED
      BY <2>1, <3>1, <3>3, <3>4 DEF Held
  <2>3. CASE i # h
    <3>1. Holders(i)' = Holders(i)
      BY <1>1, <1>2, <2>3 DEF Holders
    <3>2. Waiting(i)' = Waiting(i)
      BY <1>2, <1>4, <2>3 DEF Waiting
    <3> QED
      BY <2>1, <3>1, <3>2 DEF Held
  <2> QED
    BY <2>2, <2>3
<1> QED
  BY <1>1, <1>5, <1>6 DEF Leases

\* A report ends the lease of its item, which nobody else held.
LEMMA ReportLeases ==
    ASSUME Types, Leases, NEW w \in Workers, NEW n \in 0 .. 2, Report(w, n) \/ ReplyLost(w, n)
    PROVE  Leases'
<1>1. /\ pc[w] = "observing" /\ leased' = leased \ {job[w]} /\ job[w] \in Items
      /\ UNCHANGED <<deleted, batch, overrun>>
  BY RecordedTypes DEF Report, ReplyLost, Recorded
<1>2. /\ pc'[w] # "observing"
      /\ \A v \in Workers \ {w} : pc'[v] = pc[v] /\ job'[v] = job[v]
  BY DEF Report, ReplyLost, Idle, Types, TypeOK
<1>3. ASSUME NEW i \in Items \ (overrun' \cup deleted'), i \in leased, Held(i)'
      PROVE  i \in leased'
  <2> SUFFICES ASSUME i = job[w] PROVE FALSE
    BY <1>1, <1>3
  <2>1. w \in Holders(i)
    BY <1>1 DEF Holders
  <2>2. Waiting(i) = {} /\ \A v \in Holders(i) : v = w
    BY <1>1, <1>3, <2>1 DEF Leases
  <2>3. Holders(i)' = {}
    BY <1>2, <2>2 DEF Holders
  <2>4. Waiting(i)' = {}
    BY <1>1, <2>2 DEF Waiting
  <2> QED
    BY <1>3, <2>3, <2>4 DEF Held
<1> QED
  BY <1>1, <1>2, <1>3, LeasesShrink

LEMMA OtherLeases ==
    ASSUME Types, Leases,
           \/ \E w \in Workers : Refused(w) \/ ReportLost(w) \/ Push(w) \/ PushFails(w)
           \/ \E p \in Processes : ClaimLost(p) \/ Stop(p)
           \/ UNCHANGED vars
    PROVE  Leases'
<1>1. \A v \in Workers : pc'[v] = "observing" => pc[v] = "observing" /\ job'[v] = job[v]
  <2>1. ASSUME NEW w \in Workers, Refused(w) \/ ReportLost(w) \/ Push(w) \/ PushFails(w)
        PROVE  Idle(w) \/ UNCHANGED <<pc, job>>
    BY <2>1 DEF Refused, ReportLost, Push, PushFails
  <2>2. ASSUME NEW w \in Workers, Idle(w)
        PROVE  \A v \in Workers : pc'[v] = "observing" => pc[v] = "observing" /\ job'[v] = job[v]
    BY <2>2 DEF Idle, Types, TypeOK
  <2>3. ASSUME NEW p \in Processes, ClaimLost(p) \/ Stop(p)
        PROVE  \A v \in Workers : pc'[v] = "observing" => pc[v] = "observing" /\ job'[v] = job[v]
    BY <2>3 DEF ClaimLost, Stop
  <2> QED
    BY <2>1, <2>2, <2>3 DEF vars
<1>2. \A p \in Processes : batch'[p] = batch[p] \/ batch'[p] = <<>>
  BY DEF Refused, ReportLost, Push, PushFails, ClaimLost, Stop, vars, Types, TypeOK
<1>3. UNCHANGED <<deleted, overrun>> /\ leased \subseteq leased'
  BY DEF Refused, ReportLost, Push, PushFails, ClaimLost, Stop, vars, rows
<1> QED
  BY <1>1, <1>2, <1>3, LeasesShrink

LEMMA LeasesStep == Types /\ Leases /\ [Next]_vars => Leases'
<1> SUFFICES ASSUME Types, Leases, [Next]_vars PROVE Leases'
  OBVIOUS
<1>1. ASSUME NEW w \in Workers, Step(w) PROVE Leases'
  BY <1>1, FeedLeases, ReportLeases, OtherLeases DEF Step
<1>2. CASE Trouble
  BY <1>2, RowLeases, ReportLeases, OtherLeases DEF Trouble
<1> QED
  BY <1>1, <1>2, RowLeases, ClaimLeases, OtherLeases DEF Next

-----------------------------------------------------------------------------
\* The order of the queue

LEMMA NthFacts ==
    ASSUME NEW x \in Alert
    PROVE  /\ x.nth \in Nat /\ Nth(x, x.nth) = x
           /\ \A j \in Nat : /\ Nth(x, j) \in Alert /\ Nth(x, j).nth = j
                             /\ \A k \in Nat : Nth(Nth(x, j), k) = Nth(x, k)
BY DEF Alert, Nth

\* What is listed stays so.
LEMMA ListKept ==
    ASSUME NEW x, Listed(x), \A m \in DOMAIN queued : m \in DOMAIN queued' /\ queued'[m] = queued[m]
    PROVE  Listed(x)'
<1> SUFFICES ASSUME NEW j \in 1 .. x.nth - 1
             PROVE  \E m \in DOMAIN queued' : queued'[m] = Nth(x, j)
  BY DEF Listed
<1>1. PICK m \in DOMAIN queued : queued[m] = Nth(x, j)
  BY DEF Listed
<1> QED
  BY <1>1

LEMMA QueueGrows ==
    ASSUME Types, QueuedInOrder, NEW x \in Alert, Listed(x), queued' = Append(queued, x)
    PROVE  /\ QueuedInOrder'
           /\ \A m \in DOMAIN queued : m \in DOMAIN queued' /\ queued'[m] = queued[m]
           /\ \E m \in DOMAIN queued' : queued'[m] = x
<1> DEFINE n == Len(queued)
<1>1. /\ n \in Nat /\ DOMAIN queued = 1 .. n /\ DOMAIN queued' = 1 .. n + 1
      /\ \A m \in 1 .. n : queued'[m] = queued[m]
      /\ queued'[n + 1] = x
  BY AppendFacts, SeqFacts DEF Types, TypeOK
<1> HIDE DEF n
<1>2. QueuedInOrder'
  <2> SUFFICES ASSUME NEW l \in 1 .. n + 1, NEW k \in 1 .. queued'[l].nth - 1
               PROVE  \E m \in 1 .. l - 1 : queued'[m] = Nth(queued'[l], k)
    BY <1>1 DEF QueuedInOrder, Nth
  <2>1. CASE l \in 1 .. n
    <3>1. PICK m \in 1 .. l - 1 : queued[m] = Nth(queued[l], k)
      BY <1>1, <2>1 DEF QueuedInOrder, Nth
    <3> QED
      BY <1>1, <2>1, <3>1
  <2>2. CASE l = n + 1
    <3>1. PICK m \in 1 .. n : queued[m] = Nth(x, k)
      BY <1>1, <2>2 DEF Listed
    <3> QED
      BY <1>1, <2>2, <3>1
  <2> QED
    BY <1>1, <2>1, <2>2
<1> QED
  BY <1>1, <1>2

\* Once the first is pushed, the rest is in order.
LEMMA TailOrdered ==
    ASSUME Types, QueuedInOrder, NEW h \in Seq(Alert), h # <<>>, Ordered(h),
           queued' = Append(queued, Head(h))
    PROVE  Ordered(Tail(h))'
<1>0. PICK x, t : x = h[1] /\ t = Tail(h)
  OBVIOUS
<1>1. /\ x \in Alert /\ Head(h) = x /\ Len(h) \in Nat /\ Len(h) > 0 /\ Len(t) = Len(h) - 1
      /\ \A k \in 1 .. Len(h) - 1 : t[k] = h[k + 1]
  BY <1>0, TailFacts, SeqFacts
<1>2. Listed(x) /\ x.nth \in Nat /\ \A k \in 1 .. Len(h) : h[k] = Nth(x, x.nth + k - 1)
  BY <1>0, <1>1, NthFacts DEF Ordered
<1>3. /\ Listed(x)'
      /\ \E m \in DOMAIN queued' : queued'[m] = x
  BY <1>1, <1>2, QueueGrows, ListKept
<1> SUFFICES ASSUME NEW k \in 1 .. Len(t)
             PROVE  t[k] = Nth(t[1], t[1].nth + k - 1) /\ Listed(t[1])'
  BY <1>0 DEF Ordered
<1>4. t[1] = Nth(x, x.nth + 1) /\ t[k] = Nth(x, x.nth + k)
  <2>1. /\ 1 + 1 \in 1 .. Len(h) /\ k + 1 \in 1 .. Len(h)
        /\ x.nth + (1 + 1) - 1 = x.nth + 1 /\ x.nth + (k + 1) - 1 = x.nth + k
        /\ 1 \in 1 .. Len(h) - 1 /\ k \in 1 .. Len(h) - 1
    BY <1>1, <1>2
  <2>2. t[1] = h[1 + 1] /\ t[k] = h[k + 1]
    BY <1>1, <2>1
  <2>3. h[1 + 1] = Nth(x, x.nth + (1 + 1) - 1) /\ h[k + 1] = Nth(x, x.nth + (k + 1) - 1)
    BY <1>2, <2>1
  <2> QED
    BY <2>1, <2>2, <2>3
<1>5. t[1].nth = x.nth + 1 /\ t[1].nth + k - 1 = x.nth + k /\ x.nth + k \in Nat
  BY <1>1, <1>2, <1>4, NthFacts
<1>6. \A j \in Nat : Nth(t[1], j) = Nth(x, j)
  BY <1>1, <1>2, <1>4, NthFacts
<1>7. Listed(t[1])'
  <2> SUFFICES ASSUME NEW j \in 1 .. x.nth
               PROVE  \E m \in DOMAIN queued' : queued'[m] = Nth(x, j)
    <3>1. \A j \in 1 .. t[1].nth - 1 : j \in 1 .. x.nth /\ Nth(t[1], j) = Nth(x, j)
      BY <1>2, <1>5, <1>6
    <3> QED
      BY <3>1 DEF Listed
  <2>1. CASE j = x.nth
    <3>1. Nth(x, j) = x
      BY <1>1, <2>1, NthFacts
    <3> QED
      BY <1>3, <3>1
  <2>2. CASE j # x.nth
    <3>1. j \in 1 .. x.nth - 1
      BY <1>2, <2>2
    <3> QED
      BY <1>3, <3>1 DEF Listed
  <2> QED
    BY <2>1, <2>2
<1> QED
  BY <1>4, <1>5, <1>6, <1>7

LEMMA OrderStep ==
    Types /\ HandsOrdered /\ QueuedInOrder /\ [Next]_vars => HandsOrdered' /\ QueuedInOrder'
<1> SUFFICES ASSUME Types, HandsOrdered, QueuedInOrder, [Next]_vars
             PROVE  HandsOrdered' /\ QueuedInOrder'
  OBVIOUS
\* The list is as it was, and a hand too, or empty, or it has just got a report.
<1>1. ASSUME queued' = queued,
             \A w \in Workers : \/ hand'[w] = hand[w] \/ hand'[w] = <<>>
                               \/ /\ hand'[w] \in Seq(Alert)
                                  /\ \A k \in 1 .. Len(hand'[w]) : hand'[w][k] = Nth(hand'[w][1], k)
                                  /\ hand'[w] # <<>> => hand'[w][1].nth = 1
      PROVE  HandsOrdered' /\ QueuedInOrder'
  <2>1. ASSUME NEW w \in Workers PROVE Ordered(hand[w])'
    <3>1. CASE hand'[w] = hand[w]
      BY <1>1, <3>1 DEF HandsOrdered, Ordered, Listed
    <3>2. CASE hand'[w] = <<>>
      BY <3>2 DEF Ordered
    <3>3. CASE /\ hand'[w] \in Seq(Alert)
               /\ \A k \in 1 .. Len(hand'[w]) : hand'[w][k] = Nth(hand'[w][1], k)
               /\ hand'[w] # <<>> => hand'[w][1].nth = 1
      <4> SUFFICES ASSUME NEW k \in 1 .. Len(hand'[w])
                   PROVE  /\ hand'[w][k] = Nth(hand'[w][1], hand'[w][1].nth + k - 1)
                          /\ Listed(hand[w][1])'
        BY DEF Ordered
      <4>1. hand'[w] # <<>> /\ Len(hand'[w]) \in Nat
        BY <3>3, SeqFacts
      <4>2. hand'[w][1].nth = 1 /\ hand'[w][1].nth + k - 1 = k
        BY <3>3, <4>1
      <4> QED
        BY <3>3, <4>2 DEF Listed
    <3> QED
      BY <1>1, <3>1, <3>2, <3>3
  <2> QED
    BY <1>1, <2>1 DEF HandsOrdered, QueuedInOrder
<1>2. CASE UNCHANGED <<queued, hand>>
  BY <1>1, <1>2
<1>3. ASSUME NEW w \in Workers, NEW n \in 0 .. 2, Report(w, n)
      PROVE  HandsOrdered' /\ QueuedInOrder'
  <2> DEFINE new == AlertsOf(job[w], n)
  <2>1. /\ new \in Seq(Alert) /\ Len(new) = n
        /\ \A k \in 1 .. n : new[k] = [item |-> job[w], report |-> reports[job[w]] + 1, nth |-> k]
        /\ queued' = queued /\ hand' = [hand EXCEPT ![w] = new]
    BY <1>3, RecordedTypes, AlertsFacts DEF Report, Recorded
  <2> HIDE DEF new
  <2>2. \A k \in 1 .. n : new[k] = Nth(new[1], k) /\ new[1].nth = 1
    <3> SUFFICES ASSUME NEW k \in 1 .. n PROVE new[k] = Nth(new[1], k) /\ new[1].nth = 1
      OBVIOUS
    <3>1. new[1] = [item |-> job[w], report |-> reports[job[w]] + 1, nth |-> 1]
      BY <2>1
    <3> QED
      BY <2>1, <3>1 DEF Nth
  <2>3. new # <<>> => 1 \in 1 .. n
    BY <2>1, SeqFacts
  <2>4. \A v \in Workers : hand'[v] = hand[v] \/ hand'[v] = new
    BY <2>1 DEF Types, TypeOK
  <2> QED
    BY <1>1, <2>1, <2>2, <2>3, <2>4
<1>4. ASSUME NEW w \in Workers, Push(w) \/ PushFails(w)
      PROVE  HandsOrdered' /\ QueuedInOrder'
  <2>0. PICK h, x : h = hand[w] /\ x = Head(h)
    OBVIOUS
  <2>1. /\ h \in Seq(Alert) /\ h # <<>> /\ x \in Alert /\ x = h[1] /\ Len(h) \in Nat /\ Len(h) > 0
        /\ Ordered(h)
    BY <1>4, <2>0, WorkerFacts, TailFacts, SeqFacts DEF Push, PushFails, HandsOrdered
  <2>2. Listed(x)
    BY <2>1 DEF Ordered
  <2>3. CASE queued' = queued
    <3>1. hand' = [hand EXCEPT ![w] = <<>>]
      <4>1. queued # Append(queued, x)
        BY <2>1, AppendFacts, WorkerFacts
      <4> QED
        BY <1>4, <2>0, <2>3, <4>1 DEF Push, PushFails, Abandoned
    <3> QED
      BY <1>1, <2>3, <3>1 DEF Types, TypeOK
  <2>4. CASE queued' = Append(queued, x)
    <3>1. /\ QueuedInOrder'
          /\ \A m \in DOMAIN queued : m \in DOMAIN queued' /\ queued'[m] = queued[m]
      BY <2>1, <2>2, <2>4, QueueGrows
    <3>2. ASSUME NEW v \in Workers \ {w} PROVE Ordered(hand[v])'
      <4>1. hand'[v] = hand[v] /\ Ordered(hand[v])
        BY <1>4 DEF Push, PushFails, Types, TypeOK, HandsOrdered
      <4> QED
        BY <3>1, <4>1, ListKept DEF Ordered
    <3>3. Ordered(hand[w])'
      <4>1. hand'[w] = Tail(h) \/ hand'[w] = <<>>
        BY <1>4, <2>0 DEF Push, PushFails, Rest, Abandoned, Types, TypeOK
      <4>2. Ordered(Tail(h))'
        BY <2>0, <2>1, <2>4, TailOrdered
      <4>3. CASE hand'[w] = <<>>
        BY <4>3 DEF Ordered
      <4>4. CASE hand'[w] = Tail(h)
        BY <4>2, <4>4 DEF Ordered, Listed
      <4> QED
        BY <4>1, <4>3, <4>4
    <3> QED
      BY <3>1, <3>2, <3>3 DEF HandsOrdered
  <2> QED
    BY <1>4, <2>0, <2>3, <2>4 DEF Push, PushFails
<1>5. ASSUME NEW p \in Processes, Stop(p) PROVE HandsOrdered' /\ QueuedInOrder'
  BY <1>1, <1>5 DEF Stop, alerts
<1>6. ASSUME NEW w \in Workers, Step(w) PROVE HandsOrdered' /\ QueuedInOrder'
  BY <1>2, <1>3, <1>4, <1>6 DEF Step, Feed, Refused, alerts
<1>7. CASE Trouble
  BY <1>2, <1>4, <1>5, <1>7
     DEF Trouble, EarlyLapse, ClaimLost, ReplyLost, Recorded, ReportLost, alerts
<1>8. CASE UNCHANGED vars
  BY <1>2, <1>8 DEF vars
<1> QED
  BY <1>2, <1>6, <1>7, <1>8 DEF Next, BecomeDue, Lapse, DeleteItem, Claim, alerts

-----------------------------------------------------------------------------
\* Nothing is missing

LEMMA ReportKeeps ==
    ASSUME Types, NothingMissing, NEW w \in Workers, NEW n \in 0 .. 2, Report(w, n)
    PROVE  NothingMissing'
<1>0. PICK new : new = AlertsOf(job[w], n)
  OBVIOUS
<1>1. /\ decided' = decided \cup ToSet(new) /\ hand' = [hand EXCEPT ![w] = new]
      /\ UNCHANGED <<queued, faults>>
  BY <1>0 DEF Report, Recorded
<1>2. /\ hand[w] = <<>> /\ hand'[w] = new
      /\ \A v \in Workers \ {w} : hand'[v] = hand[v]
  BY <1>1, WorkerFacts DEF Report, Recorded, Types, TypeOK
<1>3. \A a : a \notin ToSet(<<>>)
  BY DEF ToSet
<1> QED
  BY <1>1, <1>2, <1>3 DEF NothingMissing

LEMMA PushKeeps ==
    ASSUME Types, NothingMissing, NEW w \in Workers, Push(w)
    PROVE  NothingMissing'
<1>0. PICK h : h = hand[w]
  OBVIOUS
<1>1. /\ h \in Seq(Alert) /\ h # <<>> /\ Head(h) \in Alert /\ queued \in Seq(Alert)
      /\ queued' = Append(queued, Head(h)) /\ hand' = [hand EXCEPT ![w] = Tail(h)]
      /\ UNCHANGED <<decided, faults>>
  BY <1>0, WorkerFacts DEF Push, Rest
<1>2. hand'[w] = Tail(h) /\ \A v \in Workers \ {w} : hand'[v] = hand[v]
  BY <1>1 DEF Types, TypeOK
<1>3. ToSet(h) = ToSet(Tail(h)) \cup {Head(h)} /\ ToSet(queued') = ToSet(queued) \cup {Head(h)}
  BY <1>1, TailSet, AppendFacts
<1> SUFFICES ASSUME faults = 0, NEW a \in decided
             PROVE  a \in ToSet(queued') \/ \E v \in Workers : a \in ToSet(hand'[v])
  BY <1>1 DEF NothingMissing
<1>4. CASE a \in ToSet(queued)
  BY <1>3, <1>4
<1>5. ASSUME NEW v \in Workers, a \in ToSet(hand[v])
      PROVE  a \in ToSet(queued') \/ \E u \in Workers : a \in ToSet(hand'[u])
  <2>1. CASE v = w
    BY <1>0, <1>2, <1>3, <1>5, <2>1
  <2>2. CASE v # w
    BY <1>2, <1>5, <2>2
  <2> QED
    BY <2>1, <2>2
<1> QED
  BY <1>4, <1>5 DEF NothingMissing

LEMMA MissingStep == Types /\ NothingMissing /\ [Next]_vars => NothingMissing'
<1> SUFFICES ASSUME Types, NothingMissing, [Next]_vars PROVE NothingMissing'
  OBVIOUS
<1>1. CASE UNCHANGED <<decided, queued, hand, faults>>
  BY <1>1 DEF NothingMissing
<1>2. CASE Fault
  <2>1. faults' \in Nat /\ faults' > 0
    BY <1>2, FaultFacts DEF Types
  <2> QED
    BY <2>1 DEF NothingMissing
<1>3. ASSUME NEW w \in Workers, Step(w) PROVE NothingMissing'
  BY <1>1, <1>3, ReportKeeps, PushKeeps DEF Step, Feed, Refused, alerts
<1>4. Trouble => Fault
  BY DEF Trouble, EarlyLapse, ClaimLost, Stop, ReplyLost, ReportLost, PushFails
<1>5. CASE UNCHANGED vars
  BY <1>1, <1>5 DEF vars
<1> QED
  BY <1>1, <1>2, <1>3, <1>4, <1>5 DEF Next, BecomeDue, Lapse, DeleteItem, Claim, alerts

-----------------------------------------------------------------------------

LEMMA InitIInv == Init => IInv
<1> SUFFICES ASSUME Init PROVE IInv
  OBVIOUS
<1>1. /\ \A w \in Workers : pc[w] = "idle" /\ hand[w] = <<>>
      /\ \A p \in Processes : batch[p] = <<>>
      /\ due = <<>> /\ queued = <<>> /\ ToSet(<<>>) = {} /\ IsInjective(<<>>)
  BY DEF Init, ToSet, IsInjective
<1>2. Types
  BY <1>1 DEF Init, Types, TypeOK, WorkersOK
<1>3. Leases
  BY <1>1 DEF Leases, Held, Holders, Waiting
<1>4. HandsOrdered /\ QueuedInOrder /\ NothingMissing
  BY <1>1 DEF Init, HandsOrdered, Ordered, QueuedInOrder, NothingMissing
<1> QED
  BY <1>2, <1>3, <1>4 DEF IInv

LEMMA IInvAlways == Spec => []IInv
<1>1. IInv /\ [Next]_vars => IInv'
  BY TypesStep, LeasesStep, OrderStep, MissingStep DEF IInv
<1> QED
  BY InitIInv, <1>1, PTL DEF Spec

\* A set of which all are the same counts one, if there is any.
LEMMA CountOne ==
    ASSUME NEW S, \A x, y \in S : x = y
    PROVE  Cardinality(S) = IF S = {} THEN 0 ELSE 1
<1>1. CASE S # {}
  <2>1. PICK x : S = {x}
    BY <1>1
  <2> QED
    BY <2>1, FS_Singleton
<1> QED
  BY <1>1, FS_EmptySet

\* What is due, leased, claimed and in hand is what the columns and the calls can hold;
\* a lease is always one of a row that is due.
THEOREM TypeCorrect == Spec => []TypeOK
<1>1. IInv => TypeOK
  BY DEF IInv, Types
<1> QED
  BY <1>1, IInvAlways, PTL

\* Until a batch outlives its lease, the lease of claimDueSQL keeps an item in one pair
\* of hands, of however many processes and workers, whatever stops or is lost.
THEOREM LeaseHasOneHolder == Spec => []OneHolder
<1>1. IInv => OneHolder
  <2> SUFFICES ASSUME IInv, NEW i \in Items \ (overrun \cup deleted), Held(i)
               PROVE  /\ i \in leased
                      /\ Cardinality(Holders(i)) + Cardinality(Waiting(i)) = 1
    BY DEF OneHolder
  <2>1. /\ i \in leased /\ (Holders(i) = {} \/ Waiting(i) = {})
        /\ \A v, w \in Holders(i) : v = w
        /\ \A p, q \in Waiting(i) : p = q
    BY DEF IInv, Leases
  <2>2. /\ Cardinality(Holders(i)) = IF Holders(i) = {} THEN 0 ELSE 1
        /\ Cardinality(Waiting(i)) = IF Waiting(i) = {} THEN 0 ELSE 1
    BY <2>1, CountOne
  <2> QED
    BY <2>1, <2>2 DEF Held
<1> QED
  BY <1>1, IInvAlways, PTL

\* A report that Pool.raise could not push to the end leaves its beginning on the list,
\* never an alert without those before it.
THEOREM QueueKeepsOrder == Spec => []QueuedInOrder
<1>1. IInv => QueuedInOrder
  BY DEF IInv
<1> QED
  BY <1>1, IInvAlways, PTL

\* Core returns an alert once, in the reply of the report that decided it; as long as no
\* call and no process fails it is on the list or in that worker's hands.
THEOREM NoAlertMissing == Spec => []NothingMissing
<1>1. IInv => NothingMissing
  BY DEF IInv
<1> QED
  BY <1>1, IInvAlways, PTL

-----------------------------------------------------------------------------
\* The client.  Its reservations are a fold over the schedule: what holds after each
\* prefix is carried from one to the next.

Reservation == [host : Hosts, now : Nat]
Clients == [free : UNION {[hs -> Nat] : hs \in SUBSET Hosts}, slots : Seq(Nat)]
NewClient == [free |-> <<>>, slots |-> <<>>]

LEMMA WaitType ==
    ASSUME NEW c \in Clients, NEW r \in Reservation
    PROVE  /\ Wait(c.free, r) \in Nat
           /\ r.host \in DOMAIN c.free =>
                 /\ c.free[r.host] \in Nat
                 /\ r.now + Wait(c.free, r) = IF c.free[r.host] >= r.now THEN c.free[r.host]
                                              ELSE r.now
           /\ r.host \notin DOMAIN c.free => Wait(c.free, r) = 0
<1>1. CASE r.host \notin DOMAIN c.free
  BY <1>1 DEF Wait
<1>2. CASE r.host \in DOMAIN c.free
  <2>1. c.free[r.host] \in Nat /\ r.now \in Nat
    BY <1>2 DEF Clients, Reservation
  <2> DEFINE d == c.free[r.host] - r.now
  <2>2. d \in Int
    BY <2>1
  <2>3. Max({d, 0}) = IF d >= 0 THEN d ELSE 0
    <3> HIDE DEF d
    <3>1. \E x \in {d, 0} : \A y \in {d, 0} : x >= y
      BY <2>2
    <3>2. Max({d, 0}) \in {d, 0} /\ \A y \in {d, 0} : Max({d, 0}) >= y
      BY <3>1 DEF Max
    <3> QED
      BY <2>2, <3>2
  <2>4. Wait(c.free, r) = IF d >= 0 THEN d ELSE 0
    BY <1>2, <2>3 DEF Wait
  <2> QED
    BY <1>2, <2>1, <2>4
<1> QED
  BY <1>1, <1>2

LEMMA ReserveType ==
    ASSUME NEW c \in Clients, NEW r \in Reservation
    PROVE  Reserve(c, r) \in Clients
<1> DEFINE f == [h \in DOMAIN c.free \cup {r.host} |->
                      IF h = r.host THEN NextFree(r.now, Wait(c.free, r)) ELSE c.free[h]]
<1>1. PICK hs \in SUBSET Hosts : c.free \in [hs -> Nat]
  BY DEF Clients
<1>2. r.now + Wait(c.free, r) \in Nat /\ r.now \in Nat /\ r.host \in Hosts
  BY WaitType DEF Reservation
<1>3. NextFree(r.now, Wait(c.free, r)) \in Nat
  BY <1>2, PageClientAssumption DEF NextFree
<1>4. f \in [hs \cup {r.host} -> Nat]
  BY <1>1, <1>3
<1>5. hs \cup {r.host} \in SUBSET Hosts
  BY <1>2
<1>6. f \in UNION {[x -> Nat] : x \in SUBSET Hosts}
  <2> HIDE DEF f
  <2> QED
    BY <1>4, <1>5
<1>7. Append(c.slots, r.now + Wait(c.free, r)) \in Seq(Nat)
  BY <1>2 DEF Clients
<1>8. Reserve(c, r) = [free |-> f, slots |-> Append(c.slots, r.now + Wait(c.free, r))]
  BY DEF Reserve
<1> HIDE DEF f
<1> QED
  BY <1>6, <1>7, <1>8 DEF Clients

\* The slots of a schedule are those of the client it leaves behind.
LEMMA SlotsFold ==
    ASSUME NEW n \in Nat, NEW s \in [1 .. n -> Reservation]
    PROVE  \E h :
              /\ \A k \in 0 .. n : h[k] \in Clients
              /\ h[0] = NewClient
              /\ \A k \in 1 .. n : h[k] = Reserve(h[k - 1], s[k])
              /\ h[n].slots = Slots(s)
<1> DEFINE Eq(g) == g = [t \in SUBSET (1 .. n) |->
                            IF t = {} THEN NewClient
                            ELSE Reserve(g[t \ {Max(t)}], s[Max(t)])]
           G == CHOOSE g : Eq(g)
           op == [k \in 1 .. n |-> [c \in Clients |-> Reserve(c, s[k])]]
<1>1. Slots(s) = G[1 .. n].slots
  <2>1. DOMAIN s = 1 .. n
    OBVIOUS
  <2>2. Slots(s) = (CHOOSE g : g = [t \in SUBSET DOMAIN s |->
                            IF t = {} THEN NewClient
                            ELSE Reserve(g[t \ {Max(t)}], s[Max(t)])])[DOMAIN s].slots
    BY DEF Slots, FoldLeft, MapThenFoldSet, NewClient
  <2> QED
    BY <2>1, <2>2
<1>2. NewClient \in Clients
  <2>1. <<>> \in [{} -> Nat] /\ {} \in SUBSET Hosts
    OBVIOUS
  <2> QED
    BY <2>1 DEF NewClient, Clients
<1>3. StaysIn(op, n, Clients)
  BY ReserveType DEF StaysIn
<1>4. \A k \in 1 .. n, c \in Clients : op[k][c] = Reserve(c, s[k])
  OBVIOUS
<1>5. Eq(G)
  <2>1. PICK g \in [SUBSET (1 .. n) -> Clients] : IsFold(g, n, NewClient, op)
    <3> HIDE DEF op
    <3> QED
      BY <1>2, <1>3, FoldExists
  <2>2. ASSUME NEW t \in SUBSET (1 .. n), t # {}
        PROVE  op[Max(t)][g[t \ {Max(t)}]] = Reserve(g[t \ {Max(t)}], s[Max(t)])
    <3>1. Max(t) \in 1 .. n
      BY <2>2, MaxOfNats
    <3>2. g[t \ {Max(t)}] \in Clients
      BY t \ {Max(t)} \in SUBSET (1 .. n)
    <3> HIDE DEF op
    <3> QED
      BY <3>1, <3>2, <1>4
  <2>3. Eq(g)
    <3> HIDE DEF op
    <3> QED
      BY <2>1, <2>2 DEF IsFold
  <2> HIDE DEF Eq
  <2> QED
    BY <2>3
<1>6. G[{}] = NewClient
  <2> HIDE DEF G
  <2> QED
    BY <1>5, {} \in SUBSET (1 .. n)
<1>7. ASSUME NEW k \in 1 .. n
      PROVE  G[1 .. k] = Reserve(G[1 .. k - 1], s[k])
  <2> HIDE DEF G
  <2>1. \A t \in SUBSET (1 .. n) : t # {} => G[t] = Reserve(G[t \ {Max(t)}], s[Max(t)])
    BY <1>5
  <2>2. 1 .. k \in SUBSET (1 .. n) /\ 1 .. k # {}
    BY PrefixFacts, Zenon
  <2>3. Max(1 .. k) = k /\ (1 .. k) \ {k} = 1 .. k - 1
    BY PrefixFacts
  <2>4. G[1 .. k] = Reserve(G[(1 .. k) \ {Max(1 .. k)}], s[Max(1 .. k)])
    BY <2>1, <2>2, Zenon
  <2> QED
    BY <2>3, <2>4
<1> HIDE DEF G, op, Eq
<1>8. Follows(G, n, Clients, NewClient, op)
  BY <1>4, <1>6, <1>7 DEF Follows
<1>9. PICK h : Runs(h, n, Clients, NewClient, op) /\ h[n] = G[1 .. n]
  BY <1>2, <1>3, <1>8, FoldPrefixes
<1>10. \A k \in 1 .. n : h[k] = Reserve(h[k - 1], s[k])
  BY <1>4, <1>9 DEF Runs
<1>11. h[n].slots = Slots(s)
  BY <1>1, <1>9
<1> QED
  BY <1>9, <1>10, <1>11 DEF Runs

\* A slot is not early, not near an earlier one of its host, and not later than the
\* earlier ones require.
Spared(slots, s, m) ==
    /\ slots[m] >= s[m].now
    /\ \A j \in 1 .. m - 1 : s[j].host = s[m].host => slots[m] >= slots[j] + PerHostGap
    /\ slots[m] > s[m].now =>
          \E j \in 1 .. m - 1 : s[j].host = s[m].host /\ slots[m] = slots[j] + PerHostGap

\* After k reservations a host is free a gap after the last of its slots.
Reserved(c, s, k) ==
    /\ Len(c.slots) = k
    /\ \A j \in 1 .. k : /\ s[j].host \in DOMAIN c.free
                         /\ c.slots[j] + PerHostGap <= c.free[s[j].host]
    /\ \A x \in DOMAIN c.free :
          \E j \in 1 .. k : s[j].host = x /\ c.free[x] = c.slots[j] + PerHostGap
    /\ \A m \in 1 .. k : Spared(c.slots, s, m)

LEMMA ReserveKeeps ==
    ASSUME NEW n \in Nat, NEW s \in [1 .. n -> Reservation], NEW c \in Clients,
           NEW k \in 1 .. n, Reserved(c, s, k - 1)
    PROVE  Reserved(Reserve(c, s[k]), s, k)
<1> DEFINE r == s[k]
           wait == Wait(c.free, r)
           slot == r.now + wait
           d == Reserve(c, r)
<1>1. /\ k \in Nat \ {0} /\ k - 1 \in Nat
      /\ r \in Reservation /\ r.now \in Nat /\ r.host \in Hosts
      /\ PerHostGap \in Nat
  BY PageClientAssumption DEF Reservation
<1>2. /\ c.slots \in Seq(Nat) /\ Len(c.slots) = k - 1
      /\ \A j \in 1 .. k - 1 : c.slots[j] \in Nat
      /\ \A x \in DOMAIN c.free : c.free[x] \in Nat
  <2>1. c.slots \in Seq(Nat) /\ \E hs \in SUBSET Hosts : c.free \in [hs -> Nat]
    BY DEF Clients
  <2>2. Len(c.slots) = k - 1
    BY DEF Reserved
  <2> QED
    BY <2>1, <2>2
<1>3. /\ d.free = [x \in DOMAIN c.free \cup {r.host} |->
                      IF x = r.host THEN slot + PerHostGap ELSE c.free[x]]
      /\ d.slots = Append(c.slots, slot)
  BY DEF Reserve, NextFree
<1>4. /\ slot \in Nat
      /\ r.host \in DOMAIN c.free =>
            slot = IF c.free[r.host] >= r.now THEN c.free[r.host] ELSE r.now
      /\ r.host \notin DOMAIN c.free => slot = r.now
  BY <1>1, WaitType
<1>5. ASSUME NEW j \in 1 .. k - 1, s[j].host = r.host
      PROVE  c.slots[j] + PerHostGap <= slot
  <2>1. r.host \in DOMAIN c.free /\ c.slots[j] + PerHostGap <= c.free[r.host]
    BY <1>5 DEF Reserved
  <2>2. c.free[r.host] \in Nat /\ c.slots[j] \in Nat
    BY <1>2, <2>1
  <2>3. c.free[r.host] <= slot
    BY <1>1, <1>4, <2>1, <2>2
  <2> HIDE DEF slot
  <2> QED
    BY <1>1, <1>4, <2>1, <2>2, <2>3
<1> HIDE DEF slot, wait, d
<1>6. /\ Len(d.slots) = k /\ d.slots[k] = slot
      /\ \A j \in 1 .. k - 1 : d.slots[j] = c.slots[j]
  BY <1>1, <1>2, <1>3, <1>4
<1>7. ASSUME NEW j \in 1 .. k
      PROVE  s[j].host \in DOMAIN d.free /\ d.slots[j] + PerHostGap <= d.free[s[j].host]
  <2>1. CASE j = k
    BY <1>1, <1>3, <1>4, <1>6, <2>1
  <2>2. CASE j # k
    <3>1. j \in 1 .. k - 1 /\ d.slots[j] = c.slots[j]
      BY <1>1, <1>6, <2>2
    <3>2. s[j].host \in DOMAIN c.free /\ c.slots[j] + PerHostGap <= c.free[s[j].host]
      BY <3>1 DEF Reserved
    <3>3. CASE s[j].host = r.host
      <4>1. c.slots[j] + PerHostGap <= slot /\ d.free[s[j].host] = slot + PerHostGap
        BY <1>3, <1>5, <3>1, <3>3
      <4> QED
        <5>1. s[j].host \in DOMAIN d.free
          BY <1>3, <3>3
        <5>2. d.slots[j] \in Nat
          BY <1>2, <3>1
        <5> QED
          BY <1>1, <1>4, <3>1, <4>1, <5>1, <5>2
    <3>4. CASE s[j].host # r.host
      BY <1>3, <3>1, <3>2, <3>4
    <3> QED
      BY <3>3, <3>4
  <2> QED
    BY <2>1, <2>2
<1>8. ASSUME NEW x \in DOMAIN d.free
      PROVE  \E j \in 1 .. k : s[j].host = x /\ d.free[x] = d.slots[j] + PerHostGap
  <2>1. CASE x = r.host
    BY <1>1, <1>3, <1>6, <2>1, k \in 1 .. k
  <2>2. CASE x # r.host
    <3>1. x \in DOMAIN c.free /\ d.free[x] = c.free[x]
      BY <1>3, <2>2
    <3>2. PICK j \in 1 .. k - 1 : s[j].host = x /\ c.free[x] = c.slots[j] + PerHostGap
      BY <3>1 DEF Reserved
    <3> QED
      BY <1>1, <1>6, <3>1, <3>2, j \in 1 .. k
  <2> QED
    BY <2>1, <2>2
<1>9. ASSUME NEW m \in 1 .. k
      PROVE  Spared(d.slots, s, m)
  <2>1. CASE m = k
    <3>1. d.slots[m] = slot /\ slot >= r.now
      BY <1>1, <1>2, <1>4, <1>6, <2>1
    <3>2. ASSUME NEW j \in 1 .. m - 1, s[j].host = s[m].host
          PROVE  d.slots[m] >= d.slots[j] + PerHostGap
      <4>1. j \in 1 .. k - 1 /\ d.slots[j] = c.slots[j]
        BY <1>6, <2>1
      <4> QED
        BY <1>1, <1>2, <1>4, <1>5, <2>1, <3>1, <3>2, <4>1
    <3>3. ASSUME d.slots[m] > s[m].now
          PROVE  \E j \in 1 .. m - 1 : /\ s[j].host = s[m].host
                                       /\ d.slots[m] = d.slots[j] + PerHostGap
      <4>1. r.host \in DOMAIN c.free /\ slot = c.free[r.host]
        BY <1>1, <1>2, <1>4, <2>1, <3>1, <3>3
      <4>2. PICK j \in 1 .. k - 1 : s[j].host = r.host /\ c.free[r.host] = c.slots[j] + PerHostGap
        BY <4>1 DEF Reserved
      <4> QED
        BY <1>6, <2>1, <3>1, <4>1, <4>2
    <3> QED
      BY <2>1, <3>1, <3>2, <3>3 DEF Spared
  <2>2. CASE m # k
    <3>1. m \in 1 .. k - 1 /\ \A j \in 1 .. m - 1 : j \in 1 .. k - 1
      BY <1>1, <2>2
    <3>2. Spared(c.slots, s, m)
      BY <3>1 DEF Reserved
    <3> QED
      BY <1>6, <3>1, <3>2 DEF Spared
  <2> QED
    BY <2>1, <2>2
<1> QED
  BY <1>6, <1>7, <1>8, <1>9 DEF Reserved, d, r

\* For any schedule of reservations, however long and at whatever times: the requests
\* to a host are a gap apart, and none waits longer than those before it require
\* (waitForHost reserves the slot before it waits).
THEOREM ClientKeepsApart ==
    ASSUME NEW n \in Nat, NEW s \in [1 .. n -> Reservation]
    PROVE  SparesHosts(s)
<1>1. PICK h : /\ \A k \in 0 .. n : h[k] \in Clients
               /\ h[0] = NewClient
               /\ \A k \in 1 .. n : h[k] = Reserve(h[k - 1], s[k])
               /\ h[n].slots = Slots(s)
  BY SlotsFold
<1> DEFINE P == {k \in 0 .. n : Reserved(h[k], s, k)}
<1>2. 0 \in P
  BY <1>1 DEF Reserved, NewClient
<1>3. ASSUME NEW k \in 0 .. n, k \in P, k < n PROVE k + 1 \in P
  <2>1. k + 1 \in 1 .. n /\ k + 1 \in 0 .. n /\ (k + 1) - 1 = k
    BY <1>3
  <2>2. h[k + 1] = Reserve(h[k], s[k + 1])
    BY <1>1, <2>1
  <2>3. Reserved(h[k], s, (k + 1) - 1)
    BY <1>3, <2>1
  <2> QED
    BY <1>1, <2>1, <2>2, <2>3, ReserveKeeps
<1>4. Reserved(h[n], s, n)
  <2>1. 0 .. n \subseteq P
    <3> HIDE DEF P
    <3> QED
      BY <1>2, <1>3, Upwards
  <2> QED
    BY <2>1
<1>5. \A m \in 1 .. n : Spared(Slots(s), s, m)
  BY <1>1, <1>4 DEF Reserved
<1> QED
  BY <1>5, DOMAIN s = 1 .. n DEF SparesHosts, Spared

\* A fetch ends with the first answer that is no bad minute, or with its last attempt.
LEMMA FetchSettles ==
    ASSUME NEW answers \in [1 .. MaxRetries + 1 -> Answers]
    PROVE  Settles(answers)
<1> DEFINE settled == {n \in DOMAIN answers : ~Temporary(FetchOnce(answers[n]))}
           ends == settled \cup {MaxRetries + 1}
           last == Min(ends)
<1>1. MaxRetries \in Nat /\ DOMAIN answers = 1 .. MaxRetries + 1
  BY PageClientAssumption
<1>2. ends \subseteq 1 .. MaxRetries + 1 /\ MaxRetries + 1 \in ends
  BY <1>1
<1>3. last \in ends /\ \A n \in ends : last <= n
  <2>1. ends \subseteq Nat /\ ends # {}
    BY <1>2
  <2> HIDE DEF ends
  <2>2. \E x \in ends : \A y \in ends : x <= y
    BY <2>1, LeastOfNats
  <2> QED
    BY <2>2 DEF Min
<1>4. Fetch(answers) = [err |-> FetchOnce(answers[last]), attempts |-> last]
  BY DEF Fetch
<1> HIDE DEF last
<1>5. last \in 1 .. MaxRetries + 1
  BY <1>2, <1>3
<1>6. \A n \in 1 .. last - 1 : n \in 1 .. MaxRetries + 1 /\ n \notin ends
  BY <1>1, <1>2, <1>3, <1>5
<1>7. \A n \in 1 .. last - 1 : FetchOnce(answers[n]) = "temporary"
  BY <1>1, <1>6 DEF Temporary
<1>8. FetchOnce(answers[last]) = "temporary" => last = MaxRetries + 1
  BY <1>3 DEF Temporary
<1> HIDE DEF settled, ends
<1> QED
  BY <1>1, <1>4, <1>5, <1>7, <1>8, \A n \in 1 .. last - 1 : n \in 1 .. MaxRetries + 1 DEF Settles

\* Requests to a shop stay apart while any worker is on a page, and only a bad minute is
\* met with another attempt.
THEOREM HostsAlwaysSpared == Spec => []HostsSpared
<1>1. ASSUME NEW s \in Schedules PROVE SparesHosts(s)
  <2>1. PICK n \in 0 .. Requests : s \in [1 .. n -> [host : Hosts, now : 0 .. 2 * PerHostGap]]
    BY DEF Schedules
  <2>2. n \in Nat
    BY RequestsAssumption
  <2>3. s \in [1 .. n -> Reservation]
    BY <2>1, PageClientAssumption DEF Reservation
  <2> QED
    BY <2>2, <2>3, ClientKeepsApart
<1>2. HostsSpared
  BY <1>1, FetchSettles DEF HostsSpared, ClientBehaves
<1> QED
  BY <1>2, PTL
=============================================================================
